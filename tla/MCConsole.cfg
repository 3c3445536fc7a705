SPECIFICATION MCSpec
CONSTANTS
    Rows = {r1, r2}
    MaxCalls = 2
    Items = {i1, i2}
    Texts = {a, b}
    Empty = Empty
    NoItem = NoItem
    Loads = {1, 2, 3}
    p = p
    q = q
    s1 = s1
    s2 = s2
    Names = {p, q}
    NoName = NoName
    MaxId = 2
    MaxEdits = 2
    Given <- MCGiven
    Slots = {s1, s2}
SYMMETRY Symmetry
INVARIANTS
    MCTypeOK
    RestShowsServer
    SpinnerHasACall
    OpensWhatWasAsked
    WipedOnlyByRevisit
    RegisteredClosed
    OnlyRemovalDangles
    DuplicatesAreLoadedOrTyped
    DrawnEdgesAreDependencies
PROPERTIES
    RegisteredUntilRemoved
