SPECIFICATION Spec
CONSTANTS
    t1 = t1
    t2 = t2
    cam1 = cam1
    cam2 = cam2
    NoTrack = NoTrack
    Nothing = Nothing
    Tasks = {t1}
    Rules <- MCRules
    Bindings <- MCBindings
    Cameras = {cam1, cam2}
    Tracks = {k1}
    KindOf <- MCKindOf
    RuleOf <- MCRuleOf
    ScopeOf <- MCScopeOf
    Overridden <- MCOverridden
    MaxCount = 1
    MaxFound = 1
    MaxEdits = 0
INVARIANT ModelOutputsAreEvaluated
CHECK_DEADLOCK FALSE
