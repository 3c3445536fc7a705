--------------------------- MODULE PipelineEditor ---------------------------
(***************************************************************************)
(* The pipeline page of the v1 console: the editor of a pipeline's graph,  *)
(* its store, and the pipeline routes of the API.  The editor keeps two    *)
(* copies of the graph, the nodes it will save and the nodes and edges the *)
(* canvas draws.  A node is found by its identifier; identifiers of new    *)
(* nodes come from a counter that starts again with every visit.           *)
(* Opening the editor also fetches the models for its node dialog: for the *)
(* page of the models, in Tables, that is one more Refresh.                *)
(***************************************************************************)
EXTENDS Naturals, FiniteSets

CONSTANTS
    Names,     \* pipelines
    NoName,    \* the name of a pipeline that is new
    MaxId,     \* bound: identifiers, and nodes dropped in one visit
    MaxEdits,  \* bound: changes of nodes and edges, drops included
    Given,     \* graphs that may be registered at first
    Slots      \* bound: calls in flight

Ids == 1..MaxId

(* A node has a key of its own: those of loaded nodes come first. *)
Node == [key: 1..(2 * MaxId), id: Ids, deps: SUBSET Ids]

IdsOf(graph) == {n.id : n \in graph}

\* Every dependency is a node of the graph: what the server validates.
Closed(graph) == \A n \in graph : n.deps \subseteq IdsOf(graph)

Unique(graph) == \A m, n \in graph : m.id = n.id => m = n

\* The dependencies without a node.
Dangling(graph) == (UNION {n.deps : n \in graph}) \ IdsOf(graph)

Edges(graph) == UNION {{<<d, n.id>> : d \in n.deps} : n \in graph}

ASSUME EditorAssumption ==
    /\ NoName \notin Names
    /\ {MaxId, MaxEdits} \subseteq Nat
    /\ Given \subseteq SUBSET Node
    /\ \A graph \in Given : Closed(graph) /\ Unique(graph)

VARIABLES
    registry,   \* the server's graph of each name that is registered
    open,       \* the editor is open
    title,      \* the name of the pipeline it updates, or NoName
    nodes,      \* the nodes it will save
    drawn,      \* the nodes on the canvas: key and identifier
    edges,      \* the edges on the canvas
    counter,    \* nodes dropped since the page was entered
    edits,      \* changes of nodes and edges so far, to bound them
    storing,    \* the store's saving flag
    posts,      \* calls in flight
    cut,        \* history: identifiers removed since the graph was opened
    renamed,    \* history: identifiers changed since, as pairs of old and new
    above       \* history: loaded identifiers the counter had not reached

editorVars == <<registry, open, title, nodes, drawn, edges, counter, edits, storing,
                posts, cut, renamed, above>>
graphVars == <<open, title, nodes, drawn, edges, cut, renamed, above>>

Idle == [op |-> "none", name |-> NoName, graph |-> {}, stage |-> "sent",
           live |-> FALSE, lost |-> {}]

\* lost is history, kept until the call is handled: identifiers that had gone
\* from the editor when it was sent.
Post == [op: {"open", "create", "update", "remove", "refetch", "relist"},
         name: Names, graph: SUBSET Node, stage: {"sent", "ok", "refused"},
         live: BOOLEAN, lost: SUBSET Ids]

\* Identifiers that nodes no longer have, and that were typed for them.
Lost  == cut \cup {change[1] : change \in renamed}
Typed == {change[2] : change \in renamed}

EditorTypeOK ==
    /\ DOMAIN registry \subseteq Names
    /\ \A name \in DOMAIN registry : registry[name] \in SUBSET Node
    /\ open \in BOOLEAN
    /\ title \in Names \cup {NoName}
    /\ nodes \in SUBSET Node
    /\ drawn \in SUBSET [key: 1..(2 * MaxId), id: Ids]
    /\ edges \in SUBSET (Ids \X Ids)
    /\ counter \in 0..MaxId
    /\ edits \in 0..MaxEdits
    /\ storing \in BOOLEAN
    /\ posts \in [Slots -> Post \cup {Idle}]
    /\ cut \in SUBSET Ids
    /\ renamed \in SUBSET (Ids \X Ids)
    /\ above \in SUBSET Ids

EditorInit ==
    /\ registry \in UNION {[known -> Given] : known \in SUBSET Names}
    /\ open = FALSE
    /\ title = NoName
    /\ nodes = {} /\ drawn = {} /\ edges = {}
    /\ counter = 0 /\ edits = 0
    /\ storing = FALSE
    /\ posts = [k \in Slots |-> Idle]
    /\ cut = {} /\ renamed = {}
    /\ above = {}

-----------------------------------------------------------------------------
(* Opening and closing. *)

\* A plausible bug: the canvas keeps the edges of the graph that was on display.
MutatedReplace(name, graph) ==
    /\ open' = TRUE
    /\ title' = name
    /\ nodes' = graph
    /\ drawn' = {[key |-> n.key, id |-> n.id] : n \in graph}
    /\ edges' = edges \cup Edges(graph)
    /\ cut' = {} /\ renamed' = {}
    /\ above' = {x \in IdsOf(graph) : x > counter}

Replace(name, graph) ==
    /\ open' = TRUE
    /\ title' = name
    /\ nodes' = graph
    /\ drawn' = {[key |-> n.key, id |-> n.id] : n \in graph}
    /\ edges' = Edges(graph)
    /\ cut' = {} /\ renamed' = {}
    /\ above' = {x \in IdsOf(graph) : x > counter}

\* The editor closes.  What it holds is not looked at again before it opens.
Shut ==
    /\ open' = FALSE
    /\ title' = NoName
    /\ nodes' = {} /\ drawn' = {} /\ edges' = {}
    /\ cut' = {} /\ renamed' = {}
    /\ above' = {}

OpenBlank ==
    /\ ~open
    /\ Replace(NoName, {})
    /\ UNCHANGED <<registry, counter, edits, storing, posts>>

CloseEditor ==
    /\ open
    /\ Shut
    /\ UNCHANGED <<registry, counter, edits, storing, posts>>

\* The page is left and entered again.  The store and its calls survive, the
\* editor and the counter do not.
Revisit ==
    /\ Shut
    /\ counter' = 0
    /\ posts' = [k \in Slots |-> IF posts[k] = Idle THEN Idle
                                 ELSE [posts[k] EXCEPT !.live = FALSE]]
    /\ UNCHANGED <<registry, edits, storing>>

-----------------------------------------------------------------------------
(* Editing the graph. *)

Edit ==
    /\ open
    /\ edits < MaxEdits
    /\ edits' = edits + 1

\* A node type is dropped on the canvas.
Drop ==
    /\ Edit
    /\ counter < MaxId
    /\ counter' = counter + 1
    /\ nodes' = nodes \cup {[key |-> MaxId + counter', id |-> counter', deps |-> {}]}
    /\ drawn' = drawn \cup {[key |-> MaxId + counter', id |-> counter']}
    /\ UNCHANGED <<registry, open, title, edges, storing, posts, cut, renamed, above>>

\* Two handles are connected.  Of nodes with one identifier the first is found,
\* which is any here; the canvas is left to itself, and draws no edge.
Connect(s, t) ==
    /\ Edit
    /\ {s, t} \subseteq IdsOf(drawn) \cap IdsOf(nodes)
    /\ \E n \in nodes :
          /\ n.id = t
          /\ nodes' = (nodes \ {n}) \cup {[n EXCEPT !.deps = @ \cup {s}]}
    /\ UNCHANGED <<registry, open, title, drawn, edges, counter, storing, posts,
                   cut, renamed, above>>

\* The cross of a drawn node: every node of that identifier goes, one drawn
\* node and the edges of the identifier; other nodes still depend on it.
RemoveNode(x) ==
    /\ Edit
    /\ \E d \in drawn : d.id = x /\ drawn' = drawn \ {d}
    /\ nodes' = {n \in nodes : n.id # x}
    /\ edges' = {e \in edges : x \notin {e[1], e[2]}}
    /\ cut' = cut \cup {x}
    /\ UNCHANGED <<registry, open, title, counter, storing, posts, renamed, above>>

\* The configuration dialog of a drawn node changes the identifier in place:
\* the canvas and the dependencies of other nodes keep the old one.
Rename(x, y) ==
    /\ Edit
    /\ x # y
    /\ x \in IdsOf(drawn)
    /\ \E n \in nodes :
          n.id = x /\ nodes' = (nodes \ {n}) \cup {[n EXCEPT !.id = y]}
    /\ renamed' = renamed \cup {<<x, y>>}
    /\ UNCHANGED <<registry, open, title, drawn, edges, counter, storing, posts,
                   cut, above>>

\* The canvas deletes what is selected, a drawn edge or a drawn node with its
\* edges.  The editor does not hear of it: the graph keeps both.
Erase ==
    /\ Edit
    /\ \/ \E e \in edges : edges' = edges \ {e} /\ UNCHANGED drawn
       \/ \E d \in drawn :
             /\ drawn' = drawn \ {d}
             /\ edges' = {e \in edges : d.id \notin {e[1], e[2]}}
    /\ UNCHANGED <<registry, open, title, nodes, counter, storing, posts, cut,
                   renamed, above>>

-----------------------------------------------------------------------------
(* Calls. *)

Start(k, op, name, graph) ==
    /\ posts[k] = Idle
    /\ posts' = [posts EXCEPT ![k] = [op |-> op, name |-> name, graph |-> graph,
                                      stage |-> "sent", live |-> op # "remove",
                                      lost |-> Lost]]

\* The edit button of a row; the dialog covers the table.
AskOpen(k, name) ==
    /\ ~open
    /\ Start(k, "open", name, {})
    /\ UNCHANGED <<registry, counter, edits, storing, graphVars>>

AskRemove(k, name) ==
    /\ ~open
    /\ Start(k, "remove", name, {})
    /\ storing' = TRUE
    /\ UNCHANGED <<registry, counter, edits, graphVars>>

\* The save button: a new pipeline under the name that was typed, or else the
\* pipeline that was opened, whatever name was typed.
SaveEditor(k, name) ==
    /\ open
    /\ ~storing
    /\ IF title = NoName THEN Start(k, "create", name, nodes)
                         ELSE name = title /\ Start(k, "update", name, nodes)
    /\ storing' = TRUE
    /\ UNCHANGED <<registry, counter, edits, graphVars>>

-----------------------------------------------------------------------------
(* The server. *)

Register(name, graph) ==
    [x \in DOMAIN registry \cup {name} |-> IF x = name THEN graph ELSE registry[x]]

Unregister(name) == [x \in DOMAIN registry \ {name} |-> registry[x]]

Reply(k, stage, graph) ==
    posts' = [posts EXCEPT ![k].stage = stage, ![k].graph = graph, ![k].lost = {}]

\* The graph is kept by identifier: of several nodes one remains.
Kept(graph, kept) ==
    /\ kept \subseteq graph
    /\ Unique(kept)
    /\ IdsOf(kept) = IdsOf(graph)

\* Plausible bugs: nothing is validated; an empty graph is refused.
MutatedAccepts(graph) == TRUE
MutatedAcceptsNonEmpty(graph) == Closed(graph) /\ graph # {}

Accepts(graph) == Closed(graph)

\* A loaded node's key is its identifier.
Stored(kept) == {[n EXCEPT !.key = n.id] : n \in kept}

ServeFetch(k) ==
    LET name == posts[k].name IN
    /\ posts[k].op \in {"open", "refetch"}
    /\ IF name \in DOMAIN registry
       THEN Reply(k, "ok", IF posts[k].op = "open" THEN registry[name] ELSE {})
       ELSE Reply(k, "refused", {})
    /\ UNCHANGED registry

ServeCreate(k) ==
    LET name == posts[k].name IN
    /\ posts[k].op = "create"
    /\ \E kept \in SUBSET posts[k].graph :
          /\ Kept(posts[k].graph, kept)
          /\ IF name \notin DOMAIN registry /\ Accepts(kept)
             THEN registry' = Register(name, Stored(kept)) /\ Reply(k, "ok", {})
             ELSE UNCHANGED registry /\ Reply(k, "refused", {})

\* The old graph is unregistered before the new one is validated.
ServeUpdate(k) ==
    LET name == posts[k].name IN
    /\ posts[k].op = "update"
    /\ \E kept \in SUBSET posts[k].graph :
          /\ Kept(posts[k].graph, kept)
          /\ IF name \in DOMAIN registry /\ Accepts(kept)
             THEN registry' = Register(name, Stored(kept)) /\ Reply(k, "ok", {})
             ELSE registry' = Unregister(name) /\ Reply(k, "refused", {})

ServeRemove(k) ==
    LET name == posts[k].name IN
    /\ posts[k].op = "remove"
    /\ registry' = Unregister(name)
    /\ Reply(k, IF name \in DOMAIN registry THEN "ok" ELSE "refused", {})

Serve(k) ==
    /\ posts[k].stage = "sent"
    /\ \/ ServeFetch(k) \/ ServeCreate(k) \/ ServeUpdate(k)
       \/ ServeRemove(k)
    /\ UNCHANGED <<counter, edits, storing, graphVars>>

-----------------------------------------------------------------------------
(* The answers. *)

\* A plausible bug: nodes are numbered from the number of nodes loaded, which
\* is what the page sets its other counter to.
MutatedArriveOpen(k) ==
    /\ posts[k].op = "open" /\ posts[k].stage = "ok"
    /\ posts' = [posts EXCEPT ![k] = Idle]
    /\ IF posts[k].live
       THEN /\ Replace(posts[k].name, posts[k].graph)
            /\ counter' = Cardinality(posts[k].graph)
       ELSE UNCHANGED <<graphVars, counter>>
    /\ UNCHANGED <<registry, edits, storing>>

\* The graph of whichever load arrives last is the one on display.
ArriveOpen(k) ==
    /\ posts[k].op = "open" /\ posts[k].stage = "ok"
    /\ posts' = [posts EXCEPT ![k] = Idle]
    /\ IF posts[k].live THEN Replace(posts[k].name, posts[k].graph)
                        ELSE UNCHANGED graphVars
    /\ UNCHANGED <<registry, counter, edits, storing>>

\* The store goes on with a second call, still saving: the graph after an
\* update, and otherwise the list, of which nothing is kept here.
ArriveFirst(k) ==
    /\ posts[k].stage = "ok"
    /\ \/ /\ posts[k].op = "update"
          /\ posts' = [posts EXCEPT ![k].op = "refetch", ![k].stage = "sent"]
       \/ /\ posts[k].op \in {"create", "remove"}
          /\ posts' = [posts EXCEPT ![k].op = "relist"]
    /\ UNCHANGED <<registry, counter, edits, storing, graphVars>>

\* The second call is back: a save closes the editor that is open by then.
ArriveSecond(k) ==
    /\ posts[k].op \in {"relist", "refetch"} /\ posts[k].stage = "ok"
    /\ posts' = [posts EXCEPT ![k] = Idle]
    /\ storing' = FALSE
    /\ IF posts[k].live THEN Shut ELSE UNCHANGED graphVars
    /\ UNCHANGED <<registry, counter, edits>>

\* The server refuses, or the call or its answer is lost: the editor stays.
FailPost(k) ==
    /\ posts[k] # Idle
    /\ posts' = [posts EXCEPT ![k] = Idle]
    /\ storing' = (storing /\ posts[k].op = "open")
    /\ UNCHANGED <<registry, counter, edits, graphVars>>

EditorNext ==
    \/ OpenBlank
    \/ CloseEditor
    \/ Revisit
    \/ Drop
    \/ \E s, t \in Ids : Connect(s, t) \/ Rename(s, t)
    \/ \E x \in Ids : RemoveNode(x)
    \/ Erase
    \/ \E k \in Slots, name \in Names :
          AskOpen(k, name) \/ AskRemove(k, name) \/ SaveEditor(k, name)
    \/ \E k \in Slots :
          \/ Serve(k) \/ ArriveOpen(k) \/ ArriveFirst(k) \/ ArriveSecond(k)
          \/ FailPost(k)

EditorSpec == EditorInit /\ [][EditorNext]_editorVars

-----------------------------------------------------------------------------
(* Properties. *)

\* The graphs that are registered are closed, so the executor never waits for
\* a node that does not exist: whatever the editor sends is validated, and of
\* several nodes with one identifier one is kept.
RegisteredClosed ==
    \A name \in DOMAIN registry : Closed(registry[name])

\* Every dependency without a node, for which the server refuses a graph, is
\* on an identifier that was removed or changed since the graph was opened:
\* dropping, connecting, erasing and loading leave no dependency alone, and
\* neither does a removal or a change of any other identifier.
OnlyRemovalDangles == Dangling(nodes) \subseteq Lost

\* Where two nodes have one identifier, of which the server keeps one, it was
\* typed in the node dialog or it is that of a loaded node which the counter
\* of this visit had not reached when it was loaded: the counter itself gives
\* no identifier twice, and none that it has passed, whichever pipelines are
\* opened one after the other.
DuplicatesAreLoadedOrTyped ==
    \A m, n \in nodes : m.id = n.id => m = n \/ m.id \in above \cup Typed

\* An edge the canvas draws is a dependency that would be saved, or leads to
\* an identifier that was changed: the edge of a changed node stays where it
\* was.  In particular canvas and graph are of one pipeline, whichever answer
\* came last.  (Not every dependency is drawn: a new connection is not until
\* the pipeline is opened again.)
DrawnEdgesAreDependencies ==
    \A e \in edges \ Edges(nodes) : \E change \in renamed : change[1] = e[2]

\* A registered pipeline disappears only when it is deleted or when a save is
\* refused, and the save is refused for a node that was removed or whose
\* identifier was changed in the editor that sent it: the old graph is
\* unregistered before the new one is validated, but nothing else a user does
\* in the editor, and no crossing of calls, makes the validation fail.
RegisteredUntilRemoved ==
    [][\A name \in DOMAIN registry :
          name \notin DOMAIN registry'
             => \E k \in Slots :
                   /\ posts[k].stage = "sent" /\ posts[k].name = name
                   /\ \/ posts[k].op = "remove"
                      \/ /\ posts[k].op = "update"
                         /\ Dangling(posts[k].graph) \cap posts[k].lost # {}
      ]_editorVars
=============================================================================
