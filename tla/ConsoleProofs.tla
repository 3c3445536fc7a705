---------------------------- MODULE ConsoleProofs ----------------------------
(***************************************************************************)
(* Proofs about the forms of the consoles (Dialogs, AgentForm) and about   *)
(* the pipelines and their editor (PipelineEditor), for any items, texts,  *)
(* graphs and calls in flight.                                             *)
(*                                                                         *)
(* The inductive invariants of the forms say what a closed or a covered    *)
(* form still holds: that is what a later opening, or a late answer,       *)
(* finds.  The editor's has three parts, the graph in the editor, the      *)
(* calls, and the server's registry: a graph goes round through all three, *)
(* and each hands on what the next needs.                                  *)
(***************************************************************************)
EXTENDS Dialogs, AgentForm, PipelineEditor, TLAPS

-----------------------------------------------------------------------------
(* The dialogs.                                                            *)

\* A form belongs to an item while editing is on, which only a dialog that
\* clears its form turns on; it does so for what was asked, or is left over.
FormConsistent ==
    /\ editing <=> form.item # NoItem
    /\ editing => dialog.edits
    /\ show /\ asked # "new" => form.item = asked
    /\ form.item # NoItem /\ (~show \/ asked = "new") => left = form.item

\* There is no submission but while the button is busy, and it names the item
\* it was asked for.
JobConsistent ==
    /\ job.stage # "none" => busy
    /\ job.stage \in {"sent", "done"}
          => job.item \in IF job.asked = "new" THEN {NoItem, job.left}
                                               ELSE {job.asked}

DialogsIInv == DialogsTypeOK /\ FormConsistent /\ JobConsistent

\* The only dialog that edits empties a form that was submitted, and does not
\* empty a form that opens.
LEMMA DialogKindsFacts ==
    ASSUME NEW d \in DialogKinds
    PROVE  d.edits => d.clears /\ ~d.blanks
<1>1. CameraFormV1.edits = FALSE /\ ImportDialogV1.edits = FALSE
  BY DEF CameraFormV1, ImportDialogV1
<1>2. CameraFormV2.edits = FALSE /\ RegisterFormV2.edits = FALSE
  BY DEF CameraFormV1, CameraFormV2, RegisterFormV2
<1>3. PipelineFormV2.edits = FALSE
  BY DEF CameraFormV1, PipelineFormV2
<1>4. RuleFormV2.clears = TRUE /\ RuleFormV2.blanks = FALSE
  BY DEF CameraFormV1, RegisterFormV2, RuleFormV2
<1> QED
  BY <1>1, <1>2, <1>3, <1>4 DEF DialogKinds

LEMMA DialogsInitIInv == DialogsInit => DialogsIInv
<1> SUFFICES ASSUME DialogsInit PROVE DialogsIInv
  OBVIOUS
<1>1. DialogsTypeOK
  BY DEF DialogsInit, DialogsTypeOK, Form, Blank, Job, NoJob
<1>2. FormConsistent /\ JobConsistent
  BY DEF DialogsInit, FormConsistent, JobConsistent, Blank, NoJob
<1> QED
  BY <1>1, <1>2 DEF DialogsIInv

LEMMA DialogsTypeStep ==
    ASSUME DialogsTypeOK, [DialogsNext]_dialogVars
    PROVE  DialogsTypeOK'
<1>1. CASE UNCHANGED dialogVars
  BY <1>1 DEF dialogVars, DialogsTypeOK
<1>2. CASE OpenNew
  BY <1>2 DEF OpenNew, DialogsTypeOK, Form, Blank
<1>3. CASE \E x \in Items, text \in Texts \cup {Empty} : OpenEdit(x, text)
  BY <1>3 DEF OpenEdit, DialogsTypeOK, Form
<1>4. CASE \E x \in Items : Save(x)
  <2>1. PICK x \in Items : Save(x)
    BY <1>4
  <2>2. job \in Job /\ job' = [job EXCEPT !.stage = "done"]
    BY <2>1 DEF Save, DialogsTypeOK, NoJob
  <2>3. job' \in Job
    BY <2>2 DEF Job
  <2>4. stored' \in [Items -> Texts \cup {Empty, NoItem}]
    BY <2>1, <2>2 DEF Save, DialogsTypeOK, Job
  <2> QED
    BY <2>1, <2>3, <2>4 DEF Save, DialogsTypeOK
<1>5. CASE \E text \in Texts \cup {Empty} : Type(text)
  BY <1>5 DEF Type, DialogsTypeOK, Form
<1>6. CASE Cancel
  BY <1>6 DEF Cancel, DialogsTypeOK, Form
<1>7. CASE Submit
  <2>1. PICK item \in Items \cup {NoItem} : item = IF editing THEN form.item ELSE NoItem
    BY DEF DialogsTypeOK, Form
  <2>2. job' = [stage |-> "sent", text |-> form.text, asked |-> asked, left |-> left,
                item |-> item]
    BY <1>7, <2>1, Zenon DEF Submit
  <2>3. form.text \in Texts \cup {Empty}
    BY DEF DialogsTypeOK, Form
  <2>4. job' \in Job
    BY <2>2, <2>3 DEF DialogsTypeOK, Job
  <2> QED
    BY <1>7, <2>4 DEF Submit, DialogsTypeOK
<1>8. CASE Succeed
  <2>1. form' \in Form /\ editing' \in BOOLEAN /\ left' \in Items \cup {NoItem}
    <3>1. CASE dialog.clears
      <4>1. form' = Blank /\ editing' = FALSE /\ left' = NoItem
        BY <1>8, <3>1 DEF Succeed
      <4>2. Blank \in Form
        BY DEF Blank, Form
      <4> QED
        BY <4>1, <4>2
    <3>2. CASE ~dialog.clears
      BY <1>8, <3>2 DEF Succeed, DialogsTypeOK
    <3> QED
      BY <3>1, <3>2
  <2>2. job \in Job
    BY <1>8 DEF Succeed, DialogsTypeOK, NoJob
  <2>3. job' \in Job \cup {NoJob} /\ busy' \in BOOLEAN
    BY <1>8, <2>2 DEF Succeed, DialogsTypeOK, Job
  <2> QED
    BY <1>8, <2>1, <2>3 DEF Succeed, DialogsTypeOK
<1>9. CASE FailSubmit
  BY <1>9 DEF FailSubmit, DialogsTypeOK
<1>10. CASE EndReload
  BY <1>10 DEF EndReload, DialogsTypeOK
<1>11. CASE Keep
  <2>1. job \in Job /\ job' = [job EXCEPT !.stage = "done"]
    BY <1>11 DEF Keep, DialogsTypeOK, NoJob
  <2>2. job' \in Job
    BY <2>1 DEF Job
  <2> QED
    BY <1>11, <2>2 DEF Keep, DialogsTypeOK
<1> QED
  BY <1>1, <1>2, <1>3, <1>4, <1>5, <1>6, <1>7, <1>8, <1>9, <1>10, <1>11 DEF DialogsNext

LEMMA DialogsStepIInv ==
    ASSUME DialogsIInv, [DialogsNext]_dialogVars
    PROVE  DialogsIInv'
<1>1. DialogsTypeOK /\ FormConsistent /\ JobConsistent /\ DialogsTypeOK'
  BY DialogsTypeStep DEF DialogsIInv
<1>2. dialog.edits => dialog.clears /\ ~dialog.blanks
  BY <1>1, DialogKindsFacts DEF DialogsTypeOK
<1>3. FormConsistent' /\ JobConsistent'
  <2>1. CASE UNCHANGED dialogVars
    BY <1>1, <2>1 DEF dialogVars, FormConsistent, JobConsistent
  <2>2. CASE OpenNew
    BY <1>1, <1>2, <2>2 DEF OpenNew, FormConsistent, JobConsistent, Blank
  <2>3. CASE \E x \in Items, text \in Texts \cup {Empty} : OpenEdit(x, text)
    BY <1>1, <2>3, DialogsAssumption DEF OpenEdit, FormConsistent, JobConsistent
  <2>4. CASE \E x \in Items : Save(x)
    <3>1. PICK x \in Items : Save(x)
      BY <2>4
    <3>2. job \in Job /\ job' = [job EXCEPT !.stage = "done"]
      BY <1>1, <3>1 DEF Save, DialogsTypeOK, NoJob
    <3>3. /\ job'.item = job.item /\ job'.asked = job.asked
          /\ job'.left = job.left /\ job.stage = "sent"
      BY <3>1, <3>2 DEF Job, Save
    <3> QED
      BY <1>1, <3>1, <3>3 DEF Save, FormConsistent, JobConsistent
  <2>5. CASE \E text \in Texts \cup {Empty} : Type(text)
    BY <1>1, <2>5 DEF Type, FormConsistent, JobConsistent, DialogsTypeOK, Form
  <2>6. CASE Cancel
    BY <1>1, <2>6 DEF Cancel, FormConsistent, JobConsistent
  <2>7. CASE Submit
    BY <1>1, <2>7 DEF Submit, FormConsistent, JobConsistent
  <2>8. CASE Succeed
    <3>1. FormConsistent'
      BY <1>1, <1>2, <2>8 DEF Succeed, FormConsistent, Blank
    <3>2. job' = NoJob \/ (job' = [job EXCEPT !.stage = "reload"] /\ busy' = busy)
      BY <2>8 DEF Succeed
    <3>3. job \in Job /\ busy
      BY <1>1, <2>8 DEF Succeed, DialogsTypeOK, NoJob, JobConsistent
    <3>4. CASE job' = NoJob
      <4>1. job'.stage = "none"
        BY <3>4 DEF NoJob
      <4> QED
        BY <4>1, <3>1 DEF JobConsistent
    <3>5. CASE job' = [job EXCEPT !.stage = "reload"] /\ busy' = busy
      <4>1. job'.stage = "reload"
        BY <3>3, <3>5 DEF Job
      <4> QED
        BY <4>1, <3>1, <3>3, <3>5 DEF JobConsistent
    <3> QED
      BY <3>1, <3>2, <3>4, <3>5
  <2>9. CASE FailSubmit
    BY <1>1, <2>9 DEF FailSubmit, FormConsistent, JobConsistent, NoJob
  <2>10. CASE EndReload
    BY <1>1, <2>10 DEF EndReload, FormConsistent, JobConsistent, NoJob
  <2>11. CASE Keep
    <3>1. job \in Job /\ job' = [job EXCEPT !.stage = "done"]
      BY <1>1, <2>11 DEF Keep, DialogsTypeOK, NoJob
    <3>2. /\ job'.item = job.item /\ job'.asked = job.asked
          /\ job'.left = job.left /\ job.stage = "sent"
      BY <2>11, <3>1 DEF Job, Keep
    <3> QED
      BY <1>1, <2>11, <3>2 DEF Keep, FormConsistent, JobConsistent
  <2> QED
    BY <2>1, <2>2, <2>3, <2>4, <2>5, <2>6, <2>7, <2>8, <2>9, <2>10, <2>11 DEF DialogsNext
<1> QED
  BY <1>1, <1>3 DEF DialogsIInv

\* What the variables of the dialogs hold.
THEOREM DialogsTypeCorrect == DialogsSpec => []DialogsTypeOK
<1>1. DialogsIInv /\ [DialogsNext]_dialogVars => DialogsIInv'
  BY DialogsStepIInv
<1>2. DialogsIInv => DialogsTypeOK
  BY DEF DialogsIInv
<1> QED
  BY <1>1, <1>2, DialogsInitIInv, PTL DEF DialogsSpec

\* An open dialog, and what it submits, is for the item that was asked for; one
\* that was opened for something new is for none, or for the item whose edit
\* was cancelled last.
THEOREM DialogsOpenWhatWasAsked == DialogsSpec => []OpensWhatWasAsked
<1>1. DialogsIInv /\ [DialogsNext]_dialogVars => DialogsIInv'
  BY DialogsStepIInv
<1>2. DialogsIInv => OpensWhatWasAsked
  BY DEF DialogsIInv, FormConsistent, JobConsistent, OpensWhatWasAsked
<1> QED
  BY <1>1, <1>2, DialogsInitIInv, PTL DEF DialogsSpec

-----------------------------------------------------------------------------
(* The agent's configuration.                                              *)

\* Unless it lapsed, a visit has its load in flight, under the spinner, or has
\* its form filled.
CalmVisit ==
    ~lapsed =>
        /\ (\E k \in Loads : loads[k] = "this") => fetching
        /\ visited /\ (\A k \in Loads : loads[k] # "this") => filled

\* A visit has one load.
OneLoad ==
    \A j, k \in Loads : loads[j] = "this" /\ loads[k] = "this" => j = k

\* In the first visit the store's configuration is also the form's.
FirstVisit ==
    ~revisited =>
        /\ \A k \in Loads : loads[k] # "earlier"
        /\ config => filled /\ visited
        /\ ~visited => \A k \in Loads : loads[k] = "none"

\* Until a second visit only filled forms are sent.
SentFilled ==
    /\ WipedOnlyByRevisit
    /\ post.stage # "none" => config
    /\ revisited => visited

AgentIInv == AgentFormTypeOK /\ CalmVisit /\ OneLoad /\ FirstVisit /\ SentFilled

LEMMA AgentInitIInv == AgentFormInit => AgentIInv
<1> SUFFICES ASSUME AgentFormInit PROVE AgentIInv
  OBVIOUS
<1>1. AgentFormTypeOK
  BY DEF AgentFormInit, AgentFormTypeOK, NoSave
<1>2. \A k \in Loads : loads[k] = "none"
  BY DEF AgentFormInit
<1>3. CalmVisit /\ OneLoad /\ FirstVisit
  BY <1>2 DEF AgentFormInit, CalmVisit, OneLoad, FirstVisit
<1>4. SentFilled
  BY DEF AgentFormInit, SentFilled, WipedOnlyByRevisit, NoSave
<1> QED
  BY <1>1, <1>3, <1>4 DEF AgentIInv

LEMMA AgentStepIInv ==
    ASSUME AgentIInv, [AgentFormNext]_agentVars
    PROVE  AgentIInv'
<1> USE DEF AgentIInv
<1>1. CASE UNCHANGED agentVars
  BY <1>1 DEF agentVars, AgentFormTypeOK, CalmVisit, OneLoad, FirstVisit, SentFilled,
              WipedOnlyByRevisit
<1>2. CASE \E k \in Loads : EnterAgent(k)
  <2>1. PICK k \in Loads : EnterAgent(k)
    BY <1>2
  <2>2. AgentFormTypeOK'
    BY <2>1 DEF EnterAgent, AgentFormTypeOK
  <2>3. CalmVisit'
    BY <2>1 DEF EnterAgent, CalmVisit, AgentFormTypeOK, OneLoad, FirstVisit
  <2>4. OneLoad'
    BY <2>1 DEF EnterAgent, OneLoad, AgentFormTypeOK
  <2>5. FirstVisit'
    BY <2>1 DEF EnterAgent, FirstVisit, AgentFormTypeOK, SentFilled
  <2>6. SentFilled'
    BY <2>1 DEF EnterAgent, SentFilled, AgentFormTypeOK, WipedOnlyByRevisit, CalmVisit, FirstVisit
  <2> QED
    BY <2>2, <2>3, <2>4, <2>5, <2>6
<1>3. CASE \E k \in Loads : LoadArrives(k)
  <2>1. PICK k \in Loads : LoadArrives(k)
    BY <1>3
  <2>2. AgentFormTypeOK'
    BY <2>1 DEF LoadArrives, AgentFormTypeOK
  <2>3. CalmVisit'
    BY <2>1 DEF LoadArrives, CalmVisit, AgentFormTypeOK, OneLoad, FirstVisit
  <2>4. OneLoad'
    BY <2>1 DEF LoadArrives, OneLoad, AgentFormTypeOK
  <2>5. FirstVisit'
    BY <2>1 DEF LoadArrives, FirstVisit, AgentFormTypeOK, SentFilled
  <2>6. SentFilled'
    BY <2>1 DEF LoadArrives, SentFilled, AgentFormTypeOK, WipedOnlyByRevisit, CalmVisit, FirstVisit
  <2> QED
    BY <2>2, <2>3, <2>4, <2>5, <2>6
<1>4. CASE \E k \in Loads : LoadFails(k)
  <2>1. PICK k \in Loads : LoadFails(k)
    BY <1>4
  <2>2. AgentFormTypeOK'
    BY <2>1 DEF LoadFails, AgentFormTypeOK
  <2>3. CalmVisit'
    BY <2>1 DEF LoadFails, CalmVisit, AgentFormTypeOK, OneLoad, FirstVisit
  <2>4. OneLoad'
    BY <2>1 DEF LoadFails, OneLoad, AgentFormTypeOK
  <2>5. FirstVisit'
    BY <2>1 DEF LoadFails, FirstVisit, AgentFormTypeOK, SentFilled
  <2>6. SentFilled'
    BY <2>1 DEF LoadFails, SentFilled, AgentFormTypeOK, WipedOnlyByRevisit, CalmVisit, FirstVisit
  <2> QED
    BY <2>2, <2>3, <2>4, <2>5, <2>6
<1>5. CASE SaveForm
  <2>1. AgentFormTypeOK'
    BY <1>5 DEF SaveForm, AgentFormTypeOK
  <2>2. CalmVisit'
    BY <1>5 DEF SaveForm, CalmVisit, AgentFormTypeOK, OneLoad, FirstVisit
  <2>3. OneLoad'
    BY <1>5 DEF SaveForm, OneLoad, AgentFormTypeOK
  <2>4. FirstVisit'
    BY <1>5 DEF SaveForm, FirstVisit, AgentFormTypeOK, SentFilled
  <2>5. SentFilled'
    <3>1. ~filled => revisited /\ lapsed
      BY <1>5 DEF SaveForm, CalmVisit, FirstVisit
    <3>2. /\ post' = [stage |-> "sent", filled |-> filled, lapsed |-> lapsed]
          /\ UNCHANGED <<taken, config, visited, revisited>>
      BY <1>5 DEF SaveForm
    <3>3. config
      BY <1>5 DEF SaveForm
    <3>4. post'.filled = filled /\ post'.lapsed = lapsed
      BY <3>2
    <3>5. WipedOnlyByRevisit'
      BY <3>1, <3>2, <3>4 DEF SentFilled, WipedOnlyByRevisit
    <3> QED
      BY <3>2, <3>3, <3>5 DEF SentFilled
  <2> QED
    BY <2>1, <2>2, <2>3, <2>4, <2>5
<1>6. CASE ServeSave
  <2>1. AgentFormTypeOK'
    BY <1>6 DEF ServeSave, AgentFormTypeOK
  <2>2. CalmVisit'
    BY <1>6 DEF ServeSave, CalmVisit, AgentFormTypeOK, OneLoad, FirstVisit
  <2>3. OneLoad'
    BY <1>6 DEF ServeSave, OneLoad, AgentFormTypeOK
  <2>4. FirstVisit'
    BY <1>6 DEF ServeSave, FirstVisit, AgentFormTypeOK, SentFilled
  <2>5. SentFilled'
    BY <1>6 DEF ServeSave, SentFilled, AgentFormTypeOK, WipedOnlyByRevisit, CalmVisit, FirstVisit
  <2> QED
    BY <2>1, <2>2, <2>3, <2>4, <2>5
<1>7. CASE SaveArrives
  <2>1. AgentFormTypeOK'
    BY <1>7 DEF SaveArrives, AgentFormTypeOK, NoSave
  <2>2. CalmVisit'
    BY <1>7 DEF SaveArrives, CalmVisit, AgentFormTypeOK, OneLoad, FirstVisit, NoSave
  <2>3. OneLoad'
    BY <1>7 DEF SaveArrives, OneLoad, AgentFormTypeOK, NoSave
  <2>4. FirstVisit'
    BY <1>7 DEF SaveArrives, FirstVisit, AgentFormTypeOK, SentFilled, NoSave
  <2>5. SentFilled'
    BY <1>7 DEF SaveArrives, SentFilled, AgentFormTypeOK, WipedOnlyByRevisit, CalmVisit, FirstVisit, NoSave
  <2> QED
    BY <2>1, <2>2, <2>3, <2>4, <2>5
<1>8. CASE SaveFails
  <2>1. AgentFormTypeOK'
    BY <1>8 DEF SaveFails, AgentFormTypeOK, NoSave
  <2>2. CalmVisit'
    BY <1>8 DEF SaveFails, CalmVisit, AgentFormTypeOK, OneLoad, FirstVisit, NoSave
  <2>3. OneLoad'
    BY <1>8 DEF SaveFails, OneLoad, AgentFormTypeOK, NoSave
  <2>4. FirstVisit'
    BY <1>8 DEF SaveFails, FirstVisit, AgentFormTypeOK, SentFilled, NoSave
  <2>5. SentFilled'
    BY <1>8 DEF SaveFails, SentFilled, AgentFormTypeOK, WipedOnlyByRevisit, CalmVisit, FirstVisit, NoSave
  <2> QED
    BY <2>1, <2>2, <2>3, <2>4, <2>5
<1> QED
  BY <1>1, <1>2, <1>3, <1>4, <1>5, <1>6, <1>7, <1>8 DEF AgentFormNext

\* What the variables of the agent's page hold.
THEOREM AgentFormTypeCorrect == AgentFormSpec => []AgentFormTypeOK
<1>1. AgentIInv /\ [AgentFormNext]_agentVars => AgentIInv'
  BY AgentStepIInv
<1>2. AgentIInv => AgentFormTypeOK
  BY DEF AgentIInv
<1> QED
  BY <1>1, <1>2, AgentInitIInv, PTL DEF AgentFormSpec

\* A form that was never filled overwrites the server's configuration only if
\* its visit was not the first, and its load failed or was overtaken.
THEOREM AgentWipedOnlyByRevisit == AgentFormSpec => []WipedOnlyByRevisit
<1>1. AgentIInv /\ [AgentFormNext]_agentVars => AgentIInv'
  BY AgentStepIInv
<1>2. AgentIInv => WipedOnlyByRevisit
  BY DEF AgentIInv, SentFilled
<1> QED
  BY <1>1, <1>2, AgentInitIInv, PTL DEF AgentFormSpec

-----------------------------------------------------------------------------
(* The pipelines and their editor.                                         *)

\* The graph in the editor.  Its identifiers come from the counter, or were
\* loaded, or typed.
GraphTyped ==
    /\ open \in BOOLEAN
    /\ title \in Names \cup {NoName}
    /\ nodes \in SUBSET Node
    /\ drawn \in SUBSET [key: 1..(2 * MaxId), id: Ids]
    /\ edges \in SUBSET (Ids \X Ids)
    /\ cut \in SUBSET Ids /\ renamed \in SUBSET (Ids \X Ids)
    /\ above \in SUBSET Ids

Numbered == \A n \in nodes : n.id <= counter \/ n.id \in above \cup Typed

GraphOK ==
    /\ GraphTyped
    /\ OnlyRemovalDangles
    /\ Numbered
    /\ DuplicatesAreLoadedOrTyped
    /\ DrawnEdgesAreDependencies

\* A graph that is on its way to the editor was registered.
Sound(graph) == graph \in SUBSET Node /\ Closed(graph) /\ Unique(graph)

\* What a call carries: to the editor, a sound graph; to the server, one whose
\* dangling dependencies its editor had lost.
Carries(message) ==
    /\ message.op = "open" /\ message.stage = "ok" => Sound(message.graph)
    /\ message.op = "update" /\ message.stage = "sent"
          => Dangling(message.graph) \subseteq message.lost

PostsOK ==
    /\ posts \in [Slots -> Post \cup {Idle}]
    /\ \A k \in Slots : Carries(posts[k])

RegistryOK ==
    /\ DOMAIN registry \subseteq Names
    /\ \A name \in DOMAIN registry : Sound(registry[name])

RestOK == counter \in 0..MaxId /\ edits \in 0..MaxEdits /\ storing \in BOOLEAN

EditorIInv == GraphOK /\ PostsOK /\ RegistryOK /\ RestOK

LEMMA EditorIInvGives ==
    ASSUME EditorIInv
    PROVE  /\ EditorTypeOK
           /\ RegisteredClosed
           /\ OnlyRemovalDangles
           /\ DuplicatesAreLoadedOrTyped
           /\ DrawnEdgesAreDependencies
<1>1. EditorTypeOK
  BY DEF EditorIInv, GraphOK, GraphTyped, PostsOK, RegistryOK, RestOK, Sound,
         EditorTypeOK
<1>2. RegisteredClosed
  BY DEF EditorIInv, RegistryOK, RegisteredClosed, Sound
<1> QED
  BY <1>1, <1>2 DEF EditorIInv, GraphOK

-----------------------------------------------------------------------------
(* Graphs.                                                                 *)

LEMMA EmptyIsSound ==
    Sound({}) /\ Edges({}) = {} /\ IdsOf({}) = {} /\ Dangling({}) = {}
<1>1. Sound({})
  BY DEF Sound, Closed, Unique
<1>2. Edges({}) = {} /\ IdsOf({}) = {}
  BY DEF Edges, IdsOf
<1>3. Dangling({}) = {}
  BY DEF Dangling
<1> QED
  BY <1>1, <1>2, <1>3

\* A dependency dangles when a node has it and no node is it.
LEMMA Dangles ==
    ASSUME NEW graph, NEW d
    PROVE  d \in Dangling(graph) <=>
               /\ \E n \in graph : d \in n.deps
               /\ \A n \in graph : n.id # d
<1>1. d \in UNION {n.deps : n \in graph} <=> \E n \in graph : d \in n.deps
  OBVIOUS
<1> QED
  BY <1>1 DEF Dangling, IdsOf

\* A graph is closed when no dependency dangles.
LEMMA ClosedDoesNotDangle ==
    ASSUME NEW graph
    PROVE  Closed(graph) <=> Dangling(graph) = {}
<1>1. \A d : d \in Dangling(graph) <=>
               /\ \E n \in graph : d \in n.deps
               /\ \A n \in graph : n.id # d
  BY Dangles
<1> QED
  BY <1>1 DEF Closed, IdsOf

\* What is registered of a graph has its identifiers and dependencies.
LEMMA StoredIsSound ==
    ASSUME NEW kept \in SUBSET Node, Closed(kept), Unique(kept)
    PROVE  Sound(Stored(kept))
<1>1. \A n \in Node : /\ [n EXCEPT !.key = n.id] \in Node
                      /\ [n EXCEPT !.key = n.id].id = n.id
                      /\ [n EXCEPT !.key = n.id].deps = n.deps
  BY EditorAssumption DEF Node, Ids
<1>2. \A s \in Stored(kept) :
         \E n \in kept : s = [n EXCEPT !.key = n.id] /\ s.id = n.id /\ s.deps = n.deps
  BY <1>1 DEF Stored
<1>3. Stored(kept) \in SUBSET Node
  BY <1>1 DEF Stored
<1>4. IdsOf(Stored(kept)) = IdsOf(kept)
  <2>1. IdsOf(Stored(kept)) \subseteq IdsOf(kept)
    BY <1>2 DEF IdsOf
  <2>2. ASSUME NEW n \in kept PROVE n.id \in IdsOf(Stored(kept))
    BY <1>1 DEF IdsOf, Stored
  <2> QED
    BY <2>1, <2>2 DEF IdsOf
<1>5. Closed(Stored(kept))
  BY <1>2, <1>4 DEF Closed
<1>6. Unique(Stored(kept))
  BY <1>2 DEF Unique
<1> QED
  BY <1>3, <1>5, <1>6 DEF Sound

\* Keeping one node of each identifier leaves no more dependencies alone.
LEMMA KeptDanglesNoMore ==
    ASSUME NEW graph, NEW kept, Kept(graph, kept)
    PROVE  Dangling(kept) \subseteq Dangling(graph)
BY DEF Kept, Dangling

-----------------------------------------------------------------------------
(* The editor.                                                             *)

LEMMA ShutKeeps ==
    ASSUME Shut
    PROVE  GraphOK'
<1>1. GraphTyped'
  BY DEF Shut, GraphTyped
<1>2. OnlyRemovalDangles'
  BY EmptyIsSound DEF Shut, OnlyRemovalDangles
<1>3. Numbered' /\ DuplicatesAreLoadedOrTyped' /\ DrawnEdgesAreDependencies'
  BY DEF Shut, Numbered, DuplicatesAreLoadedOrTyped, DrawnEdgesAreDependencies
<1> QED
  BY <1>1, <1>2, <1>3 DEF GraphOK

LEMMA ReplaceKeeps ==
    ASSUME NEW name \in Names \cup {NoName}, NEW graph, Sound(graph),
           Replace(name, graph), counter' = counter, counter \in Nat
    PROVE  GraphOK'
<1>1. graph \in SUBSET Node /\ Closed(graph) /\ Unique(graph)
  BY DEF Sound
<1>2. IdsOf(graph) \subseteq Ids /\ Ids \subseteq Nat
  BY <1>1 DEF IdsOf, Node, Ids
<1>3. Edges(graph) \in SUBSET (Ids \X Ids)
  BY <1>1 DEF Edges, Node
<1>4. GraphTyped'
  <2>1. open' = TRUE /\ title' = name /\ nodes' = graph /\ edges' = Edges(graph)
    BY DEF Replace
  <2>2. cut' = {} /\ renamed' = {}
    BY DEF Replace
  <2>3. drawn' = {[key |-> n.key, id |-> n.id] : n \in graph}
    BY DEF Replace
  <2>4. \A n \in graph : [key |-> n.key, id |-> n.id] \in [key: 1..(2 * MaxId), id: Ids]
    BY <1>1 DEF Node
  <2>5. drawn' \in SUBSET [key: 1..(2 * MaxId), id: Ids]
    BY <2>3, <2>4
  <2>6. above' \in SUBSET Ids
    BY <1>2 DEF Replace
  <2> QED
    BY <1>1, <1>3, <2>1, <2>2, <2>5, <2>6 DEF GraphTyped
<1>5. OnlyRemovalDangles' /\ DrawnEdgesAreDependencies'
  BY <1>1, ClosedDoesNotDangle DEF Replace, OnlyRemovalDangles, DrawnEdgesAreDependencies
<1>6. Numbered'
  <2>1. nodes' = graph /\ above' = {x \in IdsOf(graph) : x > counter}
    BY DEF Replace
  <2>2. ASSUME NEW n \in graph PROVE n.id <= counter \/ n.id \in above'
    <3>1. n.id \in IdsOf(graph) /\ n.id \in Nat
      BY <1>2 DEF IdsOf
    <3> QED
      BY <2>1, <3>1
  <2> QED
    BY <2>1, <2>2 DEF Numbered
<1>7. DuplicatesAreLoadedOrTyped'
  BY <1>1 DEF Replace, DuplicatesAreLoadedOrTyped, Unique
<1> QED
  BY <1>4, <1>5, <1>6, <1>7 DEF GraphOK

\* The graph is as it was, and so is the counter.
LEMMA UnchangedGraph ==
    ASSUME GraphOK, UNCHANGED graphVars, counter' = counter
    PROVE  GraphOK'
BY DEF graphVars, GraphOK, GraphTyped, OnlyRemovalDangles, Numbered,
       DuplicatesAreLoadedOrTyped, DrawnEdgesAreDependencies, Lost, Typed, Dangling,
       Edges, IdsOf

LEMMA DropKeeps ==
    ASSUME GraphOK, counter \in 0..MaxId, Drop
    PROVE  GraphOK'
<1> DEFINE c == counter + 1
<1>1. c \in Ids /\ MaxId + c \in 1..(2 * MaxId) /\ counter' = c
  BY EditorAssumption DEF Drop, Ids
<1>2. PICK new \in Node :
         /\ new = [key |-> MaxId + c, id |-> c, deps |-> {}]
         /\ new.id = c /\ new.deps = {}
  <2>1. [key |-> MaxId + c, id |-> c, deps |-> {}] \in Node
    BY <1>1 DEF Node
  <2> QED
    BY <2>1
<1>3. nodes' = nodes \cup {new}
  BY <1>1, <1>2 DEF Drop
<1>4. drawn' = drawn \cup {[key |-> MaxId + c, id |-> c]}
  BY <1>1 DEF Drop
<1>5. UNCHANGED <<title, edges, cut, renamed, above, open>>
  BY DEF Drop
<1>6. GraphTyped'
  BY <1>1, <1>3, <1>4, <1>5 DEF GraphOK, GraphTyped
<1>7. OnlyRemovalDangles'
  <2>1. Dangling(nodes') \subseteq Dangling(nodes)
    BY <1>2, <1>3 DEF Dangling, IdsOf
  <2>2. Lost' = Lost
    BY <1>5 DEF Lost
  <2> QED
    BY <2>1, <2>2 DEF GraphOK, OnlyRemovalDangles
<1>12. Typed' = Typed
  BY <1>5 DEF Typed
<1>8. counter \in Nat /\ Ids \subseteq Nat
  BY EditorAssumption DEF Ids
<1>9. Numbered'
  <2>1. \A n \in nodes : n.id \in Nat
    BY <1>8 DEF GraphOK, GraphTyped, Node
  <2> QED
    BY <1>1, <1>2, <1>3, <1>5, <1>8, <1>12, <2>1 DEF GraphOK, Numbered
<1>10. DuplicatesAreLoadedOrTyped'
  <2>1. ASSUME NEW n \in nodes, n.id = c
        PROVE  n.id \in above \cup Typed
    BY <1>8, <2>1 DEF GraphOK, Numbered
  <2>2. ASSUME NEW m \in nodes \cup {new}, NEW n \in nodes \cup {new}, m.id = n.id
        PROVE  m = n \/ m.id \in above \cup Typed
    <3>1. CASE m \in nodes /\ n \in nodes
      BY <2>2, <3>1 DEF GraphOK, DuplicatesAreLoadedOrTyped
    <3>2. CASE m = new \/ n = new
      BY <1>2, <2>1, <2>2, <3>2
    <3> QED
      BY <3>1, <3>2
  <2> QED
    BY <1>3, <1>5, <1>12, <2>2 DEF DuplicatesAreLoadedOrTyped
<1>11. DrawnEdgesAreDependencies'
  <2>1. Edges(nodes) \subseteq Edges(nodes')
    BY <1>3 DEF Edges
  <2> QED
    BY <1>5, <2>1 DEF GraphOK, DrawnEdgesAreDependencies
<1> QED
  BY <1>6, <1>7, <1>9, <1>10, <1>11 DEF GraphOK

LEMMA ConnectKeeps ==
    ASSUME GraphOK, NEW s \in Ids, NEW t \in Ids, Connect(s, t)
    PROVE  GraphOK'
<1>1. PICK n \in nodes :
         n.id = t /\ nodes' = (nodes \ {n}) \cup {[n EXCEPT !.deps = @ \cup {s}]}
  BY DEF Connect
<1>2. n \in Node
  BY DEF GraphOK, GraphTyped
<1>3. PICK new \in Node :
         /\ new = [n EXCEPT !.deps = @ \cup {s}]
         /\ new.id = n.id /\ new.deps = n.deps \cup {s}
  <2>1. n.deps \cup {s} \in SUBSET Ids
    BY <1>2 DEF Node
  <2>2. [n EXCEPT !.deps = @ \cup {s}] \in Node
    BY <1>2, <2>1 DEF Node
  <2>3. /\ [n EXCEPT !.deps = @ \cup {s}].id = n.id
        /\ [n EXCEPT !.deps = @ \cup {s}].deps = n.deps \cup {s}
    BY <1>2 DEF Node
  <2> QED
    BY <2>2, <2>3
<1>4. nodes' = (nodes \ {n}) \cup {new}
  BY <1>1, <1>3
<1>5. UNCHANGED <<open, title, drawn, edges, counter, cut, renamed, above>>
  BY DEF Connect, Edit
<1>6. GraphTyped'
  BY <1>4, <1>5 DEF GraphOK, GraphTyped
<1>7. s \in IdsOf(nodes)
  BY DEF Connect
<1>8. IdsOf(nodes') = IdsOf(nodes)
  BY <1>1, <1>3, <1>4 DEF IdsOf
<1>13. Lost' = Lost /\ Typed' = Typed
  BY <1>5 DEF Lost, Typed
<1>9. OnlyRemovalDangles'
  <2>1. Dangling(nodes') \subseteq Dangling(nodes)
    <3>1. ASSUME NEW d \in Dangling(nodes')
          PROVE  d \in Dangling(nodes)
      <4>1. PICK m \in nodes' : d \in m.deps
        BY Dangles
      <4>2. d \notin IdsOf(nodes)
        BY <1>8 DEF Dangling
      <4>3. \E o \in nodes : d \in o.deps
        BY <1>1, <1>3, <1>4, <1>7, <4>1, <4>2
      <4> QED
        BY <4>2, <4>3, Dangles DEF IdsOf
    <3> QED
      BY <3>1
  <2> QED
    BY <1>13, <2>1 DEF GraphOK, OnlyRemovalDangles
<1>10. Numbered'
  BY <1>1, <1>3, <1>4, <1>5, <1>13 DEF GraphOK, Numbered
<1>11. DuplicatesAreLoadedOrTyped'
  BY <1>1, <1>3, <1>4, <1>5, <1>13 DEF GraphOK, DuplicatesAreLoadedOrTyped
<1>12. DrawnEdgesAreDependencies'
  <2>1. ASSUME NEW m \in nodes
        PROVE  \E o \in nodes' : o.id = m.id /\ m.deps \subseteq o.deps
    BY <1>1, <1>3, <1>4
  <2>2. Edges(nodes) \subseteq Edges(nodes')
    BY <2>1 DEF Edges
  <2> QED
    BY <1>5, <2>2 DEF GraphOK, DrawnEdgesAreDependencies
<1> QED
  BY <1>6, <1>9, <1>10, <1>11, <1>12 DEF GraphOK

LEMMA RemoveNodeKeeps ==
    ASSUME GraphOK, NEW x \in Ids, RemoveNode(x)
    PROVE  GraphOK'
<1>1. /\ nodes' = {n \in nodes : n.id # x}
      /\ edges' = {e \in edges : x \notin {e[1], e[2]}}
      /\ drawn' \subseteq drawn
      /\ cut' = cut \cup {x}
      /\ UNCHANGED <<open, title, counter, renamed, above>>
  BY DEF RemoveNode, Edit
<1>2. Typed' = Typed /\ Lost' = Lost \cup {x}
  BY <1>1 DEF Typed, Lost
<1>3. GraphTyped' /\ Numbered' /\ DuplicatesAreLoadedOrTyped'
  BY <1>1, <1>2 DEF GraphOK, GraphTyped, Numbered, DuplicatesAreLoadedOrTyped
<1>4. OnlyRemovalDangles'
  <2>1. Dangling(nodes') \subseteq Dangling(nodes) \cup {x}
    <3>1. ASSUME NEW d \in Dangling(nodes'), d # x
          PROVE  d \in Dangling(nodes)
      BY <1>1, <3>1, Dangles
    <3> QED
      BY <3>1
  <2> QED
    BY <1>2, <2>1 DEF GraphOK, OnlyRemovalDangles
<1>5. DrawnEdgesAreDependencies'
  <2>1. ASSUME NEW e \in edges', e \in Edges(nodes)
        PROVE  e \in Edges(nodes')
    <3>1. PICK n \in nodes : e \in {<<d, n.id>> : d \in n.deps}
      BY <2>1 DEF Edges
    <3>2. PICK d \in n.deps : e = <<d, n.id>>
      BY <3>1
    <3>3. n \in nodes'
      BY <1>1, <3>2
    <3> QED
      BY <3>2, <3>3 DEF Edges
  <2>2. edges' \subseteq edges /\ renamed' = renamed
    BY <1>1
  <2> QED
    BY <2>1, <2>2 DEF GraphOK, DrawnEdgesAreDependencies
<1> QED
  BY <1>3, <1>4, <1>5 DEF GraphOK

LEMMA RenameKeeps ==
    ASSUME GraphOK, NEW x \in Ids, NEW y \in Ids, Rename(x, y)
    PROVE  GraphOK'
<1>1. PICK n \in nodes :
         n.id = x /\ nodes' = (nodes \ {n}) \cup {[n EXCEPT !.id = y]}
  BY DEF Rename
<1>2. PICK new \in Node :
         new = [n EXCEPT !.id = y] /\ new.id = y /\ new.deps = n.deps
  <2>1. n \in Node
    BY DEF GraphOK, GraphTyped
  <2>2. /\ [n EXCEPT !.id = y] \in Node
        /\ [n EXCEPT !.id = y].id = y /\ [n EXCEPT !.id = y].deps = n.deps
    BY <2>1 DEF Node
  <2> QED
    BY <2>2
<1>3. nodes' = (nodes \ {n}) \cup {new}
  BY <1>1, <1>2
<1>4. /\ UNCHANGED <<open, title, drawn, edges, counter, cut, above>>
      /\ renamed' = renamed \cup {<<x, y>>}
  BY DEF Rename, Edit
<1>5. Typed' = Typed \cup {y} /\ Lost' = Lost \cup {x}
  <2>1. <<x, y>>[1] = x /\ <<x, y>>[2] = y
    OBVIOUS
  <2>2. Typed' = Typed \cup {y}
    BY <1>4, <2>1 DEF Typed
  <2>3. Lost' = Lost \cup {x}
    BY <1>4, <2>1 DEF Lost
  <2> QED
    BY <2>2, <2>3
<1>6. GraphTyped'
  <2>1. renamed' \in SUBSET (Ids \X Ids)
    BY <1>4 DEF GraphOK, GraphTyped
  <2> QED
    BY <1>3, <1>4, <2>1 DEF GraphOK, GraphTyped
<1>7. OnlyRemovalDangles'
  <2>1. Dangling(nodes') \subseteq Dangling(nodes) \cup {x}
    <3>1. ASSUME NEW d \in Dangling(nodes'), d # x
          PROVE  d \in Dangling(nodes)
      <4>1. \E m \in nodes : d \in m.deps
        BY <1>1, <1>2, <1>3, Dangles
      <4>2. \A m \in nodes : m.id # d
        BY <1>1, <1>3, <3>1, Dangles
      <4> QED
        BY <4>1, <4>2, Dangles
    <3> QED
      BY <3>1
  <2> QED
    BY <1>5, <2>1 DEF GraphOK, OnlyRemovalDangles
<1>8. Numbered' /\ DuplicatesAreLoadedOrTyped'
  <2>1. ASSUME NEW m \in nodes', m # new
        PROVE  m \in nodes
    BY <1>3, <2>1
  <2>2. Numbered'
    BY <1>2, <1>4, <1>5, <2>1 DEF GraphOK, Numbered
  <2>3. DuplicatesAreLoadedOrTyped'
    BY <1>2, <1>4, <1>5, <2>1 DEF GraphOK, DuplicatesAreLoadedOrTyped
  <2> QED
    BY <2>2, <2>3
<1>9. DrawnEdgesAreDependencies'
  <2>1. ASSUME NEW e \in Edges(nodes), e[2] # x
        PROVE  e \in Edges(nodes')
    <3>1. PICK m \in nodes : e \in {<<d, m.id>> : d \in m.deps}
      BY DEF Edges
    <3>2. PICK d \in m.deps : e = <<d, m.id>>
      BY <3>1
    <3>3. m \in nodes'
      BY <1>1, <1>3, <2>1, <3>2
    <3> QED
      BY <3>2, <3>3 DEF Edges
  <2>2. <<x, y>> \in renamed' /\ <<x, y>>[1] = x /\ renamed \subseteq renamed'
    BY <1>4
  <2>3. ASSUME NEW e \in edges', e \notin Edges(nodes')
        PROVE  \E change \in renamed' : change[1] = e[2]
    <3>1. CASE e \in Edges(nodes)
      BY <2>1, <2>2, <2>3, <3>1
    <3>2. CASE e \notin Edges(nodes)
      BY <1>4, <2>2, <3>2 DEF GraphOK, DrawnEdgesAreDependencies
    <3> QED
      BY <3>1, <3>2
  <2> QED
    BY <2>3 DEF DrawnEdgesAreDependencies
<1> QED
  BY <1>6, <1>7, <1>8, <1>9 DEF GraphOK

LEMMA EraseKeeps ==
    ASSUME GraphOK, Erase
    PROVE  GraphOK'
<1>1. /\ edges' \subseteq edges /\ drawn' \subseteq drawn
      /\ UNCHANGED <<open, title, nodes, counter, cut, renamed, above>>
  BY DEF Erase, Edit
<1>2. Typed' = Typed /\ Lost' = Lost /\ Edges(nodes') = Edges(nodes)
      /\ Dangling(nodes') = Dangling(nodes)
  BY <1>1 DEF Typed, Lost
<1> QED
  BY <1>1, <1>2 DEF GraphOK, GraphTyped, OnlyRemovalDangles, Numbered,
                    DuplicatesAreLoadedOrTyped, DrawnEdgesAreDependencies

-----------------------------------------------------------------------------
(* Calls and the registry.                                                 *)

\* A call that changes keeps the others, and may not claim a graph that was
\* not registered.
LEMMA PutPost ==
    ASSUME PostsOK, NEW k \in Slots, NEW message \in Post \cup {Idle},
           posts' = [posts EXCEPT ![k] = message], Carries(message)
    PROVE  PostsOK'
<1>1. posts' \in [Slots -> Post \cup {Idle}]
  BY DEF PostsOK
<1>2. \A j \in Slots : posts'[j] = IF j = k THEN message ELSE posts[j]
  BY DEF PostsOK
<1>3. \A j \in Slots : Carries(posts'[j])
  BY <1>2 DEF PostsOK
<1> QED
  BY <1>1, <1>3 DEF PostsOK, Carries, Sound

LEMMA ReplyKeeps ==
    ASSUME PostsOK, NEW k \in Slots, posts[k].stage = "sent", posts[k].op # "none",
           NEW stage \in {"ok", "refused"}, NEW graph \in SUBSET Node,
           Reply(k, stage, graph),
           posts[k].op = "open" /\ stage = "ok" => Sound(graph)
    PROVE  PostsOK'
<1>1. posts[k] \in Post
  BY DEF PostsOK, Idle
<1>2. PICK message \in Post :
         /\ message = [posts[k] EXCEPT !.stage = stage, !.graph = graph, !.lost = {}]
         /\ message.op = posts[k].op /\ message.stage = stage /\ message.graph = graph
  <2> DEFINE reply == [posts[k] EXCEPT !.stage = stage, !.graph = graph, !.lost = {}]
  <2>1. reply \in Post
    BY <1>1 DEF Post
  <2>2. reply.op = posts[k].op /\ reply.stage = stage /\ reply.graph = graph
    BY <1>1 DEF Post
  <2> QED
    BY <2>1, <2>2
<1>3. posts' = [posts EXCEPT ![k] = message]
  BY <1>2 DEF Reply, PostsOK
<1>4. message \in Post \cup {Idle} /\ Carries(message)
  BY <1>2 DEF Carries
<1> QED
  BY <1>3, <1>4, PutPost

LEMMA ServeKeeps ==
    ASSUME EditorIInv, NEW k \in Slots, Serve(k)
    PROVE  EditorIInv'
<1>1. PostsOK /\ RegistryOK /\ posts[k].stage = "sent"
  BY DEF EditorIInv, Serve
<1>2. {} \in SUBSET Node /\ Sound({})
  BY EmptyIsSound
<1>3. GraphOK' /\ RestOK'
  <2>1. UNCHANGED graphVars /\ UNCHANGED <<counter, edits, storing>>
    BY DEF Serve
  <2> QED
    BY <2>1, UnchangedGraph DEF EditorIInv, RestOK
<1>4. posts[k].op # "none" => posts[k] \in Post
  BY <1>1 DEF PostsOK, Idle
<1>5. PostsOK' /\ RegistryOK'
  <2> DEFINE name == posts[k].name
  <2>1. CASE ServeFetch(k)
    <3>1. RegistryOK' /\ posts[k].op # "none"
      BY <1>1, <2>1 DEF ServeFetch, RegistryOK, Sound
    <3>2. PICK stage \in {"ok", "refused"}, graph \in SUBSET Node :
             Reply(k, stage, graph) /\ (posts[k].op = "open" /\ stage = "ok" => Sound(graph))
      <4>1. CASE name \in DOMAIN registry /\ posts[k].op = "open"
        <5>1. Sound(registry[name]) /\ registry[name] \in SUBSET Node
          BY <1>1, <4>1 DEF RegistryOK, Sound
        <5> QED
          BY <2>1, <4>1, <5>1 DEF ServeFetch
      <4>2. CASE name \in DOMAIN registry /\ posts[k].op # "open"
        BY <1>2, <2>1, <4>2 DEF ServeFetch
      <4>3. CASE name \notin DOMAIN registry
        BY <1>2, <2>1, <4>3 DEF ServeFetch
      <4> QED
        BY <4>1, <4>2, <4>3
    <3> QED
      BY <1>1, <3>1, <3>2, ReplyKeeps
  <2>2. CASE ServeCreate(k) \/ ServeUpdate(k)
    <3>1. posts[k] \in Post /\ posts[k].op \notin {"none", "open"} /\ name \in Names
      BY <1>4, <2>2 DEF ServeCreate, ServeUpdate, Post
    <3>2. posts[k].graph \in SUBSET Node
      BY <3>1 DEF Post
    <3>3. PICK kept \in SUBSET Node :
             /\ Unique(kept)
             /\ \/ /\ Closed(kept) /\ registry' = Register(name, Stored(kept))
                   /\ Reply(k, "ok", {})
                \/ /\ UNCHANGED registry \/ registry' = Unregister(name)
                   /\ Reply(k, "refused", {})
      BY <2>2, <3>2 DEF ServeCreate, ServeUpdate, Kept, Accepts
    <3>4. RegistryOK'
      <4>1. CASE Closed(kept) /\ registry' = Register(name, Stored(kept))
        <5>1. Sound(Stored(kept))
          BY <3>3, <4>1, StoredIsSound
        <5> QED
          BY <1>1, <3>1, <4>1, <5>1 DEF Register, RegistryOK, Sound
      <4>2. CASE UNCHANGED registry \/ registry' = Unregister(name)
        BY <1>1, <4>2 DEF Unregister, RegistryOK, Sound
      <4> QED
        BY <3>3, <4>1, <4>2
    <3>5. PostsOK'
      <4>1. PICK stage \in {"ok", "refused"} : Reply(k, stage, {})
        BY <3>3
      <4> QED
        BY <1>1, <1>2, <3>1, <4>1, ReplyKeeps
    <3> QED
      BY <3>4, <3>5
  <2>3. CASE ServeRemove(k)
    <3>1. RegistryOK' /\ posts[k].op \notin {"none", "open"}
      BY <1>1, <2>3 DEF ServeRemove, Unregister, RegistryOK, Sound
    <3>2. PICK stage \in {"ok", "refused"} : Reply(k, stage, {})
      BY <2>3 DEF ServeRemove
    <3>3. PostsOK'
      BY <1>1, <1>2, <3>1, <3>2, ReplyKeeps
    <3> QED
      BY <3>1, <3>3
  <2> QED
    BY <2>1, <2>2, <2>3 DEF Serve
<1> QED
  BY <1>3, <1>5 DEF EditorIInv

-----------------------------------------------------------------------------
(* The invariant is inductive.                                             *)

LEMMA EditorInitIInv == EditorInit => EditorIInv
<1> SUFFICES ASSUME EditorInit PROVE EditorIInv
  OBVIOUS
<1>1. GraphOK
  <2>1. GraphTyped
    BY DEF EditorInit, GraphTyped
  <2>2. OnlyRemovalDangles
    BY EmptyIsSound DEF EditorInit, OnlyRemovalDangles
  <2>3. Numbered /\ DuplicatesAreLoadedOrTyped /\ DrawnEdgesAreDependencies
    BY DEF EditorInit, Numbered, DuplicatesAreLoadedOrTyped, DrawnEdgesAreDependencies
  <2> QED
    BY <2>1, <2>2, <2>3 DEF GraphOK
<1>2. PostsOK
  BY DEF EditorInit, PostsOK, Carries, Idle
<1>3. RegistryOK
  BY EditorAssumption DEF EditorInit, RegistryOK, Sound
<1>4. RestOK
  <2>1. counter = 0 /\ edits = 0 /\ MaxId \in Nat /\ MaxEdits \in Nat
    BY EditorAssumption DEF EditorInit
  <2>2. storing \in BOOLEAN
    BY Zenon DEF EditorInit
  <2>3. counter \in 0..MaxId /\ edits \in 0..MaxEdits
    BY <2>1
  <2> QED
    BY <2>2, <2>3 DEF RestOK
<1> QED
  BY <1>1, <1>2, <1>3, <1>4 DEF EditorIInv

\* Steps that leave calls and registry alone.
LEMMA EditKeeps ==
    ASSUME EditorIInv, GraphOK', RestOK', UNCHANGED <<posts, registry>>
    PROVE  EditorIInv'
BY DEF EditorIInv, PostsOK, Carries, RegistryOK, Sound

LEMMA EditSteps ==
    ASSUME EditorIInv,
           \/ OpenBlank \/ CloseEditor \/ Drop \/ Erase
           \/ \E s, t \in Ids : Connect(s, t) \/ Rename(s, t)
           \/ \E x \in Ids : RemoveNode(x)
    PROVE  EditorIInv'
<1>1. GraphOK /\ RestOK
  BY DEF EditorIInv
<1>2. UNCHANGED <<posts, registry>>
  BY DEF OpenBlank, CloseEditor, Drop, Erase, Connect, Rename, RemoveNode
<1>3. RestOK'
  BY <1>1, EditorAssumption DEF RestOK, OpenBlank, CloseEditor, Drop, Erase,
     Connect, Rename, RemoveNode, Edit
<1>4. GraphOK'
  <2>1. CASE OpenBlank
    <3>1. Sound({}) /\ Replace(NoName, {}) /\ counter' = counter /\ counter \in Nat
      BY <1>1, <2>1, EmptyIsSound, EditorAssumption DEF OpenBlank, RestOK
    <3> QED
      BY <3>1, ReplaceKeeps
  <2>2. CASE CloseEditor
    BY <2>2, ShutKeeps DEF CloseEditor
  <2> QED
    BY <1>1, <2>1, <2>2, DropKeeps, EraseKeeps, ConnectKeeps, RenameKeeps,
       RemoveNodeKeeps DEF RestOK
<1> QED
  BY <1>2, <1>3, <1>4, EditKeeps

LEMMA RevisitStep ==
    ASSUME EditorIInv, Revisit
    PROVE  EditorIInv'
<1>1. GraphOK'
  BY ShutKeeps DEF Revisit
<1>2. ASSUME NEW k \in Slots
      PROVE  /\ posts'[k] \in Post \cup {Idle}
             /\ posts'[k].op = posts[k].op /\ posts'[k].stage = posts[k].stage
             /\ posts'[k].graph = posts[k].graph /\ posts'[k].lost = posts[k].lost
  <2>1. posts[k] \in Post \cup {Idle}
    BY DEF EditorIInv, PostsOK
  <2>2. posts'[k] = IF posts[k] = Idle THEN Idle ELSE [posts[k] EXCEPT !.live = FALSE]
    BY DEF Revisit
  <2>3. CASE posts[k] = Idle
    BY <2>2, <2>3
  <2>4. CASE posts[k] # Idle
    BY <2>1, <2>2, <2>4 DEF Post
  <2> QED
    BY <2>3, <2>4
<1>3. DOMAIN posts' = Slots /\ posts' = [k \in Slots |-> posts'[k]]
  BY DEF Revisit
<1>4. PostsOK'
  BY <1>2, <1>3 DEF EditorIInv, PostsOK, Carries, Sound
<1>5. RegistryOK' /\ RestOK'
  BY EditorAssumption DEF Revisit, EditorIInv, RegistryOK, RestOK, Sound
<1> QED
  BY <1>1, <1>4, <1>5 DEF EditorIInv

LEMMA StartKeeps ==
    ASSUME EditorIInv, NEW k \in Slots, NEW op \in {"open", "create", "update", "remove"},
           NEW name \in Names, NEW graph \in SUBSET Node, Start(k, op, name, graph),
           op = "update" => Dangling(graph) \subseteq Lost
    PROVE  PostsOK'
<1>1. Lost \in SUBSET Ids
  BY DEF EditorIInv, GraphOK, GraphTyped, Lost
<1>2. PICK message \in Post :
         /\ posts' = [posts EXCEPT ![k] = message]
         /\ message.stage = "sent" /\ message.op = op
         /\ message.graph = graph /\ message.lost = Lost
  <2>1. PICK live \in BOOLEAN : live = (op # "remove")
    OBVIOUS
  <2> DEFINE message == [op |-> op, name |-> name, graph |-> graph, stage |-> "sent",
                         live |-> live, lost |-> Lost]
  <2>2. message \in Post
    BY <1>1 DEF Post
  <2>3. posts' = [posts EXCEPT ![k] = message]
    BY <2>1, Zenon DEF Start
  <2>4. /\ message.stage = "sent" /\ message.op = op
        /\ message.graph = graph /\ message.lost = Lost
    OBVIOUS
  <2> HIDE DEF message
  <2> QED
    BY <2>2, <2>3, <2>4
<1>3. Carries(message)
  BY <1>2 DEF Carries
<1> QED
  BY <1>2, <1>3, PutPost DEF EditorIInv

LEMMA AskSteps ==
    ASSUME EditorIInv, NEW k \in Slots, NEW name \in Names,
           AskOpen(k, name) \/ AskRemove(k, name) \/ SaveEditor(k, name)
    PROVE  EditorIInv'
<1>1. UNCHANGED graphVars /\ UNCHANGED <<registry, counter, edits>> /\ storing' \in BOOLEAN
  BY DEF AskOpen, AskRemove, SaveEditor, EditorIInv, RestOK
<1>2. GraphOK' /\ RegistryOK' /\ RestOK'
  BY <1>1, UnchangedGraph DEF EditorIInv, RegistryOK, RestOK, Sound
<1>3. /\ {} \in SUBSET Node /\ nodes \in SUBSET Node
      /\ Dangling(nodes) \subseteq Lost
  BY DEF EditorIInv, GraphOK, GraphTyped, OnlyRemovalDangles
<1>4. PostsOK'
  BY <1>3, StartKeeps DEF AskOpen, AskRemove, SaveEditor
<1> QED
  BY <1>2, <1>4 DEF EditorIInv

LEMMA ArriveSteps ==
    ASSUME EditorIInv, NEW k \in Slots,
           ArriveOpen(k) \/ ArriveFirst(k) \/ ArriveSecond(k) \/ FailPost(k)
    PROVE  EditorIInv'
<1>1. posts \in [Slots -> Post \cup {Idle}] /\ posts[k] # Idle
  BY DEF EditorIInv, PostsOK, ArriveOpen, ArriveFirst, ArriveSecond, FailPost, Idle
<1>2. posts[k] \in Post
  BY <1>1
<1>3. RegistryOK' /\ RestOK' /\ counter' = counter
  BY DEF ArriveOpen, ArriveFirst, ArriveSecond, FailPost, EditorIInv, RegistryOK,
         RestOK, Sound
<1>4. PostsOK'
  <2>1. CASE ArriveFirst(k)
    <3>1. PICK op \in {"refetch", "relist"}, stage \in {"sent", "ok"} :
             posts' = [posts EXCEPT ![k] = [posts[k] EXCEPT !.op = op, !.stage = stage]]
      <4>1. CASE posts[k].op = "update"
        BY <1>1, <2>1, <4>1 DEF ArriveFirst
      <4>2. CASE posts[k].op # "update"
        <5>1. posts' = [posts EXCEPT ![k].op = "relist"] /\ posts[k].stage = "ok"
          BY <2>1, <4>2 DEF ArriveFirst
        <5>2. [posts[k] EXCEPT !.op = "relist"]
                 = [posts[k] EXCEPT !.op = "relist", !.stage = "ok"]
          BY <1>2, <5>1 DEF Post
        <5> QED
          BY <1>1, <5>1, <5>2
      <4> QED
        BY <4>1, <4>2
    <3>2. PICK message \in Post \cup {Idle} :
             /\ message = [posts[k] EXCEPT !.op = op, !.stage = stage]
             /\ message.op \notin {"open", "update"}
      <4>1. [posts[k] EXCEPT !.op = op, !.stage = stage] \in Post
        BY <1>2 DEF Post
      <4>2. [posts[k] EXCEPT !.op = op, !.stage = stage].op = op
        BY <1>2 DEF Post
      <4> QED
        BY <4>1, <4>2
    <3> QED
      BY <3>1, <3>2, PutPost DEF EditorIInv, Carries
  <2>2. CASE ~ArriveFirst(k)
    <3>1. posts' = [posts EXCEPT ![k] = Idle] /\ Carries(Idle)
      BY <2>2 DEF ArriveOpen, ArriveSecond, FailPost, Idle, Carries
    <3> QED
      BY <3>1, PutPost DEF EditorIInv
  <2> QED
    BY <2>1, <2>2
<1>5. GraphOK'
  <2>1. CASE ArriveOpen(k) /\ posts[k].live
    <3>1. PICK name \in Names, graph \in SUBSET Node :
             Replace(name, graph) /\ Sound(graph)
      BY <1>2, <2>1 DEF ArriveOpen, EditorIInv, PostsOK, Carries, Post
    <3>2. counter \in Nat
      BY EditorAssumption DEF EditorIInv, RestOK
    <3> QED
      BY <1>3, <3>1, <3>2, ReplaceKeeps
  <2>2. CASE UNCHANGED graphVars
    BY <1>3, <2>2, UnchangedGraph DEF EditorIInv
  <2>3. CASE Shut
    BY <2>3, ShutKeeps
  <2>4. (ArriveOpen(k) /\ posts[k].live) \/ UNCHANGED graphVars \/ Shut
    BY DEF ArriveOpen, ArriveFirst, ArriveSecond, FailPost
  <2> QED
    BY <2>1, <2>2, <2>3, <2>4
<1> QED
  BY <1>3, <1>4, <1>5 DEF EditorIInv

LEMMA EditorStepIInv ==
    ASSUME EditorIInv, [EditorNext]_editorVars
    PROVE  EditorIInv'
<1>1. CASE UNCHANGED editorVars
  <2>1. UNCHANGED graphVars /\ UNCHANGED <<registry, posts, counter, edits, storing>>
    BY <1>1 DEF editorVars, graphVars
  <2> QED
    BY <2>1, UnchangedGraph DEF EditorIInv, PostsOK, Carries, RegistryOK, RestOK, Sound
<1>2. CASE EditorNext
  BY <1>2, EditSteps, RevisitStep, AskSteps, ServeKeeps, ArriveSteps DEF EditorNext
<1> QED
  BY <1>1, <1>2

\* What the variables of the editor hold.
THEOREM EditorTypeCorrect == EditorSpec => []EditorTypeOK
<1>1. EditorIInv /\ [EditorNext]_editorVars => EditorIInv'
  BY EditorStepIInv
<1>2. EditorIInv => EditorTypeOK
  BY EditorIInvGives
<1> QED
  BY <1>1, <1>2, EditorInitIInv, PTL DEF EditorSpec

\* The graphs that are registered are closed.
THEOREM EditorRegisteredClosed == EditorSpec => []RegisteredClosed
<1>1. EditorIInv /\ [EditorNext]_editorVars => EditorIInv'
  BY EditorStepIInv
<1>2. EditorIInv => RegisteredClosed
  BY EditorIInvGives
<1> QED
  BY <1>1, <1>2, EditorInitIInv, PTL DEF EditorSpec

\* Dependencies without a node are on identifiers that were removed or changed.
THEOREM EditorOnlyRemovalDangles == EditorSpec => []OnlyRemovalDangles
<1>1. EditorIInv /\ [EditorNext]_editorVars => EditorIInv'
  BY EditorStepIInv
<1>2. EditorIInv => OnlyRemovalDangles
  BY EditorIInvGives
<1> QED
  BY <1>1, <1>2, EditorInitIInv, PTL DEF EditorSpec

\* Nodes share an identifier only if it was typed, or loaded ahead of the
\* counter.
THEOREM EditorDuplicates == EditorSpec => []DuplicatesAreLoadedOrTyped
<1>1. EditorIInv /\ [EditorNext]_editorVars => EditorIInv'
  BY EditorStepIInv
<1>2. EditorIInv => DuplicatesAreLoadedOrTyped
  BY EditorIInvGives
<1> QED
  BY <1>1, <1>2, EditorInitIInv, PTL DEF EditorSpec

\* What the canvas draws is a dependency that would be saved, or leads to an
\* identifier that was changed.
THEOREM EditorDrawnEdges == EditorSpec => []DrawnEdgesAreDependencies
<1>1. EditorIInv /\ [EditorNext]_editorVars => EditorIInv'
  BY EditorStepIInv
<1>2. EditorIInv => DrawnEdgesAreDependencies
  BY EditorIInvGives
<1> QED
  BY <1>1, <1>2, EditorInitIInv, PTL DEF EditorSpec

-----------------------------------------------------------------------------
(* What becomes of a registered pipeline.                                  *)

LEMMA EditorStepRegistered ==
    ASSUME EditorIInv, [EditorNext]_editorVars,
           NEW name \in DOMAIN registry, name \notin DOMAIN registry'
    PROVE  \E k \in Slots :
              /\ posts[k].stage = "sent" /\ posts[k].name = name
              /\ \/ posts[k].op = "remove"
                 \/ /\ posts[k].op = "update"
                    /\ Dangling(posts[k].graph) \cap posts[k].lost # {}
<1>1. PICK k \in Slots : Serve(k)
  BY DEF EditorNext, editorVars, OpenBlank, CloseEditor, Revisit, Drop, Erase,
         Connect, Rename, RemoveNode, AskOpen, AskRemove, SaveEditor, ArriveOpen,
         ArriveFirst, ArriveSecond, FailPost
<1>2. CASE ServeFetch(k)
  BY <1>2 DEF ServeFetch
<1>3. CASE ServeCreate(k)
  BY <1>3 DEF ServeCreate, Register
<1>4. CASE ServeUpdate(k)
  <2>1. PICK kept \in SUBSET posts[k].graph :
           /\ Kept(posts[k].graph, kept)
           /\ ~(posts[k].name \in DOMAIN registry /\ Closed(kept))
           /\ registry' = Unregister(posts[k].name)
    BY <1>4 DEF ServeUpdate, Register, Accepts
  <2>2. posts[k].name = name
    BY <2>1 DEF Unregister
  <2>3. Dangling(kept) # {} /\ Dangling(kept) \subseteq Dangling(posts[k].graph)
    BY <2>1, <2>2, ClosedDoesNotDangle, KeptDanglesNoMore
  <2>4. posts[k].op = "update" /\ posts[k].stage = "sent"
    BY <1>1, <1>4 DEF Serve, ServeUpdate
  <2>5. Dangling(posts[k].graph) \subseteq posts[k].lost
    BY <2>4 DEF EditorIInv, PostsOK, Carries
  <2> QED
    BY <2>2, <2>3, <2>4, <2>5
<1>5. CASE ServeRemove(k)
  BY <1>1, <1>5 DEF Serve, ServeRemove, Unregister
<1> QED
  BY <1>1, <1>2, <1>3, <1>4, <1>5 DEF Serve

\* A registered pipeline disappears only when it is deleted, or by the save of a
\* graph with a dependency on a node that was removed or changed in the editor.
THEOREM EditorRegisteredUntilRemoved == EditorSpec => RegisteredUntilRemoved
<1> DEFINE Step ==
       \A name \in DOMAIN registry :
          name \notin DOMAIN registry'
             => \E k \in Slots :
                   /\ posts[k].stage = "sent" /\ posts[k].name = name
                   /\ \/ posts[k].op = "remove"
                      \/ /\ posts[k].op = "update"
                         /\ Dangling(posts[k].graph) \cap posts[k].lost # {}
<1>1. EditorIInv /\ [EditorNext]_editorVars => EditorIInv'
  BY EditorStepIInv
<1>2. EditorIInv /\ [EditorNext]_editorVars => [Step]_editorVars
  BY EditorStepRegistered
<1> QED
  BY <1>1, <1>2, EditorInitIInv, PTL DEF EditorSpec, RegisteredUntilRemoved
=============================================================================
