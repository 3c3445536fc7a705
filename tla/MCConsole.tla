------------------------------ MODULE MCConsole ------------------------------
(***************************************************************************)
(* One run for four small instances, of Tables, Dialogs, AgentForm and     *)
(* PipelineEditor.  This is no model of a whole console: the first state   *)
(* says which module the behaviour is one of, and the variables of the     *)
(* others stay at one initial value, so that the states are the sum of     *)
(* those of the four and not their product.                                *)
(***************************************************************************)
EXTENDS Tables, Dialogs, AgentForm, PipelineEditor, TLC

CONSTANTS p, q, s1, s2

VARIABLE instance   \* the module the behaviour is one of

Chain  == {[key |-> 1, id |-> 1, deps |-> {}], [key |-> 2, id |-> 2, deps |-> {1}]}
Single == {[key |-> 1, id |-> 1, deps |-> {}]}

MCGiven == {Chain, Single}

MCInit ==
    /\ instance \in {"tables", "dialogs", "agent", "pipelines"}
    /\ TablesInit
    /\ instance # "tables" => table = Page(AlertsV1, AlertStoreV1) /\ server = Nothing
    /\ DialogsInit
    /\ instance # "dialogs" =>
          dialog = CameraFormV1 /\ stored = [x \in Items |-> NoItem]
    /\ AgentFormInit
    /\ EditorInit
    /\ IF instance = "pipelines"
       THEN registry = [name \in Names |-> IF name = p THEN Chain ELSE Single]
       ELSE DOMAIN registry = {}

MCNext ==
    \/ /\ instance = "tables"
       /\ TablesNext
       /\ UNCHANGED <<instance, dialogVars, agentVars, editorVars>>
    \/ /\ instance = "dialogs"
       /\ DialogsNext
       /\ UNCHANGED <<instance, tablesVars, agentVars, editorVars>>
    \/ /\ instance = "agent"
       /\ AgentFormNext
       /\ UNCHANGED <<instance, tablesVars, dialogVars, editorVars>>
    \/ /\ instance = "pipelines"
       /\ EditorNext
       /\ UNCHANGED <<instance, tablesVars, dialogVars, agentVars>>

MCSpec ==
    MCInit /\ [][MCNext]_<<instance, tablesVars, dialogVars, agentVars, editorVars>>

\* The variables of the four modules hold what they should.
MCTypeOK == TablesTypeOK /\ DialogsTypeOK /\ AgentFormTypeOK /\ EditorTypeOK

\* Calls in flight are told apart by nothing but their slot.
Symmetry == Permutations(Slots)
=============================================================================
