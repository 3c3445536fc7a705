---------------------------- MODULE PipelineRun -----------------------------
(***************************************************************************)
(* What executing a pipeline promises, whatever the executor, its waves    *)
(* and its breakers are: an execution settles nodes, each once and after   *)
(* everything it depends on, with a value or with None, and returns when   *)
(* no node that is left could still be settled.                            *)
(***************************************************************************)
CONSTANTS Nodes, Executions, Pipelines

VARIABLES deps,    \* the pipeline: deps[n] is n's depends_on
          result,  \* result[e][n]: "unset", "value", or "none" for None
          phase    \* phase[e]: "waves", or "done" once execute returned

vars == <<deps, result, phase>>

Init ==
    /\ deps \in Pipelines
    /\ result = [e \in Executions |-> [n \in Nodes |-> "unset"]]
    /\ phase = [e \in Executions |-> "waves"]

Unsettled(e) == {n \in Nodes : result[e][n] = "unset"}

(* The nodes whose inputs are there.                                       *)
Possible(e) == {n \in Unsettled(e) : deps[n] \cap Unsettled(e) = {}}

(* Nodes without a handler are settled several at a time.                  *)
Settle(e) ==
    /\ phase[e] = "waves"
    /\ \E outcome \in [Nodes -> {"unset", "value", "none"}] :
          /\ \A n \in Nodes \ Possible(e) : outcome[n] = result[e][n]
          /\ result' = [result EXCEPT ![e] = outcome]
    /\ UNCHANGED <<deps, phase>>

Return(e) ==
    /\ phase[e] = "waves" /\ Possible(e) = {}
    /\ phase' = [phase EXCEPT ![e] = "done"]
    /\ UNCHANGED <<deps, result>>

Next == \E e \in Executions : Settle(e) \/ Return(e)

Safe == Init /\ [][Next]_vars
=============================================================================
