----------------------------- MODULE DAGExecutor ----------------------------
(***************************************************************************)
(* DAGExecutor.execute (src/src/pipeline/executor.py): an execution runs   *)
(* the nodes of a pipeline in waves.  All nodes whose dependencies have a  *)
(* result form a wave; the next one is computed when every node of the     *)
(* wave is through.  The worker runs several executions concurrently, and  *)
(* they share one circuit breaker per node id (the registry is global), so *)
(* what one execution's handlers do decides whether another's are called.  *)
(***************************************************************************)
EXTENDS Breaker, FiniteSets

CONSTANTS
    Nodes,       \* node ids
    Executions,  \* concurrent calls of execute
    Handled,     \* nodes of a type that has a registered handler
    Pipelines    \* the dependency functions a registered pipeline may have

ASSUME ExecutorAssumption ==
    /\ IsFiniteSet(Nodes)
    /\ Handled \subseteq Nodes
    /\ Pipelines \subseteq [Nodes -> SUBSET Nodes]

VARIABLES
    deps,     \* the pipeline being executed: deps[n] is n's depends_on
    pending,  \* pending[e]: nodes that were in no finished wave
    wave,     \* wave[e]: `ready` of the current wave
    running,  \* running[e]: nodes whose handler is being awaited
    result,   \* result[e][n]: "unset", "value", or "none" for None
    phase,    \* phase[e]: "waves", or "done" once execute returned
    breaker   \* breaker[n]: the circuit breaker "node:n"

vars == <<deps, pending, wave, running, result, phase, breaker>>

(* `completed` in the code holds exactly the nodes with a result.          *)
Completed(e) == {n \in Nodes : result[e][n] # "unset"}

TypeOK ==
    /\ deps \in Pipelines
    /\ pending \in [Executions -> SUBSET Nodes]
    /\ wave \in [Executions -> SUBSET Nodes]
    /\ running \in [Executions -> SUBSET Nodes]
    /\ \A e \in Executions : running[e] \subseteq wave[e] /\ wave[e] \subseteq pending[e]
    /\ result \in [Executions -> [Nodes -> {"unset", "value", "none"}]]
    /\ phase \in [Executions -> {"waves", "done"}]
    /\ breaker \in [Nodes -> Breakers]

Init ==
    /\ deps \in Pipelines
    /\ pending = [e \in Executions |-> Nodes]
    /\ wave = [e \in Executions |-> {}]
    /\ running = [e \in Executions |-> {}]
    /\ result = [e \in Executions |-> [n \in Nodes |-> "unset"]]
    /\ phase = [e \in Executions |-> "waves"]
    /\ breaker = [n \in Nodes |-> Fresh]

Settled(e) == \A n \in wave[e] : result[e][n] # "unset"

(* Mutated: a node is ready as soon as one of its dependencies is done.    *)
ReadyEarly(e, left) ==
    {n \in left : deps[n] = {} \/ deps[n] \cap Completed(e) # {}}

Ready(e, left) == {n \in left : deps[n] \subseteq Completed(e)}

(* Mutated: an empty wave is no reason to stop.                            *)
NextWaveNeverGivesUp(e) ==
    /\ phase[e] = "waves" /\ Settled(e)
    /\ LET left  == pending[e] \ wave[e]
           ready == Ready(e, left)
       IN  /\ pending' = [pending EXCEPT ![e] = left]
           /\ wave' = [wave EXCEPT ![e] = ready]
           /\ phase' = [phase EXCEPT ![e] = IF left = {} THEN "done" ELSE @]
           /\ result' = [result EXCEPT ![e] =
                           [n \in Nodes |-> IF n \in ready \ Handled THEN "none" ELSE @[n]]]
    /\ UNCHANGED <<deps, running, breaker>>

(* Mutated: the finished wave stays pending.                               *)
NextWaveKeepsPending(e) ==
    /\ phase[e] = "waves" /\ Settled(e)
    /\ LET ready == Ready(e, pending[e])
       IN  /\ wave' = [wave EXCEPT ![e] = ready]
           /\ phase' = [phase EXCEPT ![e] = IF ready = {} THEN "done" ELSE @]
           /\ result' = [result EXCEPT ![e] =
                           [n \in Nodes |-> IF n \in ready THEN "unset" ELSE @[n]]]
    /\ UNCHANGED <<deps, pending, running, breaker>>

(* The loop from one gather to the next: the nodes of the finished wave    *)
(* leave `pending`; a cycle leaves nothing ready and ends the loop with    *)
(* the results so far; a node without a handler gets None at once.         *)
NextWave(e) ==
    /\ phase[e] = "waves" /\ Settled(e)
    /\ LET left  == pending[e] \ wave[e]
           ready == Ready(e, left)
       IN  /\ pending' = [pending EXCEPT ![e] = left]
           /\ wave' = [wave EXCEPT ![e] = ready]
           /\ phase' = [phase EXCEPT ![e] = IF ready = {} THEN "done" ELSE @]
           /\ result' = [result EXCEPT ![e] =
                           [n \in Nodes |-> IF n \in ready \ Handled THEN "none" ELSE @[n]]]
    /\ UNCHANGED <<deps, running, breaker>>

SetResult(e, n, v) == result' = [result EXCEPT ![e][n] = v]

Waiting(e, n) == n \in wave[e] \cap Handled /\ n \notin running[e] /\ result[e][n] = "unset"

(* The first step of the coroutine `run`: the node's breaker is asked; an  *)
(* open one raises, which counts as a result of None.                      *)
Launch(e, n) ==
    /\ Waiting(e, n)
    /\ LET seen == Observed(breaker[n])
       IN  /\ breaker' = [breaker EXCEPT ![n] = seen]
           /\ IF seen.state = "open"
              THEN SetResult(e, n, "none") /\ UNCHANGED running
              ELSE running' = [running EXCEPT ![e] = @ \cup {n}] /\ UNCHANGED result
    /\ UNCHANGED <<deps, pending, wave, phase>>

Return(e, n) ==
    /\ n \in running[e]
    /\ running' = [running EXCEPT ![e] = @ \ {n}]
    /\ SetResult(e, n, "value")
    /\ breaker' = [breaker EXCEPT ![n] = AfterSuccess(@)]
    /\ UNCHANGED <<deps, pending, wave, phase>>

(* Mutated: a failed node is not marked as completed.                      *)
RaiseUnmarked(e, n) ==
    /\ n \in running[e]
    /\ running' = [running EXCEPT ![e] = @ \ {n}]
    /\ wave' = [wave EXCEPT ![e] = @ \ {n}]
    /\ pending' = [pending EXCEPT ![e] = @ \ {n}]
    /\ breaker' = [breaker EXCEPT ![n] = AfterFailure(@)]
    /\ UNCHANGED <<deps, result, phase>>

(* The handler raised or its thirty seconds are over.                      *)
Raise(e, n) ==
    /\ n \in running[e]
    /\ running' = [running EXCEPT ![e] = @ \ {n}]
    /\ SetResult(e, n, "none")
    /\ breaker' = [breaker EXCEPT ![n] = AfterFailure(@)]
    /\ UNCHANGED <<deps, pending, wave, phase>>

Tick(n) ==
    /\ breaker' = [breaker EXCEPT ![n] = Older(@)]
    /\ UNCHANGED <<deps, pending, wave, running, result, phase>>

NodeStep(e, n) == Launch(e, n) \/ Return(e, n) \/ Raise(e, n)

Next ==
    \/ \E e \in Executions : NextWave(e) \/ \E n \in Nodes : NodeStep(e, n)
    \/ \E n \in Nodes : Tick(n)

(* The event loop runs every ready coroutine, and wait_for bounds the time *)
(* a handler takes.                                                        *)
Fairness ==
    \A e \in Executions :
        WF_vars(NextWave(e)) /\ \A n \in Nodes : WF_vars(NodeStep(e, n))

Spec == Init /\ [][Next]_vars /\ Fairness

-----------------------------------------------------------------------------
(* Properties.                                                             *)

(* `{dep: results[dep] for dep in depends_on}` never misses a key: a node  *)
(* that waits for its handler or runs has a result of every dependency.    *)
InputsPresent ==
    \A e \in Executions : \A n \in wave[e] : deps[n] \subseteq Completed(e)

(* A result is final: no node is run a second time in an execution, and no *)
(* late answer replaces a None.  RunsAsPromised, below, says it too.      *)
ResultsFinal ==
    [][\A e \in Executions, n \in Nodes :
         result[e][n] # "unset" => result'[e][n] = result[e][n]]_vars

(* The nodes that no order can run: the largest set in which each node     *)
(* depends on another of the set, that is the cycles and what is behind    *)
(* them.                                                                   *)
Unrunnable == UNION {S \in SUBSET Nodes : \A n \in S : deps[n] \cap S # {}}

(* execute returns a result, possibly None, for every node that some order *)
(* can run, whatever fails and whichever breakers are open; it leaves out  *)
(* exactly the nodes on and behind a cycle.                                *)
ReturnsAllRunnable ==
    \A e \in Executions :
        phase[e] = "done" => Nodes \ Completed(e) = Unrunnable

(* Waves, shared breakers and time limits are the executor's own business: *)
(* seen from outside, nodes are settled once and after what they depend    *)
(* on, and execute returns when nothing is left that could be.             *)
Run == INSTANCE PipelineRun WITH
    deps <- deps, result <- result, phase <- phase

RunsAsPromised == Run!Safe

(* Every execution returns, also on a cyclic pipeline, which validate      *)
(* accepts.                                                                *)
EveryExecutionReturns == \A e \in Executions : <>(phase[e] = "done")
=============================================================================
