-------------------------- MODULE DAGExecutorProofs --------------------------
(***************************************************************************)
(* Proofs about DAGExecutor, for any pipelines, cyclic ones included, any  *)
(* number of concurrent executions and any breaker settings.  The heart of *)
(* the inductive invariant is that a set of nodes which depend on each     *)
(* other never enters a wave, and that whatever is neither pending nor in  *)
(* the wave has a result: together they say what is left when nothing is   *)
(* ready.                                                                  *)
(***************************************************************************)
EXTENDS DAGExecutor, TLAPS

-----------------------------------------------------------------------------
(* The breakers.                                                           *)

\* A breaker that can still take a success or a failure.
Live(b) ==
    /\ b \in Breakers
    /\ b.state = "closed" => b.failures < FailureThreshold
    /\ b.state = "half_open" => b.probes < HalfOpenMaxCalls

LEMMA FreshLive == Live(Fresh)
BY BreakerAssumption DEF Live, Fresh, Breakers

LEMMA ObservedLive ==
    ASSUME NEW b, Live(b)
    PROVE  Live(Observed(b))
BY BreakerAssumption DEF Live, Observed, Breakers, Value

LEMMA OlderLive ==
    ASSUME NEW b, Live(b)
    PROVE  Live(Older(b))
BY BreakerAssumption DEF Live, Older, Breakers, Value

LEMMA AfterSuccessLive ==
    ASSUME NEW b, Live(b)
    PROVE  Live(AfterSuccess(b))
<1>1. CASE b.state # "half_open"
  BY <1>1 DEF Live, AfterSuccess
<1>2. CASE b.state = "half_open" /\ b.probes + 1 < HalfOpenMaxCalls
  BY <1>2, BreakerAssumption DEF Live, AfterSuccess, Breakers, Value
<1>3. CASE b.state = "half_open" /\ b.probes + 1 >= HalfOpenMaxCalls
  BY <1>3, BreakerAssumption DEF Live, AfterSuccess, Breakers, Value
<1> QED
  BY <1>1, <1>2, <1>3, BreakerAssumption DEF Live, Breakers

LEMMA AfterFailureLive ==
    ASSUME NEW b, Live(b)
    PROVE  Live(AfterFailure(b))
<1>1. CASE b.state # "closed"
  BY <1>1, BreakerAssumption DEF Live, AfterFailure, Breakers, Value
<1>2. CASE b.state = "closed" /\ b.failures + 1 < FailureThreshold
  BY <1>2, BreakerAssumption DEF Live, AfterFailure, Breakers, Value
<1>3. CASE b.state = "closed" /\ b.failures + 1 >= FailureThreshold
  BY <1>3, BreakerAssumption DEF Live, AfterFailure, Breakers, Value
<1> QED
  BY <1>1, <1>2, <1>3, BreakerAssumption DEF Live, Breakers

-----------------------------------------------------------------------------
(* The invariant.                                                          *)

Shape ==
    /\ deps \in Pipelines
    /\ pending \in [Executions -> SUBSET Nodes]
    /\ wave \in [Executions -> SUBSET Nodes]
    /\ running \in [Executions -> SUBSET Nodes]
    /\ result \in [Executions -> [Nodes -> {"unset", "value", "none"}]]
    /\ phase \in [Executions -> {"waves", "done"}]
    /\ breaker \in [Nodes -> Breakers]
    /\ \A n \in Nodes : Live(breaker[n])

\* Running nodes are of the wave and have no result; what is not pending has
\* one; what is pending and not of the wave has none, and holds all that no
\* order can run; an execution that returned had nothing ready.
ExecOK(e) ==
    /\ running[e] \subseteq wave[e] /\ wave[e] \subseteq pending[e]
    /\ \A n \in running[e] : result[e][n] = "unset"
    /\ \A n \in Nodes \ pending[e] : result[e][n] # "unset"
    /\ \A n \in pending[e] \ wave[e] : result[e][n] = "unset"
    /\ \A n \in wave[e] : deps[n] \subseteq Completed(e)
    /\ Unrunnable \subseteq pending[e] \ wave[e]
    /\ phase[e] = "done" => wave[e] = {} /\ Ready(e, pending[e]) = {}

IInv == Shape /\ \A e \in Executions : ExecOK(e)

\* What a set depends on within itself cannot be ready before part of it has a
\* result.
LEMMA UnrunnableFacts ==
    ASSUME Shape
    PROVE  /\ Unrunnable \subseteq Nodes
           /\ \A n \in Unrunnable : deps[n] \cap Unrunnable # {}
           /\ \A S \in SUBSET Nodes :
                 (\A n \in S : deps[n] \cap S # {}) => S \subseteq Unrunnable
BY DEF Unrunnable

LEMMA InitInvariant == Init => IInv
<1> SUFFICES ASSUME Init PROVE IInv
  OBVIOUS
<1>1. Shape
  BY FreshLive DEF Init, Shape, Live
<1>2. ASSUME NEW e \in Executions PROVE ExecOK(e)
  <2>1. /\ pending[e] = Nodes /\ wave[e] = {} /\ running[e] = {}
        /\ \A n \in Nodes : result[e][n] = "unset"
        /\ phase[e] = "waves"
    BY DEF Init
  <2>2. Unrunnable \subseteq Nodes
    BY <1>1, UnrunnableFacts
  <2> QED
    BY <2>1, <2>2 DEF ExecOK
<1> QED
  BY <1>1, <1>2 DEF IInv

\* A step within a wave gives results to nodes of the wave only.
LEMMA WithinWave ==
    ASSUME Shape, NEW e \in Executions, ExecOK(e),
           UNCHANGED <<deps, pending, wave, phase>>,
           running'[e] \subseteq wave[e],
           \A m \in Nodes : \/ result'[e][m] = result[e][m]
                            \/ m \in wave[e] /\ result'[e][m] # "unset",
           \A m \in running'[e] : result'[e][m] = "unset"
    PROVE  ExecOK(e)'
<1>1. Completed(e) \subseteq Completed(e)'
  BY DEF Completed
<1>2. Unrunnable' = Unrunnable
  BY DEF Unrunnable
<1>3. wave[e] = {} => Completed(e)' = Completed(e)
  BY DEF Completed
<1>4. phase[e] = "done" => Ready(e, pending[e])' = Ready(e, pending[e])
  BY <1>3 DEF Ready, ExecOK
<1>5. pending[e] \subseteq Nodes /\ wave[e] \subseteq Nodes
  BY DEF Shape
<1>6. /\ running'[e] \subseteq wave'[e] /\ wave'[e] \subseteq pending'[e]
      /\ \A n \in running'[e] : result'[e][n] = "unset"
  BY DEF ExecOK
<1>7. \A n \in Nodes \ pending'[e] : result'[e][n] # "unset"
  BY DEF ExecOK
<1>8. \A n \in pending'[e] \ wave'[e] : result'[e][n] = "unset"
  BY <1>5 DEF ExecOK
<1>9. \A n \in wave'[e] : deps'[n] \subseteq Completed(e)'
  BY <1>1 DEF ExecOK
<1>10. phase'[e] = "done" => wave'[e] = {} /\ Ready(e, pending[e])' = {}
  BY <1>4 DEF ExecOK
<1>11. Unrunnable' \subseteq pending'[e] \ wave'[e]
  BY <1>2 DEF ExecOK
<1> QED
  BY <1>6, <1>7, <1>8, <1>9, <1>10, <1>11 DEF ExecOK

\* The next wave holds nothing that depends on itself.
LEMMA NextWaveExec ==
    ASSUME IInv, NEW e \in Executions, NextWave(e)
    PROVE  ExecOK(e)'
<1> DEFINE left == pending[e] \ wave[e]
           ready == Ready(e, left)
<1>1. /\ pending'[e] = left /\ wave'[e] = ready /\ running' = running /\ deps' = deps
      /\ phase'[e] = IF ready = {} THEN "done" ELSE "waves"
      /\ \A n \in Nodes : result'[e][n] = IF n \in ready \ Handled THEN "none"
                                                                   ELSE result[e][n]
  <2>1. pending'[e] = left
    BY DEF NextWave, IInv, Shape
  <2>2. wave'[e] = ready
    BY DEF NextWave, IInv, Shape
  <2>3. phase'[e] = IF ready = {} THEN "done" ELSE "waves"
    BY DEF NextWave, IInv, Shape
  <2>4. \A n \in Nodes : result'[e][n] = IF n \in ready \ Handled THEN "none"
                                                                  ELSE result[e][n]
    BY DEF NextWave, IInv, Shape
  <2> QED
    BY <2>1, <2>2, <2>3, <2>4 DEF NextWave
<1>2. /\ ExecOK(e) /\ Shape
      /\ left \subseteq Nodes /\ wave[e] \subseteq Nodes
      /\ ready = {n \in left : deps[n] \subseteq Completed(e)}
  BY DEF IInv, Shape, Ready
<1>3. \A n \in wave[e] : result[e][n] # "unset"
  BY DEF NextWave, Settled
<1> HIDE DEF left, ready
<1>4. running[e] = {}
  BY <1>2, <1>3 DEF ExecOK
<1>5. \A n \in Nodes \ left : result[e][n] # "unset"
  BY <1>2, <1>3 DEF ExecOK, left
<1>6. \A n \in left : result[e][n] = "unset"
  BY <1>2 DEF ExecOK, left
<1>7. Completed(e) \subseteq Completed(e)' /\ Completed(e) = Nodes \ left
  BY <1>1, <1>2, <1>5, <1>6 DEF Completed
<1>8. ready \cap Unrunnable = {}
  <2>1. SUFFICES ASSUME NEW n \in ready, n \in Unrunnable PROVE FALSE
    OBVIOUS
  <2>2. PICK m \in deps[n] : m \in Unrunnable
    BY <1>2, <2>1, UnrunnableFacts
  <2>3. m \in left
    BY <1>2, <2>2 DEF ExecOK, left
  <2> QED
    BY <1>2, <1>7, <2>1, <2>2, <2>3
<1>9. Unrunnable' \subseteq pending'[e] \ wave'[e]
  <2>1. Unrunnable' = Unrunnable
    BY <1>1 DEF Unrunnable
  <2>2. Unrunnable \subseteq left
    BY <1>2 DEF ExecOK, left
  <2> QED
    BY <1>1, <1>8, <2>1, <2>2
<1>10. \A n \in wave'[e] : deps'[n] \subseteq Completed(e)'
  BY <1>1, <1>2, <1>7
<1>11. phase'[e] = "done" => wave'[e] = {} /\ Ready(e, pending[e])' = {}
  <2>1. SUFFICES ASSUME phase'[e] = "done" PROVE wave'[e] = {} /\ Ready(e, pending[e])' = {}
    OBVIOUS
  <2>2. ready = {}
    BY <1>1, <2>1
  <2>3. Completed(e)' = Completed(e)
    BY <1>1, <2>2 DEF Completed
  <2>4. Ready(e, pending[e])' = ready
    BY <1>1, <1>2, <2>3 DEF Ready
  <2> QED
    BY <1>1, <2>2, <2>4
<1>12. \A n \in pending'[e] \ wave'[e] : result'[e][n] = "unset"
  BY <1>1, <1>2, <1>6
<1>13. \A n \in Nodes \ pending'[e] : result'[e][n] # "unset"
  BY <1>1, <1>5
<1>14. /\ running'[e] \subseteq wave'[e] /\ wave'[e] \subseteq pending'[e]
       /\ \A n \in running'[e] : result'[e][n] = "unset"
  BY <1>1, <1>2, <1>4
<1> QED
  BY <1>9, <1>10, <1>11, <1>12, <1>13, <1>14 DEF ExecOK

\* What the steps of other executions leave alone.
LEMMA OthersStay ==
    ASSUME Shape, NEW e \in Executions, ExecOK(e), UNCHANGED deps,
           pending'[e] = pending[e], wave'[e] = wave[e], phase'[e] = phase[e],
           running'[e] = running[e], result'[e] = result[e]
    PROVE  ExecOK(e)'
BY DEF ExecOK, Completed, Unrunnable, Ready

LEMMA NextWaveShape ==
    ASSUME IInv, NEW e \in Executions, NextWave(e)
    PROVE  Shape'
<1> DEFINE left == pending[e] \ wave[e]
           ready == Ready(e, left)
<1>1. left \in SUBSET Nodes /\ ready \in SUBSET Nodes
  BY DEF IInv, Shape, Ready
<1> HIDE DEF ready
<1>2. /\ pending' = [pending EXCEPT ![e] = left]
      /\ wave' = [wave EXCEPT ![e] = ready]
      /\ phase' = [phase EXCEPT ![e] = IF ready = {} THEN "done" ELSE @]
      /\ result' = [result EXCEPT ![e] =
                       [n \in Nodes |-> IF n \in ready \ Handled THEN "none" ELSE @[n]]]
  BY DEF NextWave, ready
<1> HIDE DEF left
<1>3. pending' \in [Executions -> SUBSET Nodes] /\ wave' \in [Executions -> SUBSET Nodes]
  BY <1>1, <1>2 DEF IInv, Shape
<1>4. phase' \in [Executions -> {"waves", "done"}]
  BY <1>2 DEF IInv, Shape
<1>5. result' \in [Executions -> [Nodes -> {"unset", "value", "none"}]]
  BY <1>2 DEF IInv, Shape
<1> QED
  BY <1>3, <1>4, <1>5 DEF NextWave, IInv, Shape

LEMMA NextWaveInvariant ==
    ASSUME IInv, NEW e \in Executions, NextWave(e)
    PROVE  IInv'
<1>1. Shape'
  BY NextWaveShape
<1>2. ASSUME NEW d \in Executions, d # e PROVE ExecOK(d)'
  <2>1. /\ Shape /\ ExecOK(d) /\ UNCHANGED <<deps, running>>
        /\ pending'[d] = pending[d] /\ wave'[d] = wave[d]
        /\ phase'[d] = phase[d] /\ result'[d] = result[d]
    BY <1>2 DEF IInv, Shape, NextWave
  <2> QED
    BY <2>1, OthersStay
<1> QED
  BY <1>1, <1>2, NextWaveExec DEF IInv

\* A node of the wave gets a result, or starts to run.
LEMMA NodeInvariant ==
    ASSUME IInv, NEW e \in Executions, NEW n \in Nodes, n \in wave[e],
           NEW b, Live(b), breaker' = [breaker EXCEPT ![n] = b],
           UNCHANGED <<deps, pending, wave, phase>>,
           \/ /\ result[e][n] = "unset" /\ UNCHANGED result
              /\ running' = [running EXCEPT ![e] = @ \cup {n}]
           \/ /\ running' \in {running, [running EXCEPT ![e] = @ \ {n}]}
              /\ n \notin running'[e]
              /\ \E v \in {"value", "none"} : result' = [result EXCEPT ![e][n] = v]
    PROVE  IInv'
<1>1. Shape /\ ExecOK(e) /\ b \in Breakers
  BY DEF IInv, Live
<1>2. running' \in [Executions -> SUBSET Nodes]
      /\ \A d \in Executions : d # e => running'[d] = running[d]
  BY <1>1 DEF Shape
<1>3. /\ result' \in [Executions -> [Nodes -> {"unset", "value", "none"}]]
      /\ \A d \in Executions : d # e => result'[d] = result[d]
      /\ \A m \in Nodes : m # n => result'[e][m] = result[e][m]
      /\ result'[e][n] = result[e][n] \/ result'[e][n] # "unset"
  <2>1. CASE UNCHANGED result
    BY <1>1, <2>1 DEF Shape
  <2>2. CASE \E v \in {"value", "none"} : result' = [result EXCEPT ![e][n] = v]
    <3>1. PICK v \in {"value", "none"} : result' = [result EXCEPT ![e][n] = v]
      BY <2>2
    <3>2. result \in [Executions -> [Nodes -> {"unset", "value", "none"}]]
      BY <1>1 DEF Shape
    <3>3. result' \in [Executions -> [Nodes -> {"unset", "value", "none"}]]
      BY <3>1, <3>2
    <3>4. \A d \in Executions : d # e => result'[d] = result[d]
      BY <3>1, <3>2
    <3>5. /\ \A m \in Nodes : m # n => result'[e][m] = result[e][m]
          /\ result'[e][n] = v
      BY <3>1, <3>2
    <3> QED
      BY <3>3, <3>4, <3>5
  <2> QED
    BY <2>1, <2>2
<1>4. Shape'
  <2>1. breaker' \in [Nodes -> Breakers] /\ \A m \in Nodes : Live(breaker'[m])
    BY <1>1 DEF Shape
  <2> QED
    BY <1>1, <1>2, <1>3, <2>1 DEF Shape
<1>5. ExecOK(e)'
  <2>1. running'[e] \subseteq wave[e]
    BY <1>1 DEF Shape, ExecOK
  <2>2. \A m \in running'[e] : result'[e][m] = "unset"
    <3>1. ASSUME NEW m \in running'[e], m # n PROVE result'[e][m] = "unset"
      <4>1. m \in running[e] /\ m \in Nodes
        BY <1>1, <1>2, <3>1 DEF Shape
      <4> QED
        BY <1>1, <1>3, <3>1, <4>1 DEF ExecOK
    <3>2. n \in running'[e] => result'[e][n] = "unset"
      OBVIOUS
    <3> QED
      BY <3>1, <3>2
  <2>3. \A m \in Nodes : \/ result'[e][m] = result[e][m]
                         \/ m \in wave[e] /\ result'[e][m] # "unset"
    BY <1>3
  <2> QED
    BY <1>1, <2>1, <2>2, <2>3, WithinWave
<1>6. ASSUME NEW d \in Executions, d # e PROVE ExecOK(d)'
  <2>1. Shape /\ ExecOK(d) /\ running'[d] = running[d] /\ result'[d] = result[d]
    BY <1>2, <1>3, <1>6 DEF IInv
  <2> QED
    BY <2>1, OthersStay
<1> QED
  BY <1>4, <1>5, <1>6 DEF IInv

LEMMA NodeStepInvariant ==
    ASSUME IInv, NEW e \in Executions, NEW n \in Nodes, NodeStep(e, n)
    PROVE  IInv'
<1>1. /\ Live(breaker[n]) /\ ExecOK(e)
      /\ running \in [Executions -> SUBSET Nodes] /\ breaker \in [Nodes -> Breakers]
  BY DEF IInv, Shape
<1>2. CASE Launch(e, n)
  <2> DEFINE seen == Observed(breaker[n])
  <2>1. Live(seen)
    BY <1>1, ObservedLive
  <2> HIDE DEF seen
  <2>2. /\ breaker' = [breaker EXCEPT ![n] = seen]
        /\ n \in wave[e] /\ n \notin running[e] /\ result[e][n] = "unset"
        /\ UNCHANGED <<deps, pending, wave, phase>>
    BY <1>2 DEF Launch, Waiting, seen
  <2>3. \/ /\ UNCHANGED running
           /\ result' = [result EXCEPT ![e][n] = "none"]
        \/ /\ UNCHANGED result
           /\ running' = [running EXCEPT ![e] = @ \cup {n}]
    BY <1>2 DEF Launch, SetResult
  <2> QED
    BY <2>1, <2>2, <2>3, NodeInvariant
<1>3. CASE Return(e, n)
  <2>1. n \in wave[e] /\ Live(AfterSuccess(breaker[n]))
    BY <1>1, <1>3, AfterSuccessLive DEF Return, ExecOK
  <2>2. n \notin running'[e]
    BY <1>1, <1>3 DEF Return
  <2>3. /\ breaker' = [breaker EXCEPT ![n] = AfterSuccess(breaker[n])]
        /\ running' = [running EXCEPT ![e] = @ \ {n}]
        /\ result' = [result EXCEPT ![e][n] = "value"]
        /\ UNCHANGED <<deps, pending, wave, phase>>
    BY <1>1, <1>3 DEF Return, SetResult
  <2> QED
    BY <2>1, <2>2, <2>3, NodeInvariant
<1>4. CASE Raise(e, n)
  <2>1. n \in wave[e] /\ Live(AfterFailure(breaker[n]))
    BY <1>1, <1>4, AfterFailureLive DEF Raise, ExecOK
  <2>2. n \notin running'[e]
    BY <1>1, <1>4 DEF Raise
  <2>3. /\ breaker' = [breaker EXCEPT ![n] = AfterFailure(breaker[n])]
        /\ running' = [running EXCEPT ![e] = @ \ {n}]
        /\ result' = [result EXCEPT ![e][n] = "none"]
        /\ UNCHANGED <<deps, pending, wave, phase>>
    BY <1>1, <1>4 DEF Raise, SetResult
  <2> QED
    BY <2>1, <2>2, <2>3, NodeInvariant
<1> QED
  BY <1>2, <1>3, <1>4 DEF NodeStep

LEMMA TickInvariant ==
    ASSUME IInv, NEW n \in Nodes, Tick(n)
    PROVE  IInv'
<1>1. Live(Older(breaker[n])) /\ breaker \in [Nodes -> Breakers]
  BY OlderLive DEF IInv, Shape
<1>2. breaker' = [breaker EXCEPT ![n] = Older(breaker[n])]
  BY <1>1 DEF Tick
<1>3. breaker' \in [Nodes -> Breakers] /\ \A m \in Nodes : Live(breaker'[m])
  BY <1>1, <1>2 DEF IInv, Shape, Live
<1>4. Shape'
  BY <1>3 DEF Tick, IInv, Shape
<1>5. ASSUME NEW e \in Executions PROVE ExecOK(e)'
  BY OthersStay DEF Tick, IInv
<1> QED
  BY <1>4, <1>5 DEF IInv

LEMMA StepInvariant == IInv /\ [Next]_vars => IInv'
<1> SUFFICES ASSUME IInv, [Next]_vars PROVE IInv'
  OBVIOUS
<1>1. CASE UNCHANGED vars
  <2>1. UNCHANGED <<deps, pending, wave, running, result, phase, breaker>>
    BY <1>1 DEF vars
  <2>2. Shape'
    BY <2>1 DEF IInv, Shape
  <2>3. ASSUME NEW e \in Executions PROVE ExecOK(e)'
    BY <2>1, OthersStay DEF IInv
  <2> QED
    BY <2>2, <2>3 DEF IInv
<1>2. CASE Next
  BY <1>2, NextWaveInvariant, NodeStepInvariant, TickInvariant DEF Next
<1> QED
  BY <1>1, <1>2

-----------------------------------------------------------------------------
(* What the invariant gives.                                               *)

LEMMA Invariant == Spec => []IInv
BY InitInvariant, StepInvariant, PTL DEF Spec

\* What the variables of the executor hold, the breakers' counters among them.
THEOREM TypeCorrect == Spec => []TypeOK
<1>1. IInv => TypeOK
  BY DEF IInv, Shape, ExecOK, TypeOK
<1> QED
  BY <1>1, Invariant, PTL

\* A node runs only when everything it depends on has a result.
THEOREM Inputs == Spec => []InputsPresent
<1>1. IInv => InputsPresent
  BY DEF IInv, ExecOK, InputsPresent
<1> QED
  BY <1>1, Invariant, PTL

\* What execute returns lacks exactly the nodes on and behind a cycle: when
\* nothing is ready, every pending node depends on a pending one.
THEOREM Returns == Spec => []ReturnsAllRunnable
<1>1. IInv => ReturnsAllRunnable
  <2> SUFFICES ASSUME IInv, NEW e \in Executions, phase[e] = "done"
               PROVE  Nodes \ Completed(e) = Unrunnable
    BY DEF ReturnsAllRunnable
  <2>1. /\ Shape /\ ExecOK(e) /\ wave[e] = {} /\ Ready(e, pending[e]) = {}
        /\ pending[e] \subseteq Nodes
    BY DEF IInv, Shape, ExecOK
  <2>2. Nodes \ Completed(e) = pending[e]
    BY <2>1 DEF ExecOK, Completed
  <2>3. \A n \in pending[e] : deps[n] \cap pending[e] # {}
    <3>1. SUFFICES ASSUME NEW n \in pending[e] PROVE deps[n] \cap pending[e] # {}
      OBVIOUS
    <3>2. PICK m \in deps[n] : m \notin Completed(e)
      BY <2>1, <3>1 DEF Ready
    <3>3. deps[n] \subseteq Nodes
      BY <2>1, <3>1, ExecutorAssumption DEF Shape
    <3> QED
      BY <2>2, <3>2, <3>3
  <2>4. pending[e] \subseteq Unrunnable
    BY <2>1, <2>3, UnrunnableFacts
  <2>5. Unrunnable \subseteq pending[e]
    BY <2>1 DEF ExecOK
  <2> QED
    BY <2>2, <2>4, <2>5
<1> QED
  BY <1>1, Invariant, PTL

\* No result changes once it is there.
THEOREM Final == Spec => ResultsFinal
<1> DEFINE Kept == \A e \in Executions, n \in Nodes :
                      result[e][n] # "unset" => result'[e][n] = result[e][n]
<1>1. IInv /\ [Next]_vars => [Kept]_vars
  <2> SUFFICES ASSUME IInv, Next PROVE Kept
    OBVIOUS
  <2>1. ASSUME NEW e \in Executions, NextWave(e) PROVE Kept
    <3>1. \A d \in Executions : d # e => result'[d] = result[d]
      BY <2>1 DEF NextWave, IInv, Shape
    <3>2. ASSUME NEW n \in Nodes, result[e][n] # "unset"
          PROVE  result'[e][n] = result[e][n]
      <4>1. n \notin pending[e] \ wave[e]
        BY <3>2 DEF IInv, ExecOK
      <4>2. n \notin Ready(e, pending[e] \ wave[e])
        BY <4>1 DEF Ready
      <4> QED
        BY <2>1, <4>2 DEF NextWave, IInv, Shape
    <3> QED
      BY <3>1, <3>2
  <2>2. ASSUME NEW e \in Executions, NEW n \in Nodes, NodeStep(e, n) PROVE Kept
    <3>1. /\ result[e][n] = "unset"
          /\ result' = result \/ \E v : result' = [result EXCEPT ![e][n] = v]
      <4>1. CASE Launch(e, n)
        BY <4>1 DEF Launch, Waiting, SetResult
      <4>2. CASE Return(e, n)
        BY <4>2 DEF Return, SetResult, IInv, ExecOK
      <4>3. CASE Raise(e, n)
        BY <4>3 DEF Raise, SetResult, IInv, ExecOK
      <4> QED
        BY <2>2, <4>1, <4>2, <4>3 DEF NodeStep
    <3> QED
      BY <3>1 DEF IInv, Shape
  <2>3. ASSUME NEW n \in Nodes, Tick(n) PROVE Kept
    BY <2>3 DEF Tick
  <2> QED
    BY <2>1, <2>2, <2>3 DEF Next
<1> QED
  BY <1>1, Invariant, PTL DEF Spec, ResultsFinal

-----------------------------------------------------------------------------
(* The executor runs pipelines as promised.                                *)

\* A node of the wave, or of the next one, can be settled.
LEMMA PossibleFacts ==
    ASSUME Shape, NEW e \in Executions, ExecOK(e)
    PROVE  /\ \A n \in wave[e] : result[e][n] = "unset" => n \in Run!Possible(e)
           /\ Settled(e) => Run!Possible(e) = Ready(e, pending[e] \ wave[e])
<1>1. \A n \in Nodes : deps[n] \subseteq Nodes
  BY ExecutorAssumption DEF Shape
<1>2. \A n \in Nodes : deps[n] \subseteq Completed(e) <=> deps[n] \cap Run!Unsettled(e) = {}
  BY <1>1 DEF Completed, Run!Unsettled
<1>3. wave[e] \subseteq Nodes /\ pending[e] \subseteq Nodes
  BY DEF Shape
<1>4. Settled(e) => Run!Unsettled(e) = pending[e] \ wave[e]
  BY <1>3 DEF ExecOK, Settled, Run!Unsettled
<1> QED
  BY <1>2, <1>3, <1>4 DEF ExecOK, Ready, Run!Possible, Run!Unsettled

\* A node of the wave gets its result while the execution goes on.
LEMMA NodeSettles ==
    ASSUME IInv, NEW e \in Executions, NEW n \in wave[e], result[e][n] = "unset",
           NEW v \in {"value", "none"}, SetResult(e, n, v), UNCHANGED <<deps, phase>>
    PROVE  Run!Settle(e)
<1>1. Shape /\ ExecOK(e)
  BY DEF IInv
<1>2. result \in [Executions -> [Nodes -> {"unset", "value", "none"}]] /\ n \in Nodes
  BY <1>1 DEF Shape
<1>3. n \in Run!Possible(e)
  BY <1>1, PossibleFacts
<1>4. phase[e] = "waves"
  BY <1>1 DEF Shape, ExecOK
<1> DEFINE outcome == [result[e] EXCEPT ![n] = v]
<1>5. outcome \in [Nodes -> {"unset", "value", "none"}]
  BY <1>2
<1>6. \A m \in Nodes \ Run!Possible(e) : outcome[m] = result[e][m]
  BY <1>2, <1>3
<1>7. result' = [result EXCEPT ![e] = outcome]
  BY <1>2 DEF SetResult
<1> QED
  BY <1>4, <1>5, <1>6, <1>7 DEF Run!Settle

\* The next wave settles its nodes without a handler, or the execution returns.
LEMMA WaveSettles ==
    ASSUME IInv, NEW e \in Executions, NextWave(e)
    PROVE  Run!Settle(e) \/ Run!Return(e)
<1> DEFINE ready == Ready(e, pending[e] \ wave[e])
<1>1. Shape /\ ExecOK(e) /\ result \in [Executions -> [Nodes -> {"unset", "value", "none"}]]
  BY DEF IInv, Shape
<1>2. Run!Possible(e) = ready /\ phase[e] = "waves" /\ UNCHANGED deps
  BY <1>1, PossibleFacts DEF NextWave
<1> DEFINE outcome == [n \in Nodes |-> IF n \in ready \ Handled THEN "none" ELSE result[e][n]]
<1>3. result' = [result EXCEPT ![e] = outcome]
  BY <1>1 DEF NextWave
<1>4. phase' = [phase EXCEPT ![e] = IF ready = {} THEN "done" ELSE @]
  BY DEF NextWave
<1>5. outcome \in [Nodes -> {"unset", "value", "none"}]
  BY <1>1
<1>6. \A n \in Nodes \ ready : outcome[n] = result[e][n]
  OBVIOUS
<1> HIDE DEF ready
<1>7. CASE ready = {}
  <2>1. outcome = result[e]
    BY <1>1, <1>7
  <2> HIDE DEF outcome
  <2>2. result' = result
    BY <1>1, <1>3, <2>1
  <2> QED
    BY <1>2, <1>4, <1>7, <2>2 DEF Run!Return
<1>8. CASE ready # {}
  <2> HIDE DEF outcome
  <2>1. phase' = phase
    BY <1>1, <1>2, <1>4, <1>8 DEF Shape
  <2> QED
    BY <1>2, <1>3, <1>5, <1>6, <2>1 DEF Run!Settle
<1> QED
  BY <1>7, <1>8

\* Every step of the executor is one of the promise or leaves what it speaks of.
LEMMA RunStep == IInv /\ [Next]_vars => [Run!Next]_Run!vars
<1> SUFFICES ASSUME IInv, [Next]_vars PROVE Run!Next \/ UNCHANGED <<deps, result, phase>>
  BY DEF Run!vars
<1>1. ASSUME NEW e \in Executions, NextWave(e) PROVE Run!Next
  BY <1>1, WaveSettles DEF Run!Next
<1>2. ASSUME NEW e \in Executions, NEW n \in Nodes, NodeStep(e, n)
      PROVE  Run!Next \/ UNCHANGED <<deps, result, phase>>
  <2>1. running[e] \subseteq wave[e] /\ \A m \in running[e] : result[e][m] = "unset"
    BY DEF IInv, ExecOK
  <2>2. CASE Launch(e, n)
    <3>1. n \in wave[e] /\ result[e][n] = "unset" /\ UNCHANGED <<deps, phase>>
      BY <2>2 DEF Launch, Waiting
    <3>2. UNCHANGED result \/ SetResult(e, n, "none")
      BY <2>2 DEF Launch
    <3> QED
      BY <3>1, <3>2, NodeSettles DEF Run!Next
  <2>3. CASE Return(e, n)
    BY <2>1, <2>3, NodeSettles DEF Return, Run!Next
  <2>4. CASE Raise(e, n)
    BY <2>1, <2>4, NodeSettles DEF Raise, Run!Next
  <2> QED
    BY <1>2, <2>2, <2>3, <2>4 DEF NodeStep
<1>3. ASSUME NEW n \in Nodes, Tick(n) PROVE UNCHANGED <<deps, result, phase>>
  BY <1>3 DEF Tick
<1>4. CASE UNCHANGED vars
  BY <1>4 DEF vars
<1> QED
  BY <1>1, <1>2, <1>3, <1>4 DEF Next

\* Executing a pipeline in waves over shared breakers implements PipelineRun.
THEOREM Implements == Spec => RunsAsPromised
<1>1. Init => Run!Init
  BY DEF Init, Run!Init
<1> QED
  BY <1>1, Invariant, RunStep, PTL DEF Spec, RunsAsPromised, Run!Safe
=============================================================================
