------------------------ MODULE CircuitBreakerProofs ------------------------
(***************************************************************************)
(* Proofs about CircuitBreaker, for every threshold, timeout, number of    *)
(* half-open successes and set of callers.  The inductive invariant is     *)
(* type correctness together with BreakerConsistent.                       *)
(***************************************************************************)
EXTENDS CircuitBreaker, TLAPS

IInv == TypeOK /\ BreakerConsistent

(* What the operators of Breaker do to a well-typed breaker.               *)

LEMMA ObservedType ==
    ASSUME NEW b \in Breakers
    PROVE  /\ Observed(b) \in Breakers
           /\ b.state # "open" => Observed(b) = b
           /\ b.state = "open" /\ b.age < RecoveryTimeout => Observed(b) = b
           /\ b.state = "open" /\ b.age >= RecoveryTimeout =>
                /\ Observed(b).state = "half_open"
                /\ Observed(b).probes = 0
                /\ Observed(b).failures = b.failures
BY BreakerAssumption DEF Observed, Breakers, Value

LEMMA OlderType ==
    ASSUME NEW b \in Breakers
    PROVE  /\ Older(b) \in Breakers
           /\ Older(b).state = b.state
           /\ Older(b).failures = b.failures
           /\ Older(b).probes = b.probes
           /\ Older(b).age = IF b.age < RecoveryTimeout THEN b.age + 1 ELSE b.age
BY BreakerAssumption DEF Older, Breakers, Value

LEMMA AfterSuccessType ==
    ASSUME NEW b \in Breakers,
           b.state = "half_open" => b.probes < HalfOpenMaxCalls
    PROVE  /\ AfterSuccess(b) \in Breakers
           /\ b.state # "half_open" => AfterSuccess(b) = b
           /\ b.state = "half_open" /\ b.probes + 1 < HalfOpenMaxCalls =>
                /\ AfterSuccess(b).state = "half_open"
                /\ AfterSuccess(b).probes = b.probes + 1
                /\ AfterSuccess(b).failures = b.failures
           /\ b.state = "half_open" /\ b.probes + 1 >= HalfOpenMaxCalls =>
                /\ AfterSuccess(b).state = "closed"
                /\ AfterSuccess(b).failures = 0
<1>1. CASE b.state # "half_open"
  BY <1>1 DEF AfterSuccess
<1>2. CASE b.state = "half_open" /\ b.probes + 1 < HalfOpenMaxCalls
  BY <1>2, BreakerAssumption DEF AfterSuccess, Breakers, Value
<1>3. CASE b.state = "half_open" /\ b.probes + 1 >= HalfOpenMaxCalls
  BY <1>3, BreakerAssumption DEF AfterSuccess, Breakers, Value
<1>4. QED
  BY <1>1, <1>2, <1>3, BreakerAssumption DEF Breakers

LEMMA AfterFailureType ==
    ASSUME NEW b \in Breakers,
           b.state = "closed" => b.failures < FailureThreshold
    PROVE  /\ AfterFailure(b) \in Breakers
           /\ AfterFailure(b).age = 0
           /\ b.state # "closed" => /\ AfterFailure(b).state = "open"
                                    /\ AfterFailure(b).failures = b.failures
           /\ b.state = "closed" /\ b.failures + 1 >= FailureThreshold =>
                /\ AfterFailure(b).state = "open"
                /\ AfterFailure(b).failures = FailureThreshold
           /\ b.state = "closed" /\ b.failures + 1 < FailureThreshold =>
                /\ AfterFailure(b).state = "closed"
                /\ AfterFailure(b).failures = b.failures + 1
<1>1. CASE b.state # "closed"
  BY <1>1, BreakerAssumption DEF AfterFailure, Breakers, Value
<1>2. CASE b.state = "closed" /\ b.failures + 1 < FailureThreshold
  BY <1>2, BreakerAssumption DEF AfterFailure, Breakers, Value
<1>3. CASE b.state = "closed" /\ b.failures + 1 >= FailureThreshold
  BY <1>3, BreakerAssumption DEF AfterFailure, Breakers, Value
<1>4. QED
  BY <1>1, <1>2, <1>3, BreakerAssumption DEF Breakers

LEMMA AfterResetType ==
    ASSUME NEW b \in Breakers
    PROVE  /\ AfterReset(b) \in Breakers
           /\ AfterReset(b).state = "closed"
           /\ AfterReset(b).failures = 0
BY BreakerAssumption DEF AfterReset, Breakers, Value

LEMMA BumpType ==
    ASSUME NEW top \in Nat, NEW n \in 0..top
    PROVE  /\ Bump(n, top) \in 0..top
           /\ Bump(n, top) = IF n < top THEN n + 1 ELSE top
BY DEF Bump

-----------------------------------------------------------------------------
(* The invariant is inductive.                                             *)

LEMMA InitInvariant == Init => IInv
BY BreakerAssumption DEF Init, IInv, TypeOK, BreakerConsistent, Breakers, Fresh

LEMMA EnterInvariant ==
    ASSUME IInv, NEW c \in Callers, Enter(c)
    PROVE  IInv'
<1> DEFINE seen == Observed(breaker)
<1>1. breaker' = seen /\ seen \in Breakers
  BY ObservedType DEF Enter, IInv, TypeOK
<1>2. call' \in [Callers -> {"outside", "awaiting"}]
  BY DEF Enter, IInv, TypeOK
<1>3. TypeOK'
  BY <1>1, <1>2 DEF Enter, IInv, TypeOK
<1>4. BreakerConsistent'
  BY <1>1, ObservedType, BreakerAssumption
     DEF Enter, IInv, TypeOK, BreakerConsistent, Breakers
<1>5. QED
  BY <1>3, <1>4 DEF IInv

LEMMA LookInvariant ==
    ASSUME IInv, Look
    PROVE  IInv'
<1>1. breaker' = Observed(breaker) /\ breaker' \in Breakers
  BY ObservedType DEF Look, IInv, TypeOK
<1>2. TypeOK'
  BY <1>1 DEF Look, IInv, TypeOK
<1>3. BreakerConsistent'
  BY <1>1, ObservedType, BreakerAssumption
     DEF Look, IInv, TypeOK, BreakerConsistent, Breakers
<1>4. QED
  BY <1>2, <1>3 DEF IInv

LEMMA SucceedInvariant ==
    ASSUME IInv, NEW c \in Callers, Succeed(c)
    PROVE  IInv'
<1>1. /\ breaker' = AfterSuccess(breaker)
      /\ breaker' \in Breakers
  BY AfterSuccessType DEF Succeed, IInv, TypeOK, BreakerConsistent
<1>2. /\ streak' \in 0..HalfOpenMaxCalls
      /\ streak' = IF streak < HalfOpenMaxCalls THEN streak + 1 ELSE HalfOpenMaxCalls
  BY BumpType, BreakerAssumption DEF Succeed, IInv, TypeOK
<1>3. TypeOK'
  BY <1>1, <1>2 DEF Succeed, IInv, TypeOK
<1>4. CASE breaker.state # "half_open"
  <2>1. breaker' = breaker
    BY <1>1, <1>4, AfterSuccessType DEF IInv, TypeOK, BreakerConsistent
  <2>2. QED
    BY <2>1, <1>3, <1>4 DEF Succeed, IInv, BreakerConsistent
<1>5. CASE breaker.state = "half_open"
  BY <1>1, <1>2, <1>3, <1>5, AfterSuccessType, BreakerAssumption
     DEF Succeed, IInv, TypeOK, BreakerConsistent, Breakers
<1>6. QED
  BY <1>4, <1>5

LEMMA FailInvariant ==
    ASSUME IInv, NEW c \in Callers, Fail(c)
    PROVE  IInv'
<1>1. /\ breaker' = AfterFailure(breaker)
      /\ breaker' \in Breakers
      /\ breaker'.age = 0
  BY AfterFailureType DEF Fail, IInv, TypeOK, BreakerConsistent
<1>2. TypeOK'
  BY <1>1, BreakerAssumption DEF Fail, IInv, TypeOK
<1>3. /\ breaker'.state \in {"open", "closed"}
      /\ breaker'.state = "open" => breaker'.failures = FailureThreshold
      /\ breaker'.state = "closed" => breaker'.failures < FailureThreshold
  BY <1>1, AfterFailureType, BreakerAssumption
     DEF IInv, TypeOK, BreakerConsistent, Breakers
<1>4. BreakerConsistent'
  BY <1>1, <1>2, <1>3, BreakerAssumption DEF TypeOK, BreakerConsistent, Breakers
<1>5. QED
  BY <1>2, <1>4 DEF IInv

LEMMA CancelInvariant ==
    ASSUME IInv, NEW c \in Callers, Cancel(c)
    PROVE  IInv'
BY DEF Cancel, IInv, TypeOK, BreakerConsistent

LEMMA ResetInvariant ==
    ASSUME IInv, Reset
    PROVE  IInv'
<1>1. /\ breaker' \in Breakers
      /\ breaker'.state = "closed"
      /\ breaker'.failures = 0
  BY AfterResetType DEF Reset, IInv, TypeOK
<1>2. QED
  BY <1>1, BreakerAssumption DEF Reset, IInv, TypeOK, BreakerConsistent

LEMMA TickInvariant ==
    ASSUME IInv, Tick
    PROVE  IInv'
<1>1. /\ breaker' = Older(breaker)
      /\ breaker' \in Breakers
      /\ breaker'.state = breaker.state
      /\ breaker'.failures = breaker.failures
      /\ breaker'.probes = breaker.probes
      /\ breaker'.age = IF breaker.age < RecoveryTimeout THEN breaker.age + 1
                        ELSE breaker.age
  BY OlderType DEF Tick, IInv, TypeOK
<1>2. /\ cooled' \in 0..RecoveryTimeout
      /\ cooled' = IF cooled < RecoveryTimeout THEN cooled + 1 ELSE RecoveryTimeout
  BY BumpType, BreakerAssumption DEF Tick, IInv, TypeOK
<1>3. QED
  BY <1>1, <1>2, BreakerAssumption DEF Tick, IInv, TypeOK, BreakerConsistent, Breakers

LEMMA NextInvariant == IInv /\ [Next]_vars => IInv'
<1> SUFFICES ASSUME IInv, [Next]_vars PROVE IInv'
  OBVIOUS
<1>1. ASSUME NEW c \in Callers, Enter(c) PROVE IInv'
  BY <1>1, EnterInvariant
<1>2. ASSUME NEW c \in Callers, Leave(c) PROVE IInv'
  BY <1>2, SucceedInvariant, FailInvariant, CancelInvariant DEF Leave
<1>3. CASE Look
  BY <1>3, LookInvariant
<1>4. CASE Reset
  BY <1>4, ResetInvariant
<1>5. CASE Tick
  BY <1>5, TickInvariant
<1>6. CASE UNCHANGED vars
  BY <1>6 DEF vars, IInv, TypeOK, BreakerConsistent
<1>7. QED
  BY <1>1, <1>2, <1>3, <1>4, <1>5, <1>6 DEF Next

(* The inductive invariant holds in every reachable state.                 *)
LEMMA Invariance == Spec => []IInv
BY InitInvariant, NextInvariant, PTL DEF Spec

(* Type correctness: the failure and half-open counters never pass their   *)
(* limits, however many results of earlier calls arrive late.              *)
THEOREM TypeCorrect == Spec => []TypeOK
<1>1. IInv => TypeOK
  BY DEF IInv
<1>2. QED
  BY Invariance, <1>1, PTL

(* The breaker's counters and clock fit its state.                         *)
THEOREM Consistency == Spec => []BreakerConsistent
<1>1. IInv => BreakerConsistent
  BY DEF IInv
<1>2. QED
  BY Invariance, <1>1, PTL

-----------------------------------------------------------------------------
(* The action properties.                                                  *)

(* A breaker that closes without a reset does so on HalfOpenMaxCalls       *)
(* successes recorded in a row: results of calls let in before it opened   *)
(* may be among them, a failure never is.                                  *)
THEOREM CleanRun == Spec => ClosesOnCleanRun
<1> DEFINE Clean == breaker.state = "half_open" /\ breaker'.state = "closed"
                    => streak' = HalfOpenMaxCalls \/ Reset
<1>1. IInv /\ [Next]_vars => [Clean]_vars
  <2> SUFFICES ASSUME IInv, Next, breaker.state = "half_open",
                      breaker'.state = "closed"
               PROVE  streak' = HalfOpenMaxCalls \/ Reset
    OBVIOUS
  <2>1. ASSUME NEW c \in Callers, Enter(c) PROVE FALSE
    BY <2>1, ObservedType DEF Enter, IInv, TypeOK, Breakers
  <2>2. ASSUME NEW c \in Callers, Succeed(c) PROVE streak' = HalfOpenMaxCalls
    <3>1. breaker.probes + 1 >= HalfOpenMaxCalls
      BY <2>2, AfterSuccessType, BreakerAssumption
         DEF Succeed, IInv, TypeOK, BreakerConsistent, Breakers
    <3>2. breaker.probes <= streak
      BY DEF IInv, BreakerConsistent
    <3>3. streak' = IF streak < HalfOpenMaxCalls THEN streak + 1 ELSE HalfOpenMaxCalls
      BY <2>2, BumpType, BreakerAssumption DEF Succeed, IInv, TypeOK
    <3>4. QED
      BY <3>1, <3>2, <3>3, BreakerAssumption DEF IInv, TypeOK, Breakers
  <2>3. ASSUME NEW c \in Callers, Fail(c) PROVE FALSE
    BY <2>3, AfterFailureType DEF Fail, IInv, TypeOK, BreakerConsistent
  <2>4. ASSUME NEW c \in Callers, Cancel(c) PROVE FALSE
    BY <2>4 DEF Cancel
  <2>5. CASE Look
    BY <2>5, ObservedType DEF Look, IInv, TypeOK, Breakers
  <2>6. CASE Tick
    BY <2>6, OlderType DEF Tick, IInv, TypeOK
  <2>7. QED
    BY <2>1, <2>2, <2>3, <2>4, <2>5, <2>6 DEF Next, Leave
<1>2. QED
  BY Invariance, <1>1, PTL DEF Spec, ClosesOnCleanRun

(* An open breaker lets nobody through and stays open for the recovery     *)
(* time, unless it is reset.                                               *)
THEOREM Cooling == Spec => CoolsDown
<1> DEFINE Waits == breaker.state = "open" /\ breaker'.state # "open"
                    => cooled = RecoveryTimeout \/ Reset
           Refuses == \A c \in Callers :
                        call[c] = "outside" /\ call'[c] = "awaiting"
                        => breaker'.state # "open"
<1>1. IInv /\ Next => Waits
  <2> SUFFICES ASSUME IInv, Next, breaker.state = "open", breaker'.state # "open"
               PROVE  cooled = RecoveryTimeout \/ Reset
    OBVIOUS
  <2>1. ASSUME breaker' = Observed(breaker) PROVE cooled = RecoveryTimeout
    BY <2>1, ObservedType, BreakerAssumption DEF IInv, TypeOK, BreakerConsistent, Breakers
  <2>2. ASSUME NEW c \in Callers, Enter(c) PROVE cooled = RecoveryTimeout
    BY <2>1, <2>2 DEF Enter
  <2>3. ASSUME NEW c \in Callers, Succeed(c) PROVE FALSE
    BY <2>3, AfterSuccessType DEF Succeed, IInv, TypeOK, BreakerConsistent
  <2>4. ASSUME NEW c \in Callers, Fail(c) PROVE FALSE
    BY <2>4, AfterFailureType DEF Fail, IInv, TypeOK, BreakerConsistent
  <2>5. ASSUME NEW c \in Callers, Cancel(c) PROVE FALSE
    BY <2>5 DEF Cancel
  <2>6. CASE Look
    BY <2>1, <2>6 DEF Look
  <2>7. CASE Tick
    BY <2>7, OlderType DEF Tick, IInv, TypeOK
  <2>8. QED
    BY <2>2, <2>3, <2>4, <2>5, <2>6, <2>7 DEF Next, Leave
<1>2. IInv /\ Next => Refuses
  <2> SUFFICES ASSUME IInv, Next, NEW c \in Callers,
                      call[c] = "outside", call'[c] = "awaiting"
               PROVE  breaker'.state # "open"
    OBVIOUS
  <2>1. ASSUME NEW d \in Callers, Enter(d) PROVE breaker'.state # "open"
    BY <2>1 DEF Enter, IInv, TypeOK
  <2>2. ASSUME NEW d \in Callers, Leave(d) PROVE FALSE
    BY <2>2 DEF Leave, Succeed, Fail, Cancel, IInv, TypeOK
  <2>3. ASSUME Look \/ Reset \/ Tick PROVE FALSE
    BY <2>3 DEF Look, Reset, Tick
  <2>4. QED
    BY <2>1, <2>2, <2>3 DEF Next
<1>3. IInv /\ [Next]_vars => [Waits /\ Refuses]_vars
  BY <1>1, <1>2
<1>4. QED
  BY Invariance, <1>3, PTL DEF Spec, CoolsDown
=============================================================================
