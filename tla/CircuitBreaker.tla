--------------------------- MODULE CircuitBreaker ---------------------------
(***************************************************************************)
(* One circuit breaker shared by concurrent coroutines: what `call` does   *)
(* before and after it awaits the protected function.  Between the two the *)
(* breaker may have opened, half-opened or closed under other callers, so  *)
(* a result is recorded in whatever state the breaker is in by then.       *)
(***************************************************************************)
EXTENDS Breaker

CONSTANT Callers   \* coroutines that may be inside `call` at the same time

VARIABLES
    breaker,  \* the CircuitBreaker object
    call,     \* call[c]: coroutine c is outside `call`, or awaits its function
    streak,   \* successes recorded since the last recorded failure or reset
    cooled    \* time since the breaker last opened

vars == <<breaker, call, streak, cooled>>

(* streak and cooled are for the properties and saturate where those stop  *)
(* telling values apart.                                                   *)
TypeOK ==
    /\ breaker \in Breakers
    /\ call \in [Callers -> {"outside", "awaiting"}]
    /\ streak \in 0..HalfOpenMaxCalls
    /\ cooled \in 0..RecoveryTimeout

Init ==
    /\ breaker = Fresh
    /\ call = [c \in Callers |-> "outside"]
    /\ streak = 0
    /\ cooled = RecoveryTimeout

Bump(n, top) == IF n < top THEN n + 1 ELSE n

(* Mutated: the rejection is raised inside the try, and so recorded.       *)
EnterCountsRejection(c) ==
    /\ call[c] = "outside"
    /\ LET seen == Observed(breaker)
       IN  IF seen.state = "open"
           THEN breaker' = AfterFailure(seen) /\ UNCHANGED call
           ELSE breaker' = seen /\ call' = [call EXCEPT ![c] = "awaiting"]
    /\ UNCHANGED <<streak, cooled>>

(* Mutated: the state is not asked before the function is awaited.         *)
EnterUnchecked(c) ==
    /\ call[c] = "outside"
    /\ call' = [call EXCEPT ![c] = "awaiting"]
    /\ UNCHANGED <<breaker, streak, cooled>>

(* `call` up to its await: refused with CircuitBreakerOpenError when open. *)
Enter(c) ==
    /\ call[c] = "outside"
    /\ LET seen == Observed(breaker)
       IN  /\ breaker' = seen
           /\ call' = IF seen.state = "open" THEN call ELSE [call EXCEPT ![c] = "awaiting"]
    /\ UNCHANGED <<streak, cooled>>

(* is_available and stats read the state property as well.                 *)
Look ==
    /\ breaker' = Observed(breaker)
    /\ UNCHANGED <<call, streak, cooled>>

Succeed(c) ==
    /\ call[c] = "awaiting"
    /\ call' = [call EXCEPT ![c] = "outside"]
    /\ breaker' = AfterSuccess(breaker)
    /\ streak' = Bump(streak, HalfOpenMaxCalls)
    /\ UNCHANGED cooled

Fail(c) ==
    /\ call[c] = "awaiting"
    /\ call' = [call EXCEPT ![c] = "outside"]
    /\ breaker' = AfterFailure(breaker)
    /\ streak' = 0
    /\ cooled' = IF breaker.state # "open" /\ breaker'.state = "open" THEN 0 ELSE cooled

(* CancelledError is no Exception: the call ends and nothing is recorded.  *)
Cancel(c) ==
    /\ call[c] = "awaiting"
    /\ call' = [call EXCEPT ![c] = "outside"]
    /\ UNCHANGED <<breaker, streak, cooled>>

Reset ==
    /\ breaker' = AfterReset(breaker)
    /\ streak' = 0
    /\ UNCHANGED <<call, cooled>>

Tick ==
    /\ breaker' = Older(breaker)
    /\ cooled' = Bump(cooled, RecoveryTimeout)
    /\ UNCHANGED <<call, streak>>

Leave(c) == Succeed(c) \/ Fail(c) \/ Cancel(c)

Next ==
    \/ \E c \in Callers : Enter(c) \/ Leave(c)
    \/ Look \/ Reset \/ Tick

(* Time passes, every protected function returns, raises or is cut off by  *)
(* its time limit, and somebody keeps calling.                             *)
Fairness ==
    /\ WF_vars(Tick)
    /\ \A c \in Callers : WF_vars(Leave(c)) /\ WF_vars(Enter(c))

Spec == Init /\ [][Next]_vars /\ Fairness

-----------------------------------------------------------------------------
(* Properties.                                                             *)

(* The breaker's numbers fit its state, whatever results arrive late: a    *)
(* closed breaker is below its threshold; one that opened is at it until   *)
(* it closes; a half-open one is short of the successes that close it, and *)
(* has counted none from before the last failure; and the clock of an open *)
(* one never runs ahead of the time since it opened.                       *)
BreakerConsistent ==
    /\ breaker.state = "closed" => breaker.failures < FailureThreshold
    /\ breaker.state # "closed" => breaker.failures = FailureThreshold
    /\ breaker.state = "half_open" => /\ breaker.probes < HalfOpenMaxCalls
                                      /\ breaker.probes <= streak
    /\ breaker.state = "open" => breaker.age <= cooled

(* A breaker recovers only on a clean run: when it closes without a reset, *)
(* the last HalfOpenMaxCalls results recorded were all successes.          *)
ClosesOnCleanRun ==
    [][breaker.state = "half_open" /\ breaker'.state = "closed"
       => streak' = HalfOpenMaxCalls \/ Reset]_vars

(* Nobody gets through while the breaker is open, and it stays open for at *)
(* least the recovery time unless it is reset.                             *)
CoolsDown ==
    [][/\ breaker.state = "open" /\ breaker'.state # "open"
          => cooled = RecoveryTimeout \/ Reset
       /\ \A c \in Callers :
            call[c] = "outside" /\ call'[c] = "awaiting" => breaker'.state # "open"]_vars

(* An open breaker lets calls through again: refused calls and results of  *)
(* calls let in earlier cannot keep it open for ever.                      *)
EventuallyTriesAgain == breaker.state = "open" ~> breaker.state # "open"

=============================================================================
