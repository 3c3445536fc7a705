------------------------------- MODULE Breaker ------------------------------
(***************************************************************************)
(* The transitions of one circuit breaker                                  *)
(* (src/src/resilience/circuit_breaker.py) as operators on its value, for  *)
(* the modules that hold breakers: CircuitBreaker (one, called by anybody) *)
(* and DAGExecutor (one per node id).                                      *)
(*                                                                         *)
(* The clock readings are abstracted to `age`, the time since the last     *)
(* recorded failure, which the code only ever compares with the recovery   *)
(* timeout: it saturates there.                                            *)
(***************************************************************************)
EXTENDS Naturals

CONSTANTS
    FailureThreshold,  \* failure_threshold
    RecoveryTimeout,   \* recovery_timeout, in ticks
    HalfOpenMaxCalls   \* half_open_max_calls

ASSUME BreakerAssumption ==
    /\ FailureThreshold \in Nat \ {0}
    /\ RecoveryTimeout \in Nat \ {0}
    /\ HalfOpenMaxCalls \in Nat \ {0}

Breakers == [state    : {"closed", "open", "half_open"},
             failures : 0..FailureThreshold,   \* _failure_count
             probes   : 0..HalfOpenMaxCalls,   \* _half_open_calls
             age      : 0..RecoveryTimeout]

(* _last_failure_time starts at 0.0, long ago on the monotonic clock.      *)
Fresh == [state |-> "closed", failures |-> 0, probes |-> 0, age |-> RecoveryTimeout]

Value(state, failures, probes, age) ==
    [state |-> state, failures |-> failures, probes |-> probes, age |-> age]

Older(b) ==
    Value(b.state, b.failures, b.probes,
          IF b.age < RecoveryTimeout THEN b.age + 1 ELSE b.age)

(* Mutated: the count of an earlier half-open period is kept.              *)
ObservedKeepsProbes(b) ==
    IF b.state = "open" /\ b.age >= RecoveryTimeout
    THEN Value("half_open", b.failures, b.probes, b.age)
    ELSE b

(* Reading the `state` property: the only place where an open breaker      *)
(* turns half-open.                                                        *)
Observed(b) ==
    IF b.state = "open" /\ b.age >= RecoveryTimeout
    THEN Value("half_open", b.failures, 0, b.age)
    ELSE b

(* Mutated: the breaker closes with its failure count left standing.       *)
AfterSuccessKeepsCount(b) ==
    CASE b.state # "half_open" -> b
      [] b.state = "half_open" /\ b.probes + 1 < HalfOpenMaxCalls ->
           Value("half_open", b.failures, b.probes + 1, b.age)
      [] b.state = "half_open" /\ b.probes + 1 >= HalfOpenMaxCalls ->
           Value("closed", b.failures, HalfOpenMaxCalls, b.age)

(* record_success: it counts in the half-open state alone; a success in    *)
(* the closed state leaves the failure count as it is.                     *)
AfterSuccess(b) ==
    CASE b.state # "half_open" -> b
      [] b.state = "half_open" /\ b.probes + 1 < HalfOpenMaxCalls ->
           Value("half_open", b.failures, b.probes + 1, b.age)
      [] b.state = "half_open" /\ b.probes + 1 >= HalfOpenMaxCalls ->
           Value("closed", 0, b.probes + 1, b.age)

(* Mutated: every failure counts, in whatever state it arrives.            *)
AfterFailureAlwaysCounts(b) ==
    Value(IF b.failures + 1 >= FailureThreshold THEN "open" ELSE b.state,
          b.failures + 1, b.probes, 0)

(* record_failure: whatever the state, the recovery time starts anew; the  *)
(* failure is counted in the closed state alone.                           *)
AfterFailure(b) ==
    CASE b.state # "closed" -> Value("open", b.failures, b.probes, 0)
      [] b.state = "closed" /\ b.failures + 1 < FailureThreshold ->
           Value("closed", b.failures + 1, b.probes, 0)
      [] b.state = "closed" /\ b.failures + 1 >= FailureThreshold ->
           Value("open", b.failures + 1, b.probes, 0)

AfterReset(b) == Value("closed", 0, 0, b.age)
=============================================================================
