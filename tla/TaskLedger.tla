----------------------------- MODULE TaskLedger -----------------------------
(***************************************************************************)
(* What the analysis service promises about a task, whatever happens       *)
(* between the API and the database: a task accepted into the stream is    *)
(* decided once, as completed (its row is stored) or as lost, the decision *)
(* is never revised, and an alert is raised only for a task that was       *)
(* accepted and is never withdrawn by the worker.                          *)
(***************************************************************************)
CONSTANT Tasks

VARIABLES status,   \* what has become of each task
          alerts    \* the tasks for which rule evaluation stored alerts

vars == <<status, alerts>>

Status == {"absent", "queued", "completed", "lost"}

TypeOK ==
    /\ status \in [Tasks -> Status]
    /\ alerts \subseteq Tasks

Init ==
    /\ status = [t \in Tasks |-> "absent"]
    /\ alerts = {}

Complete(t) ==
    /\ status[t] = "queued"
    /\ status' = [status EXCEPT ![t] = "completed"]
    /\ UNCHANGED alerts

(* One event may accept a task and lose others: a full stream drops its    *)
(* oldest entry when it takes a new one, a crash loses all that memory     *)
(* held.                                                                   *)
AcceptOrLose ==
    /\ status' \in [Tasks -> Status]
    /\ \A t \in Tasks :
         \/ status'[t] = status[t]
         \/ status[t] = "absent" /\ status'[t] = "queued"
         \/ status[t] = "queued" /\ status'[t] = "lost"
    /\ UNCHANGED alerts

RaiseAlert(t) ==
    /\ status[t] # "absent"
    /\ alerts' = alerts \cup {t}
    /\ UNCHANGED status

Next ==
    \/ \E t \in Tasks : Complete(t) \/ RaiseAlert(t)
    \/ AcceptOrLose

Safe == Init /\ [][Next]_vars

(* The service decides every task it accepted.                             *)
Decided ==
    \A t \in Tasks : status[t] = "queued" ~> status[t] \in {"completed", "lost"}

Spec == Safe /\ Decided
=============================================================================
