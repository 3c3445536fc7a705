------------------------------- MODULE Worker -------------------------------
(***************************************************************************)
(* The worker process (src/src/worker.py) and the Redis stream it reads    *)
(* (src/src/queue/redis_streams.py).  The API pushes one entry per task;   *)
(* the consume loop takes entries one at a time, starts a coroutine for    *)
(* each and acknowledges the entry; the coroutine passes a semaphore, runs *)
(* the fast path or the agent and hands the result to two bounded queues,  *)
(* one drained into the database, the other into rule evaluation.          *)
(*                                                                         *)
(* A step is what the event loop runs between two awaits.                  *)
(***************************************************************************)
EXTENDS Naturals, Sequences, FiniteSets

CONSTANTS
    Tasks,          \* the tasks the API creates, each with an id of its own
    NoTask,         \* "no task": the idle value of a slot
    Malformed,      \* tasks whose stream entry is not JSON
    Routed,         \* tasks the scene router has a pipeline for
    Decodable,      \* tasks whose frame decodes to an image
    MaxConcurrent,  \* worker.max_concurrent
    DbQueueSize,    \* worker.db_queue_size
    RuleQueueSize,  \* worker.rule_queue_size
    StreamMaxLen,   \* maxlen of the XADD
    MaxCrashes      \* bound of the model: how often the process may die

ASSUME WorkerAssumption ==
    /\ NoTask \notin Tasks
    /\ Malformed \subseteq Tasks
    /\ Routed \subseteq Tasks
    /\ Decodable \subseteq Tasks
    /\ IsFiniteSet(Tasks)
    /\ MaxConcurrent \in Nat \ {0}
    /\ DbQueueSize \in Nat \ {0}
    /\ RuleQueueSize \in Nat \ {0}
    /\ StreamMaxLen \in Nat \ {0}
    /\ MaxCrashes \in Nat

VARIABLES
    pushed,    \* tasks whose XADD succeeded
    stream,    \* entries not yet delivered to the consumer group, oldest first
    pel,       \* the group's pending entries: delivered, not acknowledged
    up,        \* the worker process is running
    crashes,   \* how often it has died
    reader,    \* where the consume loop stands
    inHand,    \* the entry the consume loop is busy with
    job,       \* the coroutine of each task
    lineup,    \* coroutines waiting for the semaphore, first come first served
    permits,   \* the semaphore's value
    dbq,       \* _db_queue
    ruleq,     \* _rule_queue
    dbBusy,    \* the entry _db_worker is writing
    ruleBusy,  \* the entry _rule_worker is evaluating
    rows,      \* tasks with a committed Task row
    alerted,   \* tasks with committed alerts
    fate       \* what the log (or nobody) says of a task's save

streamVars  == <<pushed, stream, pel>>
processVars == <<up, crashes>>
readerVars  == <<reader, inHand>>
jobVars     == <<job, lineup, permits>>
dbVars      == <<dbq, dbBusy, rows>>
ruleVars    == <<ruleq, ruleBusy, alerted>>
vars == <<streamVars, processVars, readerVars, jobVars, dbVars, ruleVars, fate>>

-----------------------------------------------------------------------------
(* The coroutine of a task: "none" before it is created, "waiting" for the *)
(* semaphore, then "fast", "agent", "saving" (its result is there, the     *)
(* event is being published), "dbput" and "ruleput" (in the five-second    *)
(* wait on a full queue), and "gone" once it ended or died.                *)
Holding   == {"fast", "agent", "saving", "dbput", "ruleput"}
JobState  == {"none", "waiting", "gone"} \cup Holding
Fate      == {"open", "trimmed", "failed", "skipped", "dbfailed", "crashed"}

Elements(s) == {s[i] : i \in 1..Len(s)}

Holders  == {t \in Tasks : job[t] \in Holding}

(* Tasks the process holds in memory whose row may still be written.       *)
InMemory ==
    {t \in Tasks : \/ job[t] \in {"waiting", "fast", "agent", "saving", "dbput"}
                   \/ t \in Elements(dbq) \cup {dbBusy}
                   \/ reader = "handed" /\ t = inHand}

TypeOK ==
    /\ pushed \subseteq Tasks /\ pel \subseteq Tasks
    /\ stream \in Seq(Tasks)
    /\ up \in BOOLEAN /\ crashes \in 0..MaxCrashes
    /\ reader \in {"reading", "handed", "acking"}
    /\ inHand \in Tasks \cup {NoTask}
    /\ job \in [Tasks -> JobState]
    /\ lineup \in Seq(Tasks)
    /\ permits \in 0..MaxConcurrent
    /\ dbq \in Seq(Tasks) /\ Len(dbq) <= DbQueueSize
    /\ ruleq \in Seq(Tasks) /\ Len(ruleq) <= RuleQueueSize
    /\ dbBusy \in Tasks \cup {NoTask} /\ ruleBusy \in Tasks \cup {NoTask}
    /\ rows \subseteq Tasks /\ alerted \subseteq Tasks
    /\ fate \in [Tasks -> Fate]

Init ==
    /\ pushed = {} /\ stream = <<>> /\ pel = {}
    /\ up = TRUE /\ crashes = 0
    /\ reader = "reading" /\ inHand = NoTask
    /\ job = [t \in Tasks |-> "none"] /\ lineup = <<>>
    /\ permits = MaxConcurrent
    /\ dbq = <<>> /\ dbBusy = NoTask /\ rows = {}
    /\ ruleq = <<>> /\ ruleBusy = NoTask /\ alerted = {}
    /\ fate = [t \in Tasks |-> "open"]

-----------------------------------------------------------------------------
(* The stream.                                                             *)

(* XADD with MAXLEN.  Redis trims approximately: it keeps at least         *)
(* StreamMaxLen entries and may drop the oldest beyond them, delivered or  *)
(* not.                                                                    *)
Push(t) ==
    /\ t \notin pushed
    /\ pushed' = pushed \cup {t}
    /\ \/ /\ stream' = Append(stream, t)
          /\ UNCHANGED fate
       \/ /\ Len(stream) >= StreamMaxLen
          /\ stream' = Append(Tail(stream), t)
          /\ fate' = [fate EXCEPT ![Head(stream)] = "trimmed"]
    /\ UNCHANGED <<pel, processVars, readerVars, jobVars, dbVars, ruleVars>>

(* XREADGROUP ">" count=1: the server moves one entry to the pending list. *)
Deliver ==
    /\ up /\ reader = "reading" /\ stream # <<>>
    /\ stream' = Tail(stream)
    /\ pel' = pel \cup {Head(stream)}
    /\ reader' = "handed" /\ inHand' = Head(stream)
    /\ UNCHANGED <<pushed, processVars, jobVars, dbVars, ruleVars, fate>>

(* The consume loop yields the entry; run_worker creates a task for it and *)
(* asks for the next one at once, which is where the generator sends XACK. *)
Spawn ==
    /\ up /\ reader = "handed"
    /\ job' = [job EXCEPT ![inHand] = "waiting"]
    /\ lineup' = Append(lineup, inHand)
    /\ reader' = "acking"
    /\ UNCHANGED <<streamVars, processVars, inHand, permits, dbVars, ruleVars, fate>>

(* Mutated: the entry is never acknowledged.                               *)
AckForgotten ==
    /\ up /\ reader = "acking"
    /\ reader' = "reading" /\ inHand' = NoTask
    /\ UNCHANGED <<streamVars, processVars, jobVars, dbVars, ruleVars, fate>>

Ack ==
    /\ up /\ reader = "acking"
    /\ pel' = pel \ {inHand}
    /\ reader' = "reading" /\ inHand' = NoTask
    /\ UNCHANGED <<pushed, stream, processVars, jobVars, dbVars, ruleVars, fate>>

-----------------------------------------------------------------------------
(* The coroutine of one task.                                              *)

(* The coroutine ends; `async with self._semaphore` gives the permit back. *)
Leave(t) ==
    /\ job' = [job EXCEPT ![t] = "gone"]
    /\ permits' = permits + 1

Acquire ==
    /\ up /\ permits > 0 /\ lineup # <<>>
    /\ LET t == Head(lineup)
       IN  IF t \in Malformed
           THEN \* json.loads raises inside the semaphore: logged and dropped
                /\ job' = [job EXCEPT ![t] = "gone"]
                /\ fate' = [fate EXCEPT ![t] = "failed"]
                /\ UNCHANGED permits
           ELSE /\ job' = [job EXCEPT ![t] = "fast"]
                /\ permits' = permits - 1
                /\ UNCHANGED fate
    /\ lineup' = Tail(lineup)
    /\ UNCHANGED <<streamVars, processVars, readerVars, dbVars, ruleVars>>

(* fast_path.process returned: a result if the task is routed, else None   *)
(* and the agent is asked.                                                 *)
FastPath(t) ==
    /\ up /\ job[t] = "fast"
    /\ job' = [job EXCEPT ![t] = IF t \in Routed THEN "saving" ELSE "agent"]
    /\ UNCHANGED <<streamVars, processVars, readerVars, lineup, permits, dbVars,
                   ruleVars, fate>>

(* agent.analyze answered.  It tests `if image_data` on the decoded array, *)
(* which raises for every frame that decodes: only a task without an image *)
(* gets an answer.                                                         *)
Agent(t) ==
    /\ up /\ job[t] = "agent" /\ t \notin Decodable
    /\ job' = [job EXCEPT ![t] = "saving"]
    /\ UNCHANGED <<streamVars, processVars, readerVars, lineup, permits, dbVars,
                   ruleVars, fate>>

(* Mutated: the exception leaves the semaphore taken.                      *)
RaiseKeepsPermit(t) ==
    /\ up /\ job[t] \in {"fast", "agent"}
    /\ job' = [job EXCEPT ![t] = "gone"]
    /\ fate' = [fate EXCEPT ![t] = "failed"]
    /\ UNCHANGED <<streamVars, processVars, readerVars, lineup, permits, dbVars, ruleVars>>

(* An exception in either path is logged by _process_with_semaphore.       *)
Raise(t) ==
    /\ up /\ job[t] \in {"fast", "agent"}
    /\ Leave(t)
    /\ fate' = [fate EXCEPT ![t] = "failed"]
    /\ UNCHANGED <<streamVars, processVars, readerVars, lineup, dbVars, ruleVars>>

-----------------------------------------------------------------------------
(* _enqueue_save.                                                          *)

(* The rule queue's turn, in the same step as the end of the save turn.    *)
RuleTurn(t) ==
    IF Len(ruleq) < RuleQueueSize
    THEN ruleq' = Append(ruleq, t) /\ Leave(t)
    ELSE job' = [job EXCEPT ![t] = "ruleput"] /\ UNCHANGED <<ruleq, permits>>

(* Mutated: the queue has no maxsize.                                      *)
SaveUnbounded(t) ==
    /\ up /\ job[t] = "saving"
    /\ dbq' = Append(dbq, t) /\ RuleTurn(t)
    /\ UNCHANGED <<streamVars, processVars, readerVars, lineup, dbBusy, rows,
                   ruleBusy, alerted, fate>>

(* Mutated: QueueFull is swallowed without the wait.                       *)
SaveSwallowsFull(t) ==
    /\ up /\ job[t] = "saving"
    /\ dbq' = IF Len(dbq) < DbQueueSize THEN Append(dbq, t) ELSE dbq
    /\ RuleTurn(t)
    /\ UNCHANGED <<streamVars, processVars, readerVars, lineup, dbBusy, rows,
                   ruleBusy, alerted, fate>>

(* Mutated: the rule queue gets the result before the save queue does.     *)
SaveAfterRules(t) ==
    /\ up /\ job[t] = "saving" /\ Len(ruleq) < RuleQueueSize
    /\ ruleq' = Append(ruleq, t)
    /\ IF Len(dbq) < DbQueueSize
       THEN dbq' = Append(dbq, t) /\ Leave(t)
       ELSE job' = [job EXCEPT ![t] = "dbput"] /\ UNCHANGED <<dbq, permits>>
    /\ UNCHANGED <<streamVars, processVars, readerVars, lineup, dbBusy, rows,
                   ruleBusy, alerted, fate>>

(* put_nowait on the database queue: on QueueFull the wait_for begins.     *)
SaveNow(t) ==
    /\ up /\ job[t] = "saving"
    /\ IF Len(dbq) < DbQueueSize
       THEN dbq' = Append(dbq, t) /\ RuleTurn(t)
       ELSE job' = [job EXCEPT ![t] = "dbput"] /\ UNCHANGED <<dbq, ruleq, permits>>
    /\ UNCHANGED <<streamVars, processVars, readerVars, lineup, dbBusy, rows,
                   ruleBusy, alerted, fate>>

(* The wait is over: the queue has room.  A put_nowait of another task may *)
(* take a freed slot before the waiting put runs, so any waiter may win.   *)
DbPut(t) ==
    /\ up /\ job[t] = "dbput" /\ Len(dbq) < DbQueueSize
    /\ dbq' = Append(dbq, t)
    /\ RuleTurn(t)
    /\ UNCHANGED <<streamVars, processVars, readerVars, lineup, dbBusy, rows,
                   ruleBusy, alerted, fate>>

(* Five seconds passed: the save is skipped, the rule queue gets its turn. *)
DbPutTimeout(t) ==
    /\ up /\ job[t] = "dbput"
    /\ fate' = [fate EXCEPT ![t] = "skipped"]
    /\ RuleTurn(t)
    /\ UNCHANGED <<streamVars, processVars, readerVars, lineup, dbVars, ruleBusy, alerted>>

RulePut(t) ==
    /\ up /\ job[t] = "ruleput" /\ Len(ruleq) < RuleQueueSize
    /\ ruleq' = Append(ruleq, t)
    /\ Leave(t)
    /\ UNCHANGED <<streamVars, processVars, readerVars, lineup, dbVars, ruleBusy,
                   alerted, fate>>

RulePutTimeout(t) ==
    /\ up /\ job[t] = "ruleput"
    /\ Leave(t)
    /\ UNCHANGED <<streamVars, processVars, readerVars, lineup, dbVars, ruleVars, fate>>

-----------------------------------------------------------------------------
(* The two drains.                                                         *)

DbTake ==
    /\ up /\ dbBusy = NoTask /\ dbq # <<>>
    /\ dbBusy' = Head(dbq) /\ dbq' = Tail(dbq)
    /\ UNCHANGED <<streamVars, processVars, readerVars, jobVars, rows, ruleVars, fate>>

DbCommit ==
    /\ up /\ dbBusy # NoTask
    /\ rows' = rows \cup {dbBusy}
    /\ dbBusy' = NoTask
    /\ UNCHANGED <<streamVars, processVars, readerVars, jobVars, dbq, ruleVars, fate>>

(* Any exception of the transaction is logged; the entry is not retried.   *)
DbFail ==
    /\ up /\ dbBusy # NoTask
    /\ fate' = [fate EXCEPT ![dbBusy] = "dbfailed"]
    /\ dbBusy' = NoTask
    /\ UNCHANGED <<streamVars, processVars, readerVars, jobVars, dbq, rows, ruleVars>>

RuleTake ==
    /\ up /\ ruleBusy = NoTask /\ ruleq # <<>>
    /\ ruleBusy' = Head(ruleq) /\ ruleq' = Tail(ruleq)
    /\ UNCHANGED <<streamVars, processVars, readerVars, jobVars, dbVars, alerted, fate>>

(* _evaluate_rules_for_task: alerts were committed, or nothing matched, or *)
(* an exception discarded them (module RuleEvaluation has the detail).     *)
RuleDone ==
    /\ up /\ ruleBusy # NoTask
    /\ alerted' \in {alerted, alerted \cup {ruleBusy}}
    /\ ruleBusy' = NoTask
    /\ UNCHANGED <<streamVars, processVars, readerVars, jobVars, dbVars, ruleq, fate>>

-----------------------------------------------------------------------------
(* The process dies (or Redis fails under the consume loop, whose          *)
(* exception ends run_worker): all memory is lost.                         *)
Crash ==
    /\ up /\ crashes < MaxCrashes
    /\ up' = FALSE /\ crashes' = crashes + 1
    /\ reader' = "reading" /\ inHand' = NoTask
    /\ job' = [t \in Tasks |-> IF job[t] # "none" \/ t = inHand THEN "gone" ELSE "none"]
    /\ lineup' = <<>> /\ permits' = MaxConcurrent
    /\ dbq' = <<>> /\ dbBusy' = NoTask
    /\ ruleq' = <<>> /\ ruleBusy' = NoTask
    /\ fate' = [t \in Tasks |-> IF t \in InMemory THEN "crashed" ELSE fate[t]]
    /\ UNCHANGED <<streamVars, rows, alerted>>

(* Mutated: the new process takes over an entry the dead one left pending. *)
RestartReclaims ==
    /\ ~up /\ up' = TRUE
    /\ \E t \in pel : stream' = <<t>> \o stream
    /\ UNCHANGED <<crashes, pushed, pel, readerVars, jobVars, dbVars, ruleVars, fate>>

(* A new process joins the existing group under a new consumer name and    *)
(* reads ">": it never sees the pending entries of the dead one.           *)
Restart ==
    /\ ~up /\ up' = TRUE
    /\ UNCHANGED <<crashes, streamVars, readerVars, jobVars, dbVars, ruleVars, fate>>

JobStep(t) ==
    \/ FastPath(t) \/ Agent(t) \/ Raise(t)
    \/ SaveNow(t) \/ DbPut(t) \/ DbPutTimeout(t) \/ RulePut(t) \/ RulePutTimeout(t)

Next ==
    \/ \E t \in Tasks : Push(t) \/ JobStep(t)
    \/ Deliver \/ Spawn \/ Ack \/ Acquire
    \/ DbTake \/ DbCommit \/ DbFail \/ RuleTake \/ RuleDone
    \/ Crash \/ Restart

(* asyncio runs every ready coroutine; node, HTTP and queue waits have     *)
(* time limits; the container restarts the process.  Nothing makes the API *)
(* push, and nothing makes the process crash.                              *)
Fairness ==
    /\ WF_vars(Deliver \/ Spawn \/ Ack)
    /\ WF_vars(Acquire)
    /\ \A t \in Tasks : WF_vars(JobStep(t))
    /\ WF_vars(DbTake \/ DbCommit \/ DbFail)
    /\ WF_vars(RuleTake \/ RuleDone)
    /\ WF_vars(Restart)

Spec == Init /\ [][Next]_vars /\ Fairness

-----------------------------------------------------------------------------
(* Properties.                                                             *)

(* Accepted, but its row is neither stored nor still to come.              *)
Lost(t) == t \in pushed /\ t \notin rows \cup InMemory \cup Elements(stream)

(* The semaphore's permits are conserved: whichever way a coroutine ends   *)
(* (result, exception, skipped queue, death of the process), a permit is   *)
(* held by exactly the coroutines inside `async with self._semaphore`.     *)
PermitsBalanced == permits + Cardinality(Holders) = MaxConcurrent

(* No silent loss: the rows that never come are exactly those that a trim, *)
(* a logged exception, a skipped save, a failed transaction or a crash     *)
(* accounts for.  No hand-over between stream, coroutine, queue and drain  *)
(* drops a task.                                                           *)
NoSilentLoss == \A t \in Tasks : Lost(t) <=> fate[t] # "open"

(* An alert's task had its save turn first: when a task is queued for, in, *)
(* or past rule evaluation, its row is stored or queued, or the log tells  *)
(* why there will be none.                                                 *)
SaveTurnFirst ==
    \A t \in Elements(ruleq) \cup ({ruleBusy} \ {NoTask}) \cup alerted :
        t \in Elements(dbq) \cup {dbBusy} \cup rows \/ fate[t] # "open"

(* The pending list, which backlog_size reports, holds at most the entry   *)
(* in hand and one entry per death of the process, however many tasks wait *)
(* in the stream or in memory.                                             *)
PendingIsNotBacklog ==
    Cardinality(pel) <= crashes + (IF inHand = NoTask THEN 0 ELSE 1)

(* At most once: a task whose coroutine ended or died is never processed   *)
(* again, not by a restarted process either.                               *)
NeverReprocessed ==
    [][\A t \in Tasks : job[t] = "gone" => job'[t] = "gone"]_vars

(* The ledger that the stream, the process and the database make up        *)
(* together.                                                               *)
Ledger == INSTANCE TaskLedger WITH
    status <- [t \in Tasks |-> CASE t \in rows -> "completed"
                                 [] t \notin pushed -> "absent"
                                 [] Lost(t) -> "lost"
                                 [] OTHER -> "queued"],
    alerts <- alerted

(* The worker keeps the ledger's safety: a decision about a task is never  *)
(* revised, not even across a crash, and only accepted tasks have alerts.  *)
KeepsLedger == Ledger!Safe

(* Every accepted task is decided: no task waits forever in the stream,    *)
(* for the semaphore, on a full queue or in a drain.                       *)
EveryTaskSettles == Ledger!Decided

-----------------------------------------------------------------------------
(* What the design documents say and the code does not do.                 *)

(* docs/superpowers/specs/2026-07-20-worker-concurrency-design.md: the     *)
(* semaphore "naturally blocks the consume loop".  If it did, at most one  *)
(* task at a time would be out of the stream and without a permit.         *)
SemaphoreBlocksConsumeLoop == permits = 0 => Len(lineup) <= 1

(* docs/superpowers/specs/2026-07-10-architecture-revision-design.md: the  *)
(* consumer saves the task and then acknowledges its entry.                *)
SavedBeforeAck ==
    \A t \in Tasks : t \in pushed \ (Elements(stream) \cup pel)
                     /\ fate[t] # "trimmed" => t \in rows
=============================================================================
