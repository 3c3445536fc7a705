---------------------------- MODULE WorkerProofs ----------------------------
(***************************************************************************)
(* Proofs about Worker, for every set of tasks, queue size, stream length, *)
(* number of permits and number of crashes.                                *)
(***************************************************************************)
EXTENDS Worker, FiniteSetTheorems, TLAPS

(* Queues as sequences without repetition.                                 *)
Distinct(s) == \A i, j \in 1..Len(s) : s[i] = s[j] => i = j

LEMMA AppendFacts ==
    ASSUME NEW S, NEW s \in Seq(S), NEW x \in S
    PROVE  /\ Append(s, x) \in Seq(S)
           /\ Len(Append(s, x)) = Len(s) + 1
           /\ Elements(Append(s, x)) = Elements(s) \cup {x}
           /\ Distinct(s) /\ x \notin Elements(s) => Distinct(Append(s, x))
<1>1. /\ Append(s, x) \in Seq(S)
      /\ Len(Append(s, x)) = Len(s) + 1
      /\ \A i \in 1..Len(s) : Append(s, x)[i] = s[i]
      /\ Append(s, x)[Len(s) + 1] = x
  OBVIOUS
<1>2. Len(s) \in Nat
  OBVIOUS
<1>3. Elements(Append(s, x)) = Elements(s) \cup {x}
  BY <1>1, <1>2 DEF Elements
<1>4. ASSUME Distinct(s), x \notin Elements(s)
      PROVE  Distinct(Append(s, x))
  BY <1>1, <1>2, <1>4 DEF Elements, Distinct
<1> QED
  BY <1>1, <1>3, <1>4

LEMMA TailFacts ==
    ASSUME NEW S, NEW s \in Seq(S), s # <<>>
    PROVE  /\ Tail(s) \in Seq(S)
           /\ Len(Tail(s)) = Len(s) - 1
           /\ Head(s) \in S
           /\ Elements(s) = Elements(Tail(s)) \cup {Head(s)}
           /\ Distinct(s) => Distinct(Tail(s)) /\ Head(s) \notin Elements(Tail(s))
<1>1. /\ Tail(s) \in Seq(S)
      /\ Len(s) \in Nat /\ Len(s) > 0
      /\ Len(Tail(s)) = Len(s) - 1
      /\ \A i \in 1..Len(s) - 1 : Tail(s)[i] = s[i + 1]
      /\ Head(s) = s[1] /\ Head(s) \in S
  OBVIOUS
<1>2. Elements(s) = Elements(Tail(s)) \cup {Head(s)}
  <2>1. ASSUME NEW i \in 1..Len(s)
        PROVE  s[i] \in Elements(Tail(s)) \cup {Head(s)}
    <3>1. CASE i = 1
      BY <3>1, <1>1
    <3>2. CASE i # 1
      <4>1. i - 1 \in 1..Len(Tail(s)) /\ Tail(s)[i - 1] = s[i]
        BY <3>2, <1>1
      <4> QED
        BY <4>1 DEF Elements
    <3> QED
      BY <3>1, <3>2
  <2>2. ASSUME NEW i \in 1..Len(Tail(s))
        PROVE  Tail(s)[i] \in Elements(s)
    <3>1. i + 1 \in 1..Len(s) /\ Tail(s)[i] = s[i + 1]
      BY <1>1
    <3> QED
      BY <3>1 DEF Elements
  <2>3. Head(s) \in Elements(s)
    BY <1>1 DEF Elements
  <2> QED
    BY <2>1, <2>2, <2>3 DEF Elements
<1>3. ASSUME Distinct(s)
      PROVE  Distinct(Tail(s)) /\ Head(s) \notin Elements(Tail(s))
  BY <1>1, <1>3 DEF Elements, Distinct
<1> QED
  BY <1>1, <1>2, <1>3

LEMMA EmptyFacts == Elements(<<>>) = {} /\ Distinct(<<>>)
BY DEF Elements, Distinct

-----------------------------------------------------------------------------
(* The inductive invariant.                                                *)

(* TypeOK but for the upper bound of the permits, which follows from their *)
(* balance.                                                                *)
Shape ==
    /\ pushed \subseteq Tasks /\ pel \subseteq Tasks
    /\ stream \in Seq(Tasks)
    /\ up \in BOOLEAN /\ crashes \in 0..MaxCrashes
    /\ reader \in {"reading", "handed", "acking"}
    /\ inHand \in Tasks \cup {NoTask}
    /\ job \in [Tasks -> JobState]
    /\ lineup \in Seq(Tasks)
    /\ permits \in Nat
    /\ dbq \in Seq(Tasks) /\ Len(dbq) <= DbQueueSize
    /\ ruleq \in Seq(Tasks) /\ Len(ruleq) <= RuleQueueSize
    /\ dbBusy \in Tasks \cup {NoTask} /\ ruleBusy \in Tasks \cup {NoTask}
    /\ rows \subseteq Tasks /\ alerted \subseteq Tasks
    /\ fate \in [Tasks -> Fate]

(* In the save queue, being written, or written.                           *)
Saved == Elements(dbq) \cup ({dbBusy} \ {NoTask}) \cup rows

(* Each task is at one place: in the stream, in the hand of the consume    *)
(* loop, in a coroutine, or past its coroutine's save turn.                *)
ReaderOnce ==
    /\ reader = "reading" <=> inHand = NoTask
    /\ reader = "handed" => /\ inHand \in pushed /\ job[inHand] = "none"
                            /\ inHand \notin Elements(stream)
    /\ reader = "acking" => job[inHand] # "none"

StreamOnce ==
    /\ Distinct(stream)
    /\ \A t \in Elements(stream) : t \in pushed /\ job[t] = "none"

LineupOnce ==
    /\ Distinct(lineup)
    /\ \A t \in Elements(lineup) : job[t] = "waiting"
    /\ \A t \in Tasks : job[t] # "none" => t \in pushed

SaveOnce ==
    /\ Distinct(dbq)
    /\ dbBusy \notin Elements(dbq)
    /\ (Elements(dbq) \cup {dbBusy}) \cap rows = {}
    /\ \A t \in Saved : job[t] \in {"ruleput", "gone"}

OnePlace == ReaderOnce /\ StreamOnce /\ LineupOnce /\ SaveOnce

LEMMA ElementsType ==
    ASSUME NEW S, NEW s \in Seq(S)
    PROVE  Elements(s) \subseteq S
BY DEF Elements

LEMMA InitShape == Init => Shape /\ OnePlace
<1> SUFFICES ASSUME Init
             PROVE  Shape /\ OnePlace
  OBVIOUS
<1>1. Shape
  BY WorkerAssumption DEF Init, Shape, JobState, Fate
<1>2. OnePlace
  BY EmptyFacts, WorkerAssumption DEF Init, OnePlace, ReaderOnce, StreamOnce,
                                      LineupOnce, SaveOnce, Saved
<1> QED
  BY <1>1, <1>2

(* What RuleTurn does to the queue, for any coroutine.                     *)
LEMMA RuleTurnFacts ==
    ASSUME Shape, NEW t \in Tasks, RuleTurn(t)
    PROVE  /\ ruleq' \in Seq(Tasks) /\ Len(ruleq') <= RuleQueueSize
           /\ Elements(ruleq) \subseteq Elements(ruleq')
           /\ Elements(ruleq') \subseteq Elements(ruleq) \cup {t}
           /\ \/ /\ job' = [job EXCEPT ![t] = "gone"]
                 /\ permits' = permits + 1
              \/ /\ job' = [job EXCEPT ![t] = "ruleput"]
                 /\ permits' = permits
                 /\ ruleq' = ruleq
<1>1. CASE Len(ruleq) < RuleQueueSize
  <2>1. ruleq' = Append(ruleq, t) /\ Leave(t)
    BY <1>1 DEF RuleTurn
  <2>2. /\ ruleq' \in Seq(Tasks) /\ Len(ruleq') = Len(ruleq) + 1
        /\ Elements(ruleq') = Elements(ruleq) \cup {t}
    BY <2>1, AppendFacts DEF Shape
  <2> QED
    BY <1>1, <2>1, <2>2, WorkerAssumption DEF Leave, Shape
<1>2. CASE ~(Len(ruleq) < RuleQueueSize)
  BY <1>2 DEF RuleTurn, Shape
<1> QED
  BY <1>1, <1>2

(* The cases of the actions that have several.                             *)
LEMMA SaveFacts ==
    ASSUME Shape, NEW t \in Tasks, SaveNow(t) \/ DbPut(t)
    PROVE  \/ /\ dbq' = Append(dbq, t) /\ Len(dbq) < DbQueueSize
              /\ RuleTurn(t)
           \/ /\ SaveNow(t)
              /\ job' = [job EXCEPT ![t] = "dbput"]
              /\ UNCHANGED <<dbq, ruleq, permits>>
BY DEF SaveNow, DbPut

LEMMA PushFacts ==
    ASSUME Shape, NEW t \in Tasks, Push(t)
    PROVE  \/ stream' = Append(stream, t) /\ UNCHANGED fate
           \/ /\ stream # <<>>
              /\ stream' = Append(Tail(stream), t)
              /\ Tail(stream) \in Seq(Tasks)
              /\ fate' = [fate EXCEPT ![Head(stream)] = "trimmed"]
<1>1. CASE Len(stream) >= StreamMaxLen
  <2>1. stream # <<>>
    BY <1>1, WorkerAssumption DEF Shape
  <2> QED
    BY <2>1, TailFacts DEF Push, Shape
<1> QED
  BY <1>1 DEF Push

LEMMA AcquireFacts ==
    ASSUME Shape, Acquire
    PROVE  /\ lineup # <<>> /\ Head(lineup) \in Tasks
           /\ permits > 0
           /\ lineup' = Tail(lineup) /\ Tail(lineup) \in Seq(Tasks)
           /\ \/ /\ job' = [job EXCEPT ![Head(lineup)] = "gone"]
                 /\ fate' = [fate EXCEPT ![Head(lineup)] = "failed"]
                 /\ permits' = permits
              \/ /\ job' = [job EXCEPT ![Head(lineup)] = "fast"]
                 /\ permits' = permits - 1
                 /\ fate' = fate
           /\ UNCHANGED <<streamVars, processVars, readerVars, dbVars, ruleVars>>
BY TailFacts DEF Acquire, Shape

LEMMA ShapeStep == Shape /\ OnePlace /\ [Next]_vars => Shape'
<1> SUFFICES ASSUME Shape, OnePlace, [Next]_vars
             PROVE  Shape'
  OBVIOUS
<1> USE WorkerAssumption DEF streamVars, processVars, readerVars,
                             jobVars, dbVars, ruleVars
<1>1. ASSUME NEW t \in Tasks, Push(t)
      PROVE  Shape'
  <2>1. \/ stream' = Append(stream, t) /\ UNCHANGED fate
        \/ /\ stream' = Append(Tail(stream), t)
           /\ Tail(stream) \in Seq(Tasks)
           /\ fate' = [fate EXCEPT ![Head(stream)] = "trimmed"]
    BY <1>1, PushFacts
  <2>2. stream' \in Seq(Tasks)
    <3>1. Append(stream, t) \in Seq(Tasks)
      BY AppendFacts DEF Shape
    <3>2. CASE stream' = Append(stream, t)
      BY <3>1, <3>2
    <3>3. CASE stream' = Append(Tail(stream), t) /\ Tail(stream) \in Seq(Tasks)
      BY <3>3, AppendFacts
    <3> QED
      BY <2>1, <3>2, <3>3
  <2>3. fate' \in [Tasks -> Fate]
    BY <2>1 DEF Shape, Fate
  <2> QED
    BY <1>1, <2>2, <2>3 DEF Push, Shape
<1>2. ASSUME Deliver
      PROVE  Shape'
  BY <1>2, TailFacts DEF Deliver, Shape
<1>3. ASSUME Spawn
      PROVE  Shape'
  <2>1. inHand \in Tasks
    BY <1>3 DEF Spawn, OnePlace, ReaderOnce, Shape
  <2> QED
    BY <1>3, <2>1, AppendFacts DEF Spawn, JobState, Shape
<1>4. ASSUME Ack
      PROVE  Shape'
  BY <1>4 DEF Ack, Shape
<1>5. ASSUME Acquire
      PROVE  Shape'
  <2>1. /\ permits > 0 /\ lineup' \in Seq(Tasks)
        /\ \/ /\ job' = [job EXCEPT ![Head(lineup)] = "gone"]
              /\ fate' = [fate EXCEPT ![Head(lineup)] = "failed"]
              /\ permits' = permits
           \/ /\ job' = [job EXCEPT ![Head(lineup)] = "fast"]
              /\ permits' = permits - 1
              /\ fate' = fate
        /\ UNCHANGED <<streamVars, processVars, readerVars, dbVars, ruleVars>>
    BY <1>5, AcquireFacts
  <2>2. job' \in [Tasks -> JobState] /\ fate' \in [Tasks -> Fate]
    BY <2>1 DEF Shape, JobState, Holding, Fate
  <2> QED
    BY <2>1, <2>2 DEF Shape
<1>6. ASSUME NEW t \in Tasks, FastPath(t) \/ Agent(t)
      PROVE  Shape'
  BY <1>6 DEF FastPath, Agent, JobState, Holding, Shape
<1>7. ASSUME NEW t \in Tasks, Raise(t)
      PROVE  Shape'
  BY <1>7 DEF Raise, Leave, JobState, Fate, Shape
<1>8. ASSUME NEW t \in Tasks, RuleTurn(t)
      PROVE  /\ ruleq' \in Seq(Tasks) /\ Len(ruleq') <= RuleQueueSize
             /\ job' \in [Tasks -> JobState] /\ permits' \in Nat
  <2>1. /\ ruleq' \in Seq(Tasks) /\ Len(ruleq') <= RuleQueueSize
        /\ \/ job' = [job EXCEPT ![t] = "gone"] /\ permits' = permits + 1
           \/ job' = [job EXCEPT ![t] = "ruleput"] /\ permits' = permits
    BY <1>8, RuleTurnFacts
  <2>2. "gone" \in JobState /\ "ruleput" \in JobState
    BY DEF JobState, Holding
  <2>3. job' \in [Tasks -> JobState]
    BY <2>1, <2>2 DEF Shape
  <2>4. permits' \in Nat
    BY <2>1 DEF Shape
  <2> QED
    BY <2>1, <2>3, <2>4
<1>9. ASSUME NEW t \in Tasks, SaveNow(t) \/ DbPut(t)
      PROVE  Shape'
  <2>1. CASE dbq' = Append(dbq, t) /\ Len(dbq) < DbQueueSize /\ RuleTurn(t)
    <3>1. dbq' \in Seq(Tasks) /\ Len(dbq') <= DbQueueSize
      BY <2>1, AppendFacts DEF Shape
    <3> QED
      BY <1>8, <1>9, <2>1, <3>1 DEF SaveNow, DbPut, Shape
  <2>2. CASE SaveNow(t) /\ job' = [job EXCEPT ![t] = "dbput"]
             /\ UNCHANGED <<dbq, ruleq, permits>>
    BY <2>2 DEF SaveNow, JobState, Holding, Shape
  <2> QED
    BY <1>9, <2>1, <2>2, SaveFacts
<1>10. ASSUME NEW t \in Tasks, DbPutTimeout(t)
       PROVE  Shape'
  BY <1>8, <1>10 DEF DbPutTimeout, Fate, Shape
<1>11. ASSUME NEW t \in Tasks, RulePut(t) \/ RulePutTimeout(t)
       PROVE  Shape'
  <2>1. CASE RulePut(t)
    <3>1. ruleq' = Append(ruleq, t) /\ Len(ruleq) < RuleQueueSize
      BY <2>1 DEF RulePut
    <3>2. ruleq' \in Seq(Tasks) /\ Len(ruleq') <= RuleQueueSize
      BY <3>1, AppendFacts, WorkerAssumption DEF Shape
    <3> QED
      BY <2>1, <3>2 DEF RulePut, Leave, JobState, Shape
  <2>2. CASE RulePutTimeout(t)
    BY <2>2 DEF RulePutTimeout, Leave, JobState, Shape
  <2> QED
    BY <1>11, <2>1, <2>2
<1>12. ASSUME DbTake
       PROVE  Shape'
  <2>1. /\ dbq' \in Seq(Tasks) /\ Len(dbq') = Len(dbq) - 1
        /\ dbBusy' \in Tasks
    BY <1>12, TailFacts DEF DbTake, Shape
  <2> QED
    BY <1>12, <2>1 DEF DbTake, Shape
<1>13. ASSUME RuleTake
       PROVE  Shape'
  <2>1. /\ ruleq' \in Seq(Tasks) /\ Len(ruleq') = Len(ruleq) - 1
        /\ ruleBusy' \in Tasks
    BY <1>13, TailFacts DEF RuleTake, Shape
  <2> QED
    BY <1>13, <2>1 DEF RuleTake, Shape
<1>14. ASSUME DbCommit \/ DbFail
       PROVE  Shape'
  BY <1>14 DEF DbCommit, DbFail, Fate, Shape
<1>15. ASSUME RuleDone
       PROVE  Shape'
  BY <1>15 DEF RuleDone, Shape
<1>16. ASSUME Crash
       PROVE  Shape'
  <2>1. /\ lineup' \in Seq(Tasks)
        /\ dbq' \in Seq(Tasks) /\ Len(dbq') <= DbQueueSize
        /\ ruleq' \in Seq(Tasks) /\ Len(ruleq') <= RuleQueueSize
    BY <1>16 DEF Crash
  <2>2. job' \in [Tasks -> JobState] /\ fate' \in [Tasks -> Fate]
    BY <1>16 DEF Crash, Shape, JobState, Fate
  <2>3. crashes' \in 0..MaxCrashes
    BY <1>16 DEF Crash, Shape
  <2>4. /\ up' = FALSE /\ reader' = "reading" /\ inHand' = NoTask
        /\ permits' = MaxConcurrent /\ dbBusy' = NoTask /\ ruleBusy' = NoTask
        /\ UNCHANGED <<pushed, stream, pel, rows, alerted>>
    BY <1>16 DEF Crash
  <2> QED
    BY <2>1, <2>2, <2>3, <2>4 DEF Shape
<1>17. ASSUME Restart
       PROVE  Shape'
  BY <1>17 DEF Restart, Shape
<1>18. ASSUME UNCHANGED vars
       PROVE  Shape'
  BY <1>18 DEF vars, Shape
<1> QED
  BY <1>1, <1>2, <1>3, <1>4, <1>5, <1>6, <1>7, <1>9, <1>10, <1>11, <1>12,
     <1>13, <1>14, <1>15, <1>16, <1>17, <1>18 DEF Next, JobStep

-----------------------------------------------------------------------------
(* No step puts a task at a second place.                                  *)

(* The coroutine of t goes on from a state past the semaphore.             *)
LEMMA CoroutineStep ==
    ASSUME Shape, OnePlace, NEW t \in Tasks, NEW x \in Holding \cup {"gone"},
           job[t] \in Holding,
           job' = [job EXCEPT ![t] = x],
           UNCHANGED <<streamVars, readerVars, lineup>>
    PROVE  ReaderOnce' /\ StreamOnce' /\ LineupOnce'
<1>1. Elements(stream) \subseteq Tasks /\ Elements(lineup) \subseteq Tasks
  BY ElementsType DEF Shape
<1>2. /\ job[t] # "none" /\ job[t] # "waiting"
      /\ x # "none" /\ x # "waiting"
      /\ \A u \in Tasks : job'[u] = IF u = t THEN x ELSE job[u]
  BY DEF Shape, Holding
<1>3. ReaderOnce'
  BY <1>2 DEF OnePlace, ReaderOnce, Shape, streamVars, readerVars
<1>4. StreamOnce'
  BY <1>1, <1>2 DEF OnePlace, StreamOnce, streamVars
<1>5. LineupOnce'
  BY <1>1, <1>2 DEF OnePlace, LineupOnce, streamVars
<1> QED
  BY <1>3, <1>4, <1>5

(* The drains, and whatever else leaves stream, reader and jobs alone.     *)
LEMMA DrainStep ==
    ASSUME OnePlace, UNCHANGED <<streamVars, readerVars, jobVars>>
    PROVE  ReaderOnce' /\ StreamOnce' /\ LineupOnce'
BY DEF OnePlace, ReaderOnce, StreamOnce, LineupOnce, streamVars, readerVars, jobVars

(* A coroutine that has not had its save turn moves; the save queue is     *)
(* left alone.                                                             *)
LEMMA UnsavedStep ==
    ASSUME Shape, OnePlace, NEW t \in Tasks, NEW x \in JobState,
           job[t] \notin {"ruleput", "gone"} \/ x \in {"ruleput", "gone"},
           job' = [job EXCEPT ![t] = x],
           UNCHANGED dbVars
    PROVE  SaveOnce'
<1>1. Saved \subseteq Tasks
  BY ElementsType DEF Shape, Saved
<1>2. \A u \in Saved : job'[u] \in {"ruleput", "gone"}
  BY <1>1 DEF OnePlace, SaveOnce, Shape
<1>3. Saved' = Saved
  BY DEF Saved, dbVars
<1> QED
  BY <1>2, <1>3 DEF OnePlace, SaveOnce, dbVars

(* A coroutine's save enters the queue.                                    *)
LEMMA SavedStep ==
    ASSUME Shape, OnePlace, NEW t \in Tasks, NEW x \in {"ruleput", "gone"},
           job[t] \in Holding \ {"ruleput"},
           job' = [job EXCEPT ![t] = x],
           dbq' = Append(dbq, t), UNCHANGED <<dbBusy, rows>>
    PROVE  SaveOnce'
<1>1. Saved \subseteq Tasks
  BY ElementsType DEF Shape, Saved
<1>2. t \notin Saved
  BY <1>1 DEF OnePlace, SaveOnce, Holding
<1>3. Elements(dbq') = Elements(dbq) \cup {t} /\ Distinct(dbq')
  BY <1>2, AppendFacts DEF OnePlace, SaveOnce, Saved, Shape
<1>4. Saved' = Saved \cup {t}
  BY <1>3, WorkerAssumption DEF Saved
<1>5. \A u \in Saved' : job'[u] \in {"ruleput", "gone"}
  BY <1>1, <1>4 DEF OnePlace, SaveOnce, Shape
<1>6. /\ dbBusy' \notin Elements(dbq')
      /\ (Elements(dbq') \cup {dbBusy'}) \cap rows' = {}
  BY <1>2, <1>3, WorkerAssumption DEF OnePlace, SaveOnce, Saved
<1> QED
  BY <1>3, <1>5, <1>6 DEF SaveOnce

LEMMA OnePlaceStep == Shape /\ OnePlace /\ [Next]_vars => OnePlace'
<1> SUFFICES ASSUME Shape, OnePlace, [Next]_vars
             PROVE  OnePlace'
  OBVIOUS
<1> USE DEF streamVars, processVars, readerVars, jobVars, dbVars, ruleVars
<1>0. UNCHANGED <<job, dbq, dbBusy, rows>> => SaveOnce'
  BY DEF OnePlace, SaveOnce, Saved
<1>1. ASSUME NEW t \in Tasks, Push(t)
      PROVE  OnePlace'
  <2>1. /\ t \notin pushed /\ pushed' = pushed \cup {t}
        /\ UNCHANGED <<readerVars, jobVars, dbVars>>
    BY <1>1 DEF Push
  <2>2. job[t] = "none" /\ t \notin Elements(stream)
    BY <2>1 DEF OnePlace, StreamOnce, LineupOnce
  <2>3. /\ Distinct(stream')
        /\ Elements(stream') \subseteq Elements(stream) \cup {t}
    <3>1. CASE stream' = Append(stream, t)
      BY <2>2, <3>1, AppendFacts DEF Shape, OnePlace, StreamOnce
    <3>2. CASE stream # <<>> /\ stream' = Append(Tail(stream), t)
      <4>1. /\ Tail(stream) \in Seq(Tasks) /\ Distinct(Tail(stream))
            /\ Elements(Tail(stream)) \subseteq Elements(stream)
        BY <3>2, TailFacts DEF Shape, OnePlace, StreamOnce
      <4> DEFINE rest == Tail(stream)
      <4> HIDE DEF rest
      <4>2. rest \in Seq(Tasks) /\ Distinct(rest) /\ t \notin Elements(rest)
        BY <2>2, <4>1 DEF rest
      <4>3. /\ Distinct(Append(rest, t))
            /\ Elements(Append(rest, t)) = Elements(rest) \cup {t}
        BY <4>2, AppendFacts
      <4> QED
        BY <3>2, <4>1, <4>3 DEF rest
    <3> QED
      BY <1>1, <3>1, <3>2, PushFacts
  <2>4. ReaderOnce'
    BY <2>1, <2>3 DEF OnePlace, ReaderOnce
  <2>5. StreamOnce'
    BY <2>1, <2>2, <2>3 DEF OnePlace, StreamOnce
  <2>6. LineupOnce'
    BY <2>1 DEF OnePlace, LineupOnce
  <2> QED
    BY <1>0, <2>1, <2>4, <2>5, <2>6 DEF OnePlace
<1>2. ASSUME Deliver
      PROVE  OnePlace'
  <2>1. /\ stream # <<>> /\ stream' = Tail(stream)
        /\ reader' = "handed" /\ inHand' = Head(stream)
        /\ UNCHANGED <<pushed, jobVars, dbVars>>
    BY <1>2 DEF Deliver
  <2>2. /\ Elements(stream) = Elements(stream') \cup {Head(stream)}
        /\ Distinct(stream') /\ Head(stream) \notin Elements(stream')
        /\ Head(stream) \in Tasks
    BY <2>1, TailFacts DEF Shape, OnePlace, StreamOnce
  <2>3. ReaderOnce'
    BY <2>1, <2>2, WorkerAssumption DEF OnePlace, ReaderOnce, StreamOnce
  <2>4. StreamOnce' /\ LineupOnce'
    BY <2>1, <2>2 DEF OnePlace, StreamOnce, LineupOnce
  <2> QED
    BY <1>0, <2>1, <2>3, <2>4 DEF OnePlace
<1>3. ASSUME Spawn
      PROVE  OnePlace'
  <2>1. /\ reader = "handed" /\ reader' = "acking"
        /\ job' = [job EXCEPT ![inHand] = "waiting"]
        /\ lineup' = Append(lineup, inHand)
        /\ UNCHANGED <<streamVars, inHand, dbVars>>
    BY <1>3 DEF Spawn
  <2>2. /\ inHand \in Tasks /\ inHand \in pushed /\ job[inHand] = "none"
        /\ inHand \notin Elements(stream)
    BY <2>1 DEF OnePlace, ReaderOnce, Shape
  <2>3. \A u \in Tasks : job'[u] = IF u = inHand THEN "waiting" ELSE job[u]
    BY <2>1 DEF Shape
  <2>4. /\ Elements(stream) \subseteq Tasks /\ Elements(lineup) \subseteq Tasks
        /\ Saved \subseteq Tasks
    BY ElementsType DEF Shape, Saved
  <2>5. inHand \notin Elements(lineup) /\ inHand \notin Saved
    BY <2>2 DEF OnePlace, LineupOnce, SaveOnce
  <2>6. Distinct(lineup') /\ Elements(lineup') = Elements(lineup) \cup {inHand}
    BY <2>1, <2>2, <2>5, AppendFacts DEF Shape, OnePlace, LineupOnce
  <2>7. ReaderOnce'
    BY <2>1, <2>2, <2>3 DEF OnePlace, ReaderOnce
  <2>8. StreamOnce'
    BY <2>1, <2>2, <2>3, <2>4 DEF OnePlace, StreamOnce
  <2>9. LineupOnce'
    BY <2>1, <2>2, <2>3, <2>4, <2>6 DEF OnePlace, LineupOnce
  <2>10. SaveOnce'
    <3>1. Saved' = Saved
      BY <2>1 DEF Saved
    <3>2. \A u \in Saved : job'[u] = job[u]
      BY <2>3, <2>4, <2>5
    <3> QED
      BY <2>1, <3>1, <3>2 DEF OnePlace, SaveOnce
  <2> QED
    BY <2>7, <2>8, <2>9, <2>10 DEF OnePlace
<1>4. ASSUME Ack
      PROVE  OnePlace'
  <2>1. ReaderOnce' /\ StreamOnce' /\ LineupOnce'
    BY <1>4 DEF Ack, OnePlace, ReaderOnce, StreamOnce, LineupOnce
  <2> QED
    BY <1>0, <1>4, <2>1 DEF Ack, OnePlace
<1>5. ASSUME Acquire
      PROVE  OnePlace'
  <2> DEFINE h == Head(lineup)
  <2>1. PICK x \in {"gone", "fast"} : job' = [job EXCEPT ![h] = x]
    BY <1>5, AcquireFacts
  <2>2. /\ lineup # <<>> /\ h \in Tasks /\ lineup' = Tail(lineup)
        /\ UNCHANGED <<streamVars, readerVars, dbVars>>
    BY <1>5, AcquireFacts
  <2> HIDE DEF h
  <2>3. /\ Elements(lineup) = Elements(lineup') \cup {h}
        /\ Distinct(lineup') /\ h \notin Elements(lineup')
    BY <2>2, TailFacts DEF h, Shape, OnePlace, LineupOnce
  <2>4. job[h] = "waiting"
    BY <2>3 DEF OnePlace, LineupOnce
  <2>5. \A u \in Tasks : job'[u] = IF u = h THEN x ELSE job[u]
    BY <2>1, <2>2 DEF Shape
  <2>6. Elements(stream) \subseteq Tasks /\ Elements(lineup') \subseteq Tasks
    BY <2>3, ElementsType DEF Shape
  <2>7. ReaderOnce'
    BY <2>2, <2>4, <2>5 DEF OnePlace, ReaderOnce, Shape
  <2>8. StreamOnce'
    BY <2>2, <2>4, <2>5, <2>6 DEF OnePlace, StreamOnce
  <2>9. LineupOnce'
    BY <2>2, <2>3, <2>4, <2>5, <2>6 DEF OnePlace, LineupOnce
  <2>10. SaveOnce'
    BY <2>1, <2>2, <2>4, UnsavedStep DEF JobState, Holding
  <2> QED
    BY <2>7, <2>8, <2>9, <2>10 DEF OnePlace
<1>6. ASSUME NEW t \in Tasks, FastPath(t) \/ Agent(t) \/ Raise(t)
      PROVE  OnePlace'
  <2>1. /\ job[t] \in {"fast", "agent"}
        /\ \E x \in {"saving", "agent", "gone"} : job' = [job EXCEPT ![t] = x]
        /\ UNCHANGED <<streamVars, readerVars, lineup, dbVars>>
    BY <1>6 DEF FastPath, Agent, Raise, Leave
  <2>2. PICK x \in {"saving", "agent", "gone"} : job' = [job EXCEPT ![t] = x]
    BY <2>1
  <2>3. ReaderOnce' /\ StreamOnce' /\ LineupOnce'
    BY <2>1, <2>2, CoroutineStep DEF Holding
  <2>4. SaveOnce'
    BY <2>1, <2>2, UnsavedStep DEF Holding, JobState
  <2> QED
    BY <2>3, <2>4 DEF OnePlace
<1>7. ASSUME NEW t \in Tasks, RuleTurn(t)
      PROVE  \E x \in {"ruleput", "gone"} : job' = [job EXCEPT ![t] = x]
  BY <1>7, RuleTurnFacts
<1>8. ASSUME NEW t \in Tasks, SaveNow(t) \/ DbPut(t)
      PROVE  OnePlace'
  <2>1. /\ job[t] \in {"saving", "dbput"}
        /\ UNCHANGED <<streamVars, readerVars, lineup, dbBusy, rows>>
    BY <1>8 DEF SaveNow, DbPut
  <2>2. CASE dbq' = Append(dbq, t) /\ RuleTurn(t)
    <3>1. PICK x \in {"ruleput", "gone"} : job' = [job EXCEPT ![t] = x]
      BY <1>7, <2>2
    <3>2. ReaderOnce' /\ StreamOnce' /\ LineupOnce'
      BY <2>1, <3>1, CoroutineStep DEF Holding
    <3>3. SaveOnce'
      BY <2>1, <2>2, <3>1, SavedStep DEF Holding
    <3> QED
      BY <3>2, <3>3 DEF OnePlace
  <2>3. CASE job' = [job EXCEPT ![t] = "dbput"] /\ UNCHANGED dbq
    <3>1. ReaderOnce' /\ StreamOnce' /\ LineupOnce'
      BY <2>1, <2>3, CoroutineStep DEF Holding
    <3>2. SaveOnce'
      BY <2>1, <2>3, UnsavedStep DEF Holding, JobState
    <3> QED
      BY <3>1, <3>2 DEF OnePlace
  <2> QED
    BY <1>8, <2>2, <2>3, SaveFacts
<1>9. ASSUME NEW t \in Tasks, DbPutTimeout(t) \/ RulePut(t) \/ RulePutTimeout(t)
      PROVE  OnePlace'
  <2>1. /\ job[t] \in {"dbput", "ruleput"}
        /\ UNCHANGED <<streamVars, readerVars, lineup, dbVars>>
    BY <1>9 DEF DbPutTimeout, RulePut, RulePutTimeout
  <2>2. PICK x \in {"ruleput", "gone"} : job' = [job EXCEPT ![t] = x]
    BY <1>7, <1>9 DEF DbPutTimeout, RulePut, RulePutTimeout, Leave
  <2>3. ReaderOnce' /\ StreamOnce' /\ LineupOnce'
    BY <2>1, <2>2, CoroutineStep DEF Holding
  <2>4. SaveOnce'
    BY <2>1, <2>2, UnsavedStep DEF Holding, JobState
  <2> QED
    BY <2>3, <2>4 DEF OnePlace
<1>10. ASSUME DbTake
       PROVE  OnePlace'
  <2>1. /\ dbBusy = NoTask /\ dbq # <<>>
        /\ dbBusy' = Head(dbq) /\ dbq' = Tail(dbq)
        /\ UNCHANGED <<streamVars, readerVars, jobVars, rows>>
    BY <1>10 DEF DbTake
  <2>2. /\ Elements(dbq) = Elements(dbq') \cup {Head(dbq)}
        /\ Distinct(dbq') /\ Head(dbq) \notin Elements(dbq')
        /\ Head(dbq) \in Tasks
    BY <2>1, TailFacts DEF Shape, OnePlace, SaveOnce
  <2>3. Saved' = Saved
    BY <2>1, <2>2, WorkerAssumption DEF Saved
  <2>4. SaveOnce'
    BY <2>1, <2>2, <2>3 DEF OnePlace, SaveOnce
  <2> QED
    BY <2>1, <2>4, DrainStep DEF OnePlace
<1>11. ASSUME DbCommit \/ DbFail
       PROVE  OnePlace'
  <2>1. /\ dbBusy # NoTask /\ dbBusy' = NoTask
        /\ rows' = rows \cup {dbBusy} \/ rows' = rows
        /\ UNCHANGED <<streamVars, readerVars, jobVars, dbq>>
    BY <1>11 DEF DbCommit, DbFail
  <2>2. NoTask \notin Elements(dbq) /\ NoTask \notin rows'
    BY <2>1, ElementsType, WorkerAssumption DEF Shape
  <2>3. Saved' \subseteq Saved
    BY <2>1 DEF Saved
  <2>4. SaveOnce'
    BY <2>1, <2>2, <2>3 DEF OnePlace, SaveOnce
  <2> QED
    BY <2>1, <2>4, DrainStep DEF OnePlace
<1>12. ASSUME RuleTake \/ RuleDone \/ Restart
       PROVE  OnePlace'
  BY <1>0, <1>12, DrainStep DEF RuleTake, RuleDone, Restart, OnePlace
<1>13. ASSUME Crash
       PROVE  OnePlace'
  <2>1. /\ reader' = "reading" /\ inHand' = NoTask
        /\ lineup' = <<>> /\ dbq' = <<>> /\ dbBusy' = NoTask
        /\ UNCHANGED <<streamVars, rows>>
    BY <1>13 DEF Crash
  <2>2. \A t \in Tasks :
          job'[t] = IF job[t] # "none" \/ t = inHand THEN "gone" ELSE "none"
    BY <1>13 DEF Crash
  <2>3. Elements(stream) \subseteq Tasks /\ Saved \subseteq Tasks
    BY ElementsType DEF Shape, Saved
  <2>4. inHand \in Tasks => inHand \in pushed /\ inHand \notin Elements(stream)
    BY WorkerAssumption DEF OnePlace, ReaderOnce, StreamOnce, LineupOnce, Shape
  <2>5. ReaderOnce'
    BY <2>1 DEF ReaderOnce
  <2>6. StreamOnce'
    BY <2>1, <2>2, <2>3, <2>4 DEF OnePlace, StreamOnce
  <2>7. LineupOnce'
    BY <2>1, <2>2, <2>4, EmptyFacts DEF OnePlace, LineupOnce
  <2>8. SaveOnce'
    <3>1. Saved' = rows
      BY <2>1, EmptyFacts DEF Saved
    <3>2. \A t \in rows : job'[t] = "gone"
      BY <2>2, <2>3 DEF OnePlace, SaveOnce, Saved
    <3> QED
      BY <2>1, <3>1, <3>2, EmptyFacts, WorkerAssumption DEF SaveOnce, Shape
  <2> QED
    BY <2>5, <2>6, <2>7, <2>8 DEF OnePlace
<1>14. ASSUME UNCHANGED vars
       PROVE  OnePlace'
  BY <1>0, <1>14, DrainStep DEF vars, OnePlace
<1> QED
  BY <1>1, <1>2, <1>3, <1>4, <1>5, <1>6, <1>8, <1>9, <1>10, <1>11, <1>12,
     <1>13, <1>14 DEF Next, JobStep

-----------------------------------------------------------------------------
(* The semaphore.                                                          *)

LEMMA HoldersFinite ==
    ASSUME Shape
    PROVE  IsFiniteSet(Holders) /\ Cardinality(Holders) \in Nat
<1>1. Holders \in SUBSET Tasks
  BY DEF Holders
<1>2. IsFiniteSet(Tasks)
  BY WorkerAssumption
<1> QED
  BY <1>1, <1>2, FS_Subset, FS_CardinalityType

(* One coroutine moves: what that does to the number of holders.           *)
LEMMA HoldersMove ==
    ASSUME Shape, NEW t \in Tasks, NEW x \in JobState,
           job' = [job EXCEPT ![t] = x]
    PROVE  /\ (job[t] \in Holding <=> x \in Holding) =>
                 Cardinality(Holders') = Cardinality(Holders)
           /\ job[t] \in Holding /\ x \notin Holding =>
                 Cardinality(Holders') = Cardinality(Holders) - 1
           /\ job[t] \notin Holding /\ x \in Holding =>
                 Cardinality(Holders') = Cardinality(Holders) + 1
<1>1. \A u \in Tasks : job'[u] = IF u = t THEN x ELSE job[u]
  BY DEF Shape
<1>2. ASSUME job[t] \in Holding <=> x \in Holding
      PROVE  Holders' = Holders
  BY <1>1, <1>2 DEF Holders
<1>3. ASSUME job[t] \in Holding, x \notin Holding
      PROVE  Cardinality(Holders') = Cardinality(Holders) - 1
  <2>1. Holders' = Holders \ {t} /\ t \in Holders
    BY <1>1, <1>3 DEF Holders
  <2> QED
    BY <2>1, HoldersFinite, FS_RemoveElement
<1>4. ASSUME job[t] \notin Holding, x \in Holding
      PROVE  Cardinality(Holders') = Cardinality(Holders) + 1
  <2>1. Holders' = Holders \cup {t} /\ t \notin Holders
    BY <1>1, <1>4 DEF Holders
  <2> QED
    BY <2>1, HoldersFinite, FS_AddElement
<1> QED
  BY <1>2, <1>3, <1>4

LEMMA PermitsStep ==
    Shape /\ OnePlace /\ PermitsBalanced /\ [Next]_vars => PermitsBalanced'
<1> SUFFICES ASSUME Shape, OnePlace, PermitsBalanced, [Next]_vars
             PROVE  PermitsBalanced'
  OBVIOUS
<1>1. /\ Cardinality(Holders) \in Nat /\ permits \in Nat /\ MaxConcurrent \in Nat
      /\ permits + Cardinality(Holders) = MaxConcurrent
  BY HoldersFinite, WorkerAssumption DEF Shape, PermitsBalanced
<1>2. ASSUME UNCHANGED <<job, permits>>
      PROVE  PermitsBalanced'
  <2>1. Holders' = Holders
    BY <1>2 DEF Holders
  <2> QED
    BY <1>2, <2>1 DEF PermitsBalanced
<1>3. ASSUME NEW t \in Tasks, NEW x \in JobState,
             job[t] \in Holding <=> x \in Holding,
             job' = [job EXCEPT ![t] = x], UNCHANGED permits
      PROVE  PermitsBalanced'
  <2>1. Cardinality(Holders') = Cardinality(Holders)
    BY <1>3, HoldersMove
  <2> QED
    BY <1>3, <2>1 DEF PermitsBalanced
<1>4. ASSUME NEW t \in Tasks, job[t] \in Holding, Leave(t)
      PROVE  PermitsBalanced'
  <2>1. job' = [job EXCEPT ![t] = "gone"] /\ permits' = permits + 1
    BY <1>4 DEF Leave
  <2>2. "gone" \in JobState /\ "gone" \notin Holding
    BY DEF JobState, Holding
  <2>3. Cardinality(Holders') = Cardinality(Holders) - 1
    BY <1>4, <2>1, <2>2, HoldersMove
  <2> QED
    BY <1>1, <2>1, <2>3 DEF PermitsBalanced
<1>5. ASSUME NEW t \in Tasks, job[t] \in Holding, RuleTurn(t)
      PROVE  PermitsBalanced'
  <2>1. CASE Leave(t)
    BY <1>4, <1>5, <2>1
  <2>2. CASE job' = [job EXCEPT ![t] = "ruleput"] /\ UNCHANGED permits
    BY <1>3, <1>5, <2>2 DEF Holding, JobState
  <2> QED
    BY <1>5, <2>1, <2>2 DEF RuleTurn
<1>6. ASSUME Spawn
      PROVE  PermitsBalanced'
  <2>1. /\ inHand \in Tasks /\ job[inHand] = "none"
        /\ job' = [job EXCEPT ![inHand] = "waiting"] /\ UNCHANGED permits
    BY <1>6 DEF Spawn, OnePlace, ReaderOnce, Shape
  <2> QED
    BY <1>3, <2>1 DEF Holding, JobState
<1>7. ASSUME Acquire
      PROVE  PermitsBalanced'
  <2> DEFINE h == Head(lineup)
  <2>1. /\ lineup # <<>> /\ h \in Tasks
        /\ \/ job' = [job EXCEPT ![h] = "gone"] /\ permits' = permits
           \/ job' = [job EXCEPT ![h] = "fast"] /\ permits' = permits - 1
    BY <1>7, AcquireFacts
  <2>2. job[h] = "waiting"
    BY <2>1, TailFacts DEF OnePlace, LineupOnce, Shape
  <2> HIDE DEF h
  <2>3. CASE job' = [job EXCEPT ![h] = "gone"] /\ permits' = permits
    BY <1>3, <2>1, <2>2, <2>3 DEF Holding, JobState
  <2>4. CASE job' = [job EXCEPT ![h] = "fast"] /\ permits' = permits - 1
    <3>1. Cardinality(Holders') = Cardinality(Holders) + 1
      BY <2>1, <2>2, <2>4, HoldersMove DEF Holding, JobState
    <3> QED
      BY <1>1, <2>4, <3>1 DEF PermitsBalanced
  <2> QED
    BY <2>1, <2>3, <2>4
<1>8. ASSUME NEW t \in Tasks, FastPath(t) \/ Agent(t)
      PROVE  PermitsBalanced'
  <2>1. /\ job[t] \in {"fast", "agent"} /\ UNCHANGED permits
        /\ \/ job' = [job EXCEPT ![t] = "saving"]
           \/ job' = [job EXCEPT ![t] = "agent"]
    BY <1>8 DEF FastPath, Agent
  <2> QED
    BY <1>3, <2>1 DEF Holding, JobState
<1>9. ASSUME NEW t \in Tasks, Raise(t)
      PROVE  PermitsBalanced'
  BY <1>4, <1>9 DEF Raise, Holding
<1>10. ASSUME NEW t \in Tasks, SaveNow(t) \/ DbPut(t)
       PROVE  PermitsBalanced'
  <2>1. job[t] \in {"saving", "dbput"}
    BY <1>10 DEF SaveNow, DbPut
  <2>2. CASE RuleTurn(t)
    BY <1>5, <2>1, <2>2 DEF Holding
  <2>3. CASE job' = [job EXCEPT ![t] = "dbput"] /\ UNCHANGED permits
    BY <1>3, <2>1, <2>3 DEF Holding, JobState
  <2> QED
    BY <1>10, <2>2, <2>3, SaveFacts
<1>11. ASSUME NEW t \in Tasks, DbPutTimeout(t)
       PROVE  PermitsBalanced'
  BY <1>5, <1>11 DEF DbPutTimeout, Holding
<1>12. ASSUME NEW t \in Tasks, RulePut(t) \/ RulePutTimeout(t)
       PROVE  PermitsBalanced'
  BY <1>4, <1>12 DEF RulePut, RulePutTimeout, Holding
<1>13. ASSUME Crash
       PROVE  PermitsBalanced'
  <2>1. permits' = MaxConcurrent /\ \A t \in Tasks : job'[t] \in {"gone", "none"}
    BY <1>13 DEF Crash
  <2>2. Holders' = {}
    BY <2>1 DEF Holders, Holding
  <2> QED
    BY <1>1, <2>1, <2>2, FS_EmptySet DEF PermitsBalanced
<1>14. ASSUME NEW t \in Tasks, Push(t)
       PROVE  PermitsBalanced'
  BY <1>2, <1>14 DEF Push, jobVars
<1>15. ASSUME \/ Deliver \/ Ack \/ DbTake \/ DbCommit \/ DbFail
              \/ RuleTake \/ RuleDone \/ Restart \/ UNCHANGED vars
       PROVE  PermitsBalanced'
  BY <1>2, <1>15 DEF Deliver, Ack, DbTake, DbCommit, DbFail, RuleTake, RuleDone,
                     Restart, vars, jobVars
<1> QED
  BY <1>6, <1>7, <1>8, <1>9, <1>10, <1>11, <1>12, <1>13, <1>14, <1>15
     DEF Next, JobStep

-----------------------------------------------------------------------------
(* What becomes of a task.                                                 *)

Settled(t) == fate[t] # "open"

(* A reason once given is never taken back, and in one step a reason is    *)
(* given only to a task whose row can no longer come.                      *)
LEMMA FateKept ==
    ASSUME Shape, OnePlace, [Next]_vars, NEW u \in Tasks, Settled(u)
    PROVE  Settled(u)'
<1> USE DEF Settled
<1>1. ASSUME NEW t \in Tasks, Push(t)
      PROVE  Settled(u)'
  <2>1. fate' = fate \/ fate' = [fate EXCEPT ![Head(stream)] = "trimmed"]
    BY <1>1, PushFacts
  <2> QED
    BY <2>1 DEF Shape
<1>2. ASSUME Acquire
      PROVE  Settled(u)'
  <2>1. fate' = fate \/ fate' = [fate EXCEPT ![Head(lineup)] = "failed"]
    BY <1>2, AcquireFacts
  <2> QED
    BY <2>1 DEF Shape
<1>3. ASSUME NEW t \in Tasks, Raise(t) \/ DbPutTimeout(t)
      PROVE  Settled(u)'
  BY <1>3 DEF Raise, DbPutTimeout, Shape
<1>4. ASSUME DbFail \/ Crash
      PROVE  Settled(u)'
  BY <1>4 DEF DbFail, Crash, Shape
<1>5. CASE UNCHANGED fate
  BY <1>5
<1> QED
  BY <1>1, <1>2, <1>3, <1>4, <1>5
     DEF Next, JobStep, FastPath, Agent, SaveNow, DbPut, RulePut, RulePutTimeout,
         Deliver, Spawn, Ack, DbTake, DbCommit, RuleTake, RuleDone, Restart, vars

(* The places from which a task's row may still come, or has come.         *)
OnWay(t) ==
    \/ t \in Elements(stream)
    \/ reader = "handed" /\ t = inHand
    \/ job[t] \in {"waiting", "fast", "agent", "saving", "dbput"}
    \/ t \in Elements(dbq) \/ t = dbBusy \/ t \in rows

(* A step that moves tasks but neither accepts nor loses one.              *)
LEMMA NothingLost ==
    ASSUME NoSilentLoss, UNCHANGED <<pushed, fate>>,
           \A u \in Tasks : OnWay(u)' <=> OnWay(u)
    PROVE  NoSilentLoss'
<1>1. \A u \in Tasks : Lost(u) <=> u \in pushed /\ ~OnWay(u)
  BY DEF Lost, OnWay, InMemory
<1>2. \A u \in Tasks : Lost(u)' <=> u \in pushed' /\ ~OnWay(u)'
  BY DEF Lost, OnWay, InMemory
<1> QED
  BY <1>1, <1>2 DEF NoSilentLoss

(* A step that loses one task and says so.                                 *)
LEMMA OneLost ==
    ASSUME Shape, NoSilentLoss, NEW h \in Tasks, NEW f \in Fate \ {"open"},
           h \in pushed, UNCHANGED pushed, fate' = [fate EXCEPT ![h] = f],
           ~OnWay(h)',
           \A u \in Tasks \ {h} : OnWay(u)' <=> OnWay(u)
    PROVE  NoSilentLoss'
<1>1. \A u \in Tasks : Lost(u) <=> u \in pushed /\ ~OnWay(u)
  BY DEF Lost, OnWay, InMemory
<1>2. \A u \in Tasks : Lost(u)' <=> u \in pushed' /\ ~OnWay(u)'
  BY DEF Lost, OnWay, InMemory
<1>3. \A u \in Tasks : fate'[u] = IF u = h THEN f ELSE fate[u]
  BY DEF Shape
<1> QED
  BY <1>1, <1>2, <1>3 DEF NoSilentLoss, Fate

(* A coroutine moves on and its task stays on its way.                     *)
LEMMA OnWayJob ==
    ASSUME Shape, NEW t \in Tasks, NEW x, job' = [job EXCEPT ![t] = x],
           UNCHANGED <<streamVars, readerVars, dbVars>>,
           NEW u \in Tasks, u # t
    PROVE  OnWay(u)' <=> OnWay(u)
BY DEF Shape, OnWay, streamVars, readerVars, dbVars

LEMMA LossStep ==
    Shape /\ OnePlace /\ NoSilentLoss /\ [Next]_vars => NoSilentLoss'
<1> SUFFICES ASSUME Shape, OnePlace, NoSilentLoss, [Next]_vars
             PROVE  NoSilentLoss'
  OBVIOUS
<1> USE DEF streamVars, processVars, readerVars, jobVars, dbVars, ruleVars
<1>0. ASSUME UNCHANGED <<pushed, stream, reader, inHand, job, dbq, dbBusy, rows, fate>>
      PROVE  NoSilentLoss'
  BY <1>0, NothingLost DEF OnWay
<1>1. ASSUME NEW t \in Tasks, Push(t)
      PROVE  NoSilentLoss'
  <2>1. /\ t \notin pushed /\ pushed' = pushed \cup {t}
        /\ UNCHANGED <<readerVars, jobVars, dbVars>>
    BY <1>1 DEF Push
  <2>2. ~Settled(t)
    BY <2>1 DEF NoSilentLoss, Lost, Settled
  <2>3. \A u \in Tasks : u \in Elements(stream) => u # t
    BY <2>1 DEF OnePlace, StreamOnce
  <2>4. \A u \in Tasks : Lost(u) <=> u \in pushed /\ ~OnWay(u)
    BY DEF Lost, OnWay, InMemory
  <2>5. \A u \in Tasks : Lost(u)' <=> u \in pushed' /\ ~OnWay(u)'
    BY DEF Lost, OnWay, InMemory
  <2>6. CASE stream' = Append(stream, t) /\ UNCHANGED fate
    <3>1. Elements(stream') = Elements(stream) \cup {t}
      BY <2>6, AppendFacts DEF Shape
    <3>2. \A u \in Tasks : OnWay(u)' <=> OnWay(u) \/ u = t
      BY <2>1, <3>1 DEF OnWay
    <3> QED
      BY <2>1, <2>2, <2>4, <2>5, <2>6, <3>2 DEF NoSilentLoss, Settled
  <2>7. CASE /\ stream # <<>> /\ stream' = Append(Tail(stream), t)
             /\ Tail(stream) \in Seq(Tasks)
             /\ fate' = [fate EXCEPT ![Head(stream)] = "trimmed"]
    <3>1. PICK h \in Tasks : h = Head(stream)
      BY <2>7, TailFacts DEF Shape
    <3>2. PICK rest \in Seq(Tasks) : rest = Tail(stream)
      BY <2>7
    <3>3. /\ h \notin Elements(rest)
          /\ Elements(stream) = Elements(rest) \cup {h}
      BY <2>7, <3>1, <3>2, TailFacts DEF Shape, OnePlace, StreamOnce
    <3>4. Elements(stream') = Elements(rest) \cup {t}
      <4>1. Elements(Append(rest, t)) = Elements(rest) \cup {t}
        BY AppendFacts
      <4> QED
        BY <2>7, <3>2, <4>1
    <3>5. h \in pushed /\ job[h] = "none" /\ h # t
      BY <2>3, <3>3 DEF OnePlace, StreamOnce
    <3>6. h \notin Saved /\ ~(reader = "handed" /\ h = inHand)
      BY <3>3, <3>5 DEF OnePlace, SaveOnce, ReaderOnce
    <3>7. ~OnWay(h)'
      <4>1. h \notin Elements(dbq) /\ h # dbBusy /\ h \notin rows
        BY <3>3, <3>6, WorkerAssumption DEF Saved
      <4> QED
        BY <2>1, <3>3, <3>4, <3>5, <3>6, <4>1 DEF OnWay
    <3>8. \A u \in Tasks \ {h} : OnWay(u)' <=> OnWay(u) \/ u = t
      BY <2>1, <3>3, <3>4 DEF OnWay
    <3>9. \A u \in Tasks : fate'[u] = IF u = h THEN "trimmed" ELSE fate[u]
      BY <2>7, <3>1 DEF Shape
    <3> QED
      BY <2>1, <2>2, <2>4, <2>5, <3>5, <3>7, <3>8, <3>9 DEF NoSilentLoss, Settled
  <2> QED
    BY <1>1, <2>6, <2>7, PushFacts
<1>2. ASSUME Deliver
      PROVE  NoSilentLoss'
  <2>1. /\ reader = "reading" /\ reader' = "handed" /\ inHand' = Head(stream)
        /\ stream # <<>> /\ stream' = Tail(stream)
        /\ UNCHANGED <<pushed, jobVars, dbVars, fate>>
    BY <1>2 DEF Deliver
  <2>2. Elements(stream) = Elements(stream') \cup {Head(stream)}
    BY <2>1, TailFacts DEF Shape
  <2>3. \A u \in Tasks : OnWay(u)' <=> OnWay(u)
    BY <2>1, <2>2 DEF OnWay
  <2> QED
    BY <2>1, <2>3, NothingLost
<1>3. ASSUME Spawn
      PROVE  NoSilentLoss'
  <2>1. /\ reader = "handed" /\ reader' = "acking" /\ inHand \in Tasks
        /\ job' = [job EXCEPT ![inHand] = "waiting"]
        /\ UNCHANGED <<streamVars, inHand, dbVars, fate>>
    BY <1>3 DEF Spawn, OnePlace, ReaderOnce, Shape
  <2>2. \A u \in Tasks : job'[u] = IF u = inHand THEN "waiting" ELSE job[u]
    BY <2>1 DEF Shape
  <2>3. \A u \in Tasks : OnWay(u)' <=> OnWay(u)
    BY <2>1, <2>2 DEF OnWay
  <2> QED
    BY <2>1, <2>3, NothingLost
<1>4. ASSUME Ack
      PROVE  NoSilentLoss'
  <2>1. \A u \in Tasks : OnWay(u)' <=> OnWay(u)
    BY <1>4 DEF Ack, OnWay
  <2> QED
    BY <1>4, <2>1, NothingLost DEF Ack
<1>5. ASSUME NEW t \in Tasks, job[t] \notin {"none", "ruleput", "gone"},
             job' = [job EXCEPT ![t] = "gone"],
             NEW f \in Fate \ {"open"}, fate' = [fate EXCEPT ![t] = f],
             UNCHANGED <<streamVars, readerVars, dbVars>>
      PROVE  NoSilentLoss'
  <2>1. t \in pushed /\ t \notin Saved
    BY <1>5 DEF OnePlace, LineupOnce, SaveOnce
  <2>2. t \notin Elements(stream) /\ ~(reader = "handed" /\ t = inHand)
    BY <1>5 DEF OnePlace, StreamOnce, ReaderOnce
  <2>3. t \notin Elements(dbq) /\ t # dbBusy /\ t \notin rows
    BY <2>1, WorkerAssumption DEF Saved
  <2>4. job'[t] = "gone"
    BY <1>5 DEF Shape
  <2>5. ~OnWay(t)'
    BY <1>5, <2>2, <2>3, <2>4 DEF OnWay
  <2>6. \A u \in Tasks \ {t} : OnWay(u)' <=> OnWay(u)
    BY <1>5 DEF Shape, OnWay
  <2> QED
    BY <1>5, <2>1, <2>5, <2>6, OneLost
<1>6. ASSUME Acquire
      PROVE  NoSilentLoss'
  <2> DEFINE h == Head(lineup)
  <2>1. /\ lineup # <<>> /\ h \in Tasks
        /\ \/ /\ job' = [job EXCEPT ![h] = "gone"]
              /\ fate' = [fate EXCEPT ![h] = "failed"]
           \/ job' = [job EXCEPT ![h] = "fast"] /\ fate' = fate
        /\ UNCHANGED <<streamVars, readerVars, dbVars>>
    BY <1>6, AcquireFacts
  <2>2. job[h] = "waiting"
    BY <2>1, TailFacts DEF OnePlace, LineupOnce, Shape
  <2> HIDE DEF h
  <2>3. CASE /\ job' = [job EXCEPT ![h] = "gone"]
             /\ fate' = [fate EXCEPT ![h] = "failed"]
    BY <1>5, <2>1, <2>2, <2>3 DEF Fate
  <2>4. CASE job' = [job EXCEPT ![h] = "fast"] /\ fate' = fate
    <3>1. \A u \in Tasks : job'[u] = IF u = h THEN "fast" ELSE job[u]
      BY <2>4 DEF Shape
    <3>2. \A u \in Tasks : OnWay(u)' <=> OnWay(u)
      BY <2>1, <2>2, <3>1 DEF OnWay
    <3> QED
      BY <2>1, <2>4, <3>2, NothingLost
  <2> QED
    BY <2>1, <2>3, <2>4
<1>7. ASSUME NEW t \in Tasks,
             NEW x \in {"fast", "agent", "saving", "dbput"},
             job[t] \in {"fast", "agent", "saving", "dbput"},
             job' = [job EXCEPT ![t] = x],
             UNCHANGED <<streamVars, readerVars, dbVars, fate>>
      PROVE  NoSilentLoss'
  <2>1. \A u \in Tasks : job'[u] = IF u = t THEN x ELSE job[u]
    BY <1>7 DEF Shape
  <2>2. \A u \in Tasks : OnWay(u)' <=> OnWay(u)
    BY <1>7, <2>1 DEF OnWay
  <2> QED
    BY <1>7, <2>2, NothingLost
<1>8. ASSUME NEW t \in Tasks, FastPath(t) \/ Agent(t)
      PROVE  NoSilentLoss'
  <2>1. /\ job[t] \in {"fast", "agent"}
        /\ \E x \in {"saving", "agent"} : job' = [job EXCEPT ![t] = x]
        /\ UNCHANGED <<streamVars, readerVars, dbVars, fate>>
    BY <1>8 DEF FastPath, Agent
  <2> QED
    BY <1>7, <2>1
<1>9. ASSUME NEW t \in Tasks, Raise(t)
      PROVE  NoSilentLoss'
  <2>1. /\ job[t] \in {"fast", "agent"} /\ job' = [job EXCEPT ![t] = "gone"]
        /\ fate' = [fate EXCEPT ![t] = "failed"]
        /\ UNCHANGED <<streamVars, readerVars, dbVars>>
    BY <1>9 DEF Raise, Leave
  <2> QED
    BY <1>5, <2>1 DEF Fate
<1>10. ASSUME NEW t \in Tasks, RuleTurn(t)
       PROVE  \E x \in {"ruleput", "gone"} : job' = [job EXCEPT ![t] = x]
  BY <1>10, RuleTurnFacts
<1>11. ASSUME NEW t \in Tasks, SaveNow(t) \/ DbPut(t)
       PROVE  NoSilentLoss'
  <2>1. /\ job[t] \in {"saving", "dbput"}
        /\ UNCHANGED <<streamVars, readerVars, dbBusy, rows, fate>>
    BY <1>11 DEF SaveNow, DbPut
  <2>2. CASE dbq' = Append(dbq, t) /\ RuleTurn(t)
    <3>1. PICK x \in {"ruleput", "gone"} : job' = [job EXCEPT ![t] = x]
      BY <1>10, <2>2
    <3>2. \A u \in Tasks : job'[u] = IF u = t THEN x ELSE job[u]
      BY <3>1 DEF Shape
    <3>3. Elements(dbq') = Elements(dbq) \cup {t}
      BY <2>2, AppendFacts DEF Shape
    <3>4. \A u \in Tasks : OnWay(u)' <=> OnWay(u)
      BY <2>1, <3>2, <3>3 DEF OnWay
    <3> QED
      BY <2>1, <3>4, NothingLost
  <2>3. CASE job' = [job EXCEPT ![t] = "dbput"] /\ UNCHANGED dbq
    BY <1>7, <2>1, <2>3
  <2> QED
    BY <1>11, <2>2, <2>3, SaveFacts
<1>12. ASSUME NEW t \in Tasks, DbPutTimeout(t)
       PROVE  NoSilentLoss'
  <2>1. /\ job[t] = "dbput" /\ fate' = [fate EXCEPT ![t] = "skipped"]
        /\ RuleTurn(t)
        /\ UNCHANGED <<streamVars, readerVars, dbVars>>
    BY <1>12 DEF DbPutTimeout
  <2>2. PICK x \in {"ruleput", "gone"} : job' = [job EXCEPT ![t] = x]
    BY <1>10, <2>1
  <2>3. \A u \in Tasks : job'[u] = IF u = t THEN x ELSE job[u]
    BY <2>2 DEF Shape
  <2>4. t \in pushed /\ t \notin Saved
    BY <2>1 DEF OnePlace, LineupOnce, SaveOnce
  <2>5. t \notin Elements(stream) /\ ~(reader = "handed" /\ t = inHand)
    BY <2>1 DEF OnePlace, StreamOnce, ReaderOnce
  <2>6. t \notin Elements(dbq) /\ t # dbBusy /\ t \notin rows
    BY <2>4, WorkerAssumption DEF Saved
  <2>7. ~OnWay(t)'
    BY <2>1, <2>3, <2>5, <2>6 DEF OnWay
  <2>8. \A u \in Tasks \ {t} : OnWay(u)' <=> OnWay(u)
    BY <2>1, <2>3 DEF OnWay
  <2> QED
    BY <2>1, <2>4, <2>7, <2>8, OneLost DEF Fate
<1>13. ASSUME NEW t \in Tasks, RulePut(t) \/ RulePutTimeout(t)
       PROVE  NoSilentLoss'
  <2>1. /\ job[t] = "ruleput" /\ job' = [job EXCEPT ![t] = "gone"]
        /\ UNCHANGED <<streamVars, readerVars, dbVars, fate>>
    BY <1>13 DEF RulePut, RulePutTimeout, Leave
  <2>2. \A u \in Tasks : job'[u] = IF u = t THEN "gone" ELSE job[u]
    BY <2>1 DEF Shape
  <2>3. \A u \in Tasks : OnWay(u)' <=> OnWay(u)
    BY <2>1, <2>2 DEF OnWay
  <2> QED
    BY <2>1, <2>3, NothingLost
<1>14. ASSUME DbTake
       PROVE  NoSilentLoss'
  <2>1. /\ dbBusy = NoTask /\ dbq # <<>>
        /\ dbBusy' = Head(dbq) /\ dbq' = Tail(dbq)
        /\ UNCHANGED <<streamVars, readerVars, jobVars, rows, fate>>
    BY <1>14 DEF DbTake
  <2>2. Elements(dbq) = Elements(dbq') \cup {Head(dbq)}
    BY <2>1, TailFacts DEF Shape
  <2>3. \A u \in Tasks : OnWay(u)' <=> OnWay(u)
    BY <2>1, <2>2, WorkerAssumption DEF OnWay
  <2> QED
    BY <2>1, <2>3, NothingLost
<1>15. ASSUME DbCommit
       PROVE  NoSilentLoss'
  <2>1. \A u \in Tasks : OnWay(u)' <=> OnWay(u)
    BY <1>15, WorkerAssumption DEF DbCommit, OnWay
  <2> QED
    BY <1>15, <2>1, NothingLost DEF DbCommit
<1>16. ASSUME DbFail
       PROVE  NoSilentLoss'
  <2>1. PICK t \in Tasks : t = dbBusy
    BY <1>16 DEF DbFail, Shape
  <2>2. /\ dbBusy' = NoTask /\ fate' = [fate EXCEPT ![t] = "dbfailed"]
        /\ UNCHANGED <<streamVars, readerVars, jobVars, dbq, rows>>
    BY <1>16, <2>1 DEF DbFail
  <2>3. t \notin Elements(dbq) /\ t \notin rows /\ job[t] \in {"ruleput", "gone"}
    BY <2>1, WorkerAssumption DEF OnePlace, SaveOnce, Saved
  <2>4. /\ t \in pushed /\ t \notin Elements(stream)
        /\ ~(reader = "handed" /\ t = inHand)
    BY <2>3 DEF OnePlace, LineupOnce, StreamOnce, ReaderOnce
  <2>5. ~OnWay(t)'
    BY <2>2, <2>3, <2>4, WorkerAssumption DEF OnWay
  <2>6. \A u \in Tasks \ {t} : OnWay(u)' <=> OnWay(u)
    BY <2>1, <2>2, WorkerAssumption DEF OnWay
  <2> QED
    BY <2>2, <2>4, <2>5, <2>6, OneLost DEF Fate
<1>17. ASSUME RuleTake \/ RuleDone \/ Restart \/ UNCHANGED vars
       PROVE  NoSilentLoss'
  BY <1>0, <1>17 DEF RuleTake, RuleDone, Restart, vars
<1>18. ASSUME Crash
       PROVE  NoSilentLoss'
  <2>1. /\ reader' = "reading" /\ dbq' = <<>> /\ dbBusy' = NoTask
        /\ UNCHANGED <<streamVars, rows>>
    BY <1>18 DEF Crash
  <2>2. \A u \in Tasks : /\ job'[u] \in {"gone", "none"}
                         /\ fate'[u] = IF u \in InMemory THEN "crashed" ELSE fate[u]
    BY <1>18 DEF Crash
  <2>3. \A u \in Tasks : OnWay(u)' <=> u \in Elements(stream) \/ u \in rows
    BY <2>1, <2>2, EmptyFacts, WorkerAssumption DEF OnWay
  <2>4. \A u \in Tasks : Lost(u) <=> u \in pushed /\ ~OnWay(u)
    BY DEF Lost, OnWay, InMemory
  <2>5. \A u \in Tasks : Lost(u)' <=> u \in pushed' /\ ~OnWay(u)'
    BY DEF Lost, OnWay, InMemory
  <2>6. \A u \in Tasks : OnWay(u) <=> u \in Elements(stream) \cup rows \cup InMemory
    BY DEF OnWay, InMemory
  <2>7. ASSUME NEW u \in InMemory
        PROVE  u \in pushed /\ u \notin Elements(stream) /\ u \notin rows
    <3>1. CASE job[u] \in {"waiting", "fast", "agent", "saving", "dbput"}
      BY <3>1 DEF InMemory, OnePlace, StreamOnce, LineupOnce, SaveOnce, Saved
    <3>2. CASE u \in Elements(dbq) \cup {dbBusy}
      <4>1. u \in Saved /\ u \notin rows /\ u \in Tasks
        BY <3>2, WorkerAssumption DEF InMemory, OnePlace, SaveOnce, Saved
      <4> QED
        BY <4>1 DEF OnePlace, StreamOnce, LineupOnce, SaveOnce
    <3>3. CASE reader = "handed" /\ u = inHand
      BY <3>3 DEF OnePlace, ReaderOnce, SaveOnce, Saved
    <3> QED
      BY <3>1, <3>2, <3>3 DEF InMemory
  <2> QED
    BY <2>1, <2>2, <2>3, <2>4, <2>5, <2>6, <2>7 DEF NoSilentLoss
<1> QED
  BY <1>1, <1>2, <1>3, <1>4, <1>6, <1>8, <1>9, <1>11, <1>12, <1>13, <1>14,
     <1>15, <1>16, <1>17, <1>18 DEF Next, JobStep

-----------------------------------------------------------------------------
(* The save turn precedes the rule turn.                                   *)

PastSaveTurn(t) == t \in Saved \/ Settled(t)

InRuleTurn(t) ==
    job[t] = "ruleput" \/ t \in Elements(ruleq) \/ t = ruleBusy \/ t \in alerted

SaveTurnDone == \A t \in Tasks : InRuleTurn(t) => PastSaveTurn(t)

LEMMA PastSaveTurnKept ==
    ASSUME Shape, OnePlace, [Next]_vars, NEW u \in Tasks, PastSaveTurn(u)
    PROVE  PastSaveTurn(u)'
<1>1. CASE Settled(u)
  BY <1>1, FateKept DEF PastSaveTurn
<1>2. CASE u \in Saved
  <2>1. u \in Elements(dbq) \/ u = dbBusy \/ u \in rows
    BY <1>2 DEF Saved
  <2>2. ASSUME u \in Elements(dbq') \/ u = dbBusy' \/ u \in rows'
        PROVE  PastSaveTurn(u)'
    BY <2>2, WorkerAssumption DEF PastSaveTurn, Saved
  <2>3. ASSUME NEW t \in Tasks, SaveNow(t) \/ DbPut(t)
        PROVE  PastSaveTurn(u)'
    <3>1. dbq' = dbq \/ dbq' = Append(dbq, t)
      BY <2>3, SaveFacts
    <3>2. Elements(dbq) \subseteq Elements(Append(dbq, t))
      BY AppendFacts DEF Shape
    <3>3. Elements(dbq) \subseteq Elements(dbq')
      BY <3>1, <3>2
    <3> QED
      BY <2>1, <2>2, <2>3, <3>3 DEF SaveNow, DbPut
  <2>4. ASSUME DbTake
        PROVE  PastSaveTurn(u)'
    <3>1. Elements(dbq) = Elements(dbq') \cup {Head(dbq)}
      BY <2>4, TailFacts DEF DbTake, Shape
    <3> QED
      BY <2>1, <2>2, <2>4, <3>1, WorkerAssumption DEF DbTake
  <2>5. ASSUME DbCommit
        PROVE  PastSaveTurn(u)'
    BY <2>1, <2>2, <2>5 DEF DbCommit
  <2>6. ASSUME DbFail
        PROVE  PastSaveTurn(u)'
    <3>1. u = dbBusy => Settled(u)'
      BY <2>6 DEF DbFail, Shape, Settled
    <3> QED
      BY <2>1, <2>2, <2>6, <3>1 DEF DbFail, PastSaveTurn
  <2>7. ASSUME Crash
        PROVE  PastSaveTurn(u)'
    <3>1. u \in Elements(dbq) \cup {dbBusy} => Settled(u)'
      BY <2>7 DEF Crash, InMemory, Settled
    <3> QED
      BY <2>1, <2>2, <2>7, <3>1 DEF Crash, PastSaveTurn
  <2>8. ASSUME UNCHANGED dbVars
        PROVE  PastSaveTurn(u)'
    BY <2>1, <2>2, <2>8 DEF dbVars
  <2> QED
    BY <2>3, <2>4, <2>5, <2>6, <2>7, <2>8
       DEF Next, JobStep, Push, FastPath, Agent, Raise, DbPutTimeout, RulePut,
           RulePutTimeout, Deliver, Spawn, Ack, Acquire, RuleTake, RuleDone,
           Restart, vars
<1> QED
  BY <1>1, <1>2 DEF PastSaveTurn

LEMMA SaveTurnStep ==
    Shape /\ OnePlace /\ SaveTurnDone /\ [Next]_vars => SaveTurnDone'
<1> SUFFICES ASSUME Shape, OnePlace, SaveTurnDone, [Next]_vars,
                    NEW u \in Tasks, InRuleTurn(u)'
             PROVE  PastSaveTurn(u)'
  BY DEF SaveTurnDone
<1> USE DEF streamVars, processVars, readerVars, jobVars, dbVars, ruleVars
<1>1. SUFFICES ASSUME ~InRuleTurn(u)
               PROVE  PastSaveTurn(u)'
  BY PastSaveTurnKept DEF SaveTurnDone
<1>2. job[u] # "ruleput" /\ u \notin Elements(ruleq) /\ u # ruleBusy /\ u \notin alerted
  BY <1>1 DEF InRuleTurn
<1>3. job'[u] = "ruleput" \/ u \in Elements(ruleq') \/ u = ruleBusy' \/ u \in alerted'
  BY DEF InRuleTurn
<1>4. ASSUME NEW t \in Tasks, RuleTurn(t), UNCHANGED <<ruleBusy, alerted>>
      PROVE  u = t
  <2>1. /\ Elements(ruleq') \subseteq Elements(ruleq) \cup {t}
        /\ \E x \in {"gone", "ruleput"} : job' = [job EXCEPT ![t] = x]
    BY <1>4, RuleTurnFacts
  <2> QED
    BY <1>2, <1>3, <1>4, <2>1 DEF Shape
<1>5. ASSUME NEW t \in Tasks, SaveNow(t) \/ DbPut(t)
      PROVE  PastSaveTurn(u)'
  <2>1. UNCHANGED <<ruleBusy, alerted>>
    BY <1>5 DEF SaveNow, DbPut
  <2>2. CASE dbq' = Append(dbq, t) /\ RuleTurn(t)
    <3>1. u = t
      BY <1>4, <2>1, <2>2
    <3>2. t \in Elements(dbq')
      BY <2>2, AppendFacts DEF Shape
    <3> QED
      BY <3>1, <3>2 DEF PastSaveTurn, Saved
  <2>3. CASE job' = [job EXCEPT ![t] = "dbput"] /\ UNCHANGED ruleq
    BY <1>2, <1>3, <2>1, <2>3 DEF Shape
  <2> QED
    BY <1>5, <2>2, <2>3, SaveFacts
<1>6. ASSUME NEW t \in Tasks, DbPutTimeout(t)
      PROVE  PastSaveTurn(u)'
  <2>1. u = t
    BY <1>4, <1>6 DEF DbPutTimeout
  <2> QED
    BY <1>6, <2>1 DEF DbPutTimeout, PastSaveTurn, Settled, Shape
<1>7. ASSUME NEW t \in Tasks, RulePut(t)
      PROVE  FALSE
  <2>1. Elements(ruleq') = Elements(ruleq) \cup {t}
    BY <1>7, AppendFacts DEF RulePut, Shape
  <2> QED
    BY <1>2, <1>3, <1>7, <2>1 DEF RulePut, Leave, Shape
<1>8. ASSUME RuleTake
      PROVE  FALSE
  <2>1. Elements(ruleq) = Elements(ruleq') \cup {Head(ruleq)}
    BY <1>8, TailFacts DEF RuleTake, Shape
  <2> QED
    BY <1>2, <1>3, <1>8, <2>1 DEF RuleTake
<1>9. ASSUME RuleDone
      PROVE  FALSE
  BY <1>2, <1>3, <1>9, WorkerAssumption DEF RuleDone
<1>10. ASSUME Crash
       PROVE  FALSE
  BY <1>2, <1>3, <1>10, EmptyFacts, WorkerAssumption DEF Crash
<1>11. ASSUME Acquire
       PROVE  FALSE
  <2>1. /\ \E x \in {"gone", "fast"} : job' = [job EXCEPT ![Head(lineup)] = x]
        /\ UNCHANGED ruleVars
    BY <1>11, AcquireFacts
  <2> QED
    BY <1>2, <1>3, <2>1 DEF Shape
<1>12. ASSUME NEW t \in Tasks, FastPath(t) \/ Agent(t) \/ Raise(t) \/ RulePutTimeout(t)
       PROVE  FALSE
  BY <1>2, <1>3, <1>12 DEF FastPath, Agent, Raise, RulePutTimeout, Leave, Shape
<1>13. ASSUME Spawn
       PROVE  FALSE
  BY <1>2, <1>3, <1>13 DEF Spawn, Shape
<1>14. ASSUME UNCHANGED <<job, ruleVars>>
       PROVE  FALSE
  BY <1>2, <1>3, <1>14
<1> QED
  BY <1>5, <1>6, <1>7, <1>8, <1>9, <1>10, <1>11, <1>12, <1>13, <1>14
     DEF Next, JobStep, Push, Deliver, Ack, DbTake, DbCommit, DbFail, Restart, vars

-----------------------------------------------------------------------------
(* The pending list.                                                       *)

PendingOnce ==
    /\ reader # "reading" => inHand \in pel
    /\ PendingIsNotBacklog

LEMMA PendingStep ==
    Shape /\ OnePlace /\ PendingOnce /\ [Next]_vars => PendingOnce'
<1> SUFFICES ASSUME Shape, OnePlace, PendingOnce, [Next]_vars
             PROVE  PendingOnce'
  OBVIOUS
<1>1. /\ IsFiniteSet(pel) /\ Cardinality(pel) \in Nat /\ crashes \in Nat
      /\ Cardinality(pel) <= crashes + (IF inHand = NoTask THEN 0 ELSE 1)
  <2>1. IsFiniteSet(pel)
    BY FS_Subset, WorkerAssumption DEF Shape
  <2> QED
    BY <2>1, FS_CardinalityType DEF Shape, PendingOnce, PendingIsNotBacklog
<1>2. ASSUME Deliver
      PROVE  PendingOnce'
  <2>1. /\ inHand = NoTask /\ pel' = pel \cup {Head(stream)}
        /\ inHand' = Head(stream) /\ Head(stream) \in Tasks
        /\ crashes' = crashes
    BY <1>2, TailFacts DEF Deliver, processVars, OnePlace, ReaderOnce, Shape
  <2>2. Cardinality(pel') <= Cardinality(pel) + 1 /\ Cardinality(pel') \in Nat
    <3>1. /\ IsFiniteSet(pel \cup {Head(stream)})
          /\ \/ Cardinality(pel \cup {Head(stream)}) = Cardinality(pel)
             \/ Cardinality(pel \cup {Head(stream)}) = Cardinality(pel) + 1
      BY <1>1, FS_AddElement
    <3> QED
      BY <1>1, <2>1, <3>1
  <2>3. Cardinality(pel') <= crashes' + (IF inHand' = NoTask THEN 0 ELSE 1)
    BY <1>1, <2>1, <2>2, WorkerAssumption
  <2> QED
    BY <2>1, <2>3 DEF PendingOnce, PendingIsNotBacklog
<1>3. ASSUME Ack
      PROVE  PendingOnce'
  <2>1. /\ inHand \in pel /\ inHand # NoTask /\ pel' = pel \ {inHand}
        /\ inHand' = NoTask /\ reader' = "reading" /\ crashes' = crashes
    BY <1>3 DEF Ack, processVars, PendingOnce, OnePlace, ReaderOnce
  <2>2. Cardinality(pel') = Cardinality(pel) - 1
    BY <1>1, <2>1, FS_RemoveElement
  <2>3. Cardinality(pel') <= crashes' + (IF inHand' = NoTask THEN 0 ELSE 1)
    BY <1>1, <2>1, <2>2
  <2> QED
    BY <2>1, <2>3 DEF PendingOnce, PendingIsNotBacklog
<1>4. ASSUME Crash
      PROVE  PendingOnce'
  <2>1. /\ inHand' = NoTask /\ reader' = "reading" /\ crashes' = crashes + 1
        /\ pel' = pel
    BY <1>4 DEF Crash, streamVars
  <2>2. Cardinality(pel') <= crashes' + (IF inHand' = NoTask THEN 0 ELSE 1)
    BY <1>1, <2>1
  <2> QED
    BY <2>1, <2>2 DEF PendingOnce, PendingIsNotBacklog
<1>5. ASSUME UNCHANGED <<pel, crashes, inHand>>, reader # "reading" \/ reader' = "reading"
      PROVE  PendingOnce'
  BY <1>5 DEF PendingOnce, PendingIsNotBacklog
<1>6. ASSUME Acquire
      PROVE  PendingOnce'
  BY <1>5, <1>6 DEF Acquire, streamVars, processVars, readerVars
<1> QED
  BY <1>2, <1>3, <1>4, <1>5, <1>6
     DEF Next, JobStep, Push, FastPath, Agent, Raise, SaveNow, DbPut, DbPutTimeout,
         RulePut, RulePutTimeout, Spawn, DbTake, DbCommit, DbFail, RuleTake,
         RuleDone, Restart, vars, streamVars, processVars, readerVars

-----------------------------------------------------------------------------
(* A coroutine that is gone never comes back.                              *)

LEMMA GoneKept ==
    ASSUME Shape, OnePlace, [Next]_vars, NEW u \in Tasks, job[u] = "gone"
    PROVE  job'[u] = "gone"
<1>1. ASSUME NEW t \in Tasks, job[t] # "gone", NEW x, job' = [job EXCEPT ![t] = x]
      PROVE  job'[u] = "gone"
  BY <1>1 DEF Shape
<1>2. ASSUME NEW t \in Tasks, RuleTurn(t), job[t] # "gone"
      PROVE  job'[u] = "gone"
  <2>1. PICK x \in {"gone", "ruleput"} : job' = [job EXCEPT ![t] = x]
    BY <1>2, RuleTurnFacts
  <2> QED
    BY <1>1, <1>2, <2>1
<1>3. ASSUME NEW t \in Tasks, SaveNow(t) \/ DbPut(t) \/ DbPutTimeout(t)
      PROVE  job'[u] = "gone"
  <2>1. job[t] # "gone"
    BY <1>3 DEF SaveNow, DbPut, DbPutTimeout
  <2>2. RuleTurn(t) \/ job' = [job EXCEPT ![t] = "dbput"]
    BY <1>3 DEF SaveNow, DbPut, DbPutTimeout
  <2> QED
    BY <1>1, <1>2, <2>1, <2>2
<1>4. ASSUME NEW t \in Tasks,
             FastPath(t) \/ Agent(t) \/ Raise(t) \/ RulePut(t) \/ RulePutTimeout(t)
      PROVE  job'[u] = "gone"
  BY <1>1, <1>4 DEF FastPath, Agent, Raise, RulePut, RulePutTimeout, Leave
<1>5. ASSUME Acquire
      PROVE  job'[u] = "gone"
  <2>1. /\ lineup # <<>> /\ Head(lineup) \in Tasks
        /\ \/ job' = [job EXCEPT ![Head(lineup)] = "gone"]
           \/ job' = [job EXCEPT ![Head(lineup)] = "fast"]
    BY <1>5, AcquireFacts
  <2>2. job[Head(lineup)] = "waiting"
    BY <2>1, TailFacts DEF OnePlace, LineupOnce, Shape
  <2> QED
    BY <1>1, <2>1, <2>2
<1>6. ASSUME Spawn
      PROVE  job'[u] = "gone"
  <2>1. inHand \in Tasks /\ job[inHand] = "none"
    BY <1>6 DEF Spawn, OnePlace, ReaderOnce, Shape
  <2> QED
    BY <1>1, <1>6, <2>1 DEF Spawn
<1>7. ASSUME Crash
      PROVE  job'[u] = "gone"
  BY <1>7 DEF Crash
<1>8. CASE UNCHANGED job
  BY <1>8
<1> QED
  BY <1>3, <1>4, <1>5, <1>6, <1>7, <1>8
     DEF Next, JobStep, Push, Deliver, Ack, DbTake, DbCommit, DbFail, RuleTake,
         RuleDone, Restart, vars, jobVars

-----------------------------------------------------------------------------
(* The inductive invariant and the safety theorems.                        *)

IInv ==
    /\ Shape
    /\ OnePlace
    /\ PermitsBalanced
    /\ NoSilentLoss
    /\ SaveTurnDone
    /\ PendingOnce

LEMMA Invariance == Spec => []IInv
<1>1. Init => IInv
  <2> SUFFICES ASSUME Init
               PROVE  IInv
    OBVIOUS
  <2>1. Holders = {} /\ permits = MaxConcurrent /\ MaxConcurrent \in Nat
    BY WorkerAssumption DEF Init, Holders, Holding
  <2>2. PermitsBalanced
    BY <2>1, FS_EmptySet DEF PermitsBalanced
  <2>3. NoSilentLoss
    BY DEF Init, NoSilentLoss, Lost
  <2>4. SaveTurnDone
    BY EmptyFacts, WorkerAssumption DEF Init, SaveTurnDone, InRuleTurn
  <2>5. PendingOnce
    BY FS_EmptySet DEF Init, PendingOnce, PendingIsNotBacklog
  <2> QED
    BY <2>2, <2>3, <2>4, <2>5, InitShape DEF IInv
<1>2. IInv /\ [Next]_vars => IInv'
  BY ShapeStep, OnePlaceStep, PermitsStep, LossStep, SaveTurnStep, PendingStep
     DEF IInv
<1> QED
  BY <1>1, <1>2, PTL DEF Spec

(* Every variable of the worker and of the stream keeps its type; in       *)
(* particular neither queue exceeds its maxsize and the semaphore never    *)
(* has more permits than worker.max_concurrent.                            *)
THEOREM TypeCorrect == Spec => []TypeOK
<1>1. IInv => TypeOK
  <2> SUFFICES ASSUME IInv
               PROVE  TypeOK
    OBVIOUS
  <2>1. permits \in 0..MaxConcurrent
    BY HoldersFinite, WorkerAssumption DEF IInv, Shape, PermitsBalanced
  <2> QED
    BY <2>1 DEF IInv, Shape, TypeOK
<1> QED
  BY <1>1, Invariance, PTL

(* Whichever way the coroutines of _process_with_semaphore end, the        *)
(* semaphore's permits are conserved.                                      *)
THEOREM Permits == Spec => []PermitsBalanced
<1>1. IInv => PermitsBalanced
  BY DEF IInv
<1> QED
  BY <1>1, Invariance, PTL

(* No hand-over between stream, consume loop, coroutine, save queue and    *)
(* drain drops a task without a reason on record.                          *)
THEOREM Accounted == Spec => []NoSilentLoss
<1>1. IInv => NoSilentLoss
  BY DEF IInv
<1> QED
  BY <1>1, Invariance, PTL

(* _enqueue_save offers a result to the save queue before it offers it to  *)
(* the rule queue, so no alert is raised for a task without a row or a     *)
(* reason for there being none.                                            *)
THEOREM SaveFirst == Spec => []SaveTurnFirst
<1>1. IInv => SaveTurnFirst
  <2> SUFFICES ASSUME IInv,
                      NEW t \in Elements(ruleq) \cup ({ruleBusy} \ {NoTask}) \cup alerted
               PROVE  t \in Elements(dbq) \cup {dbBusy} \cup rows \/ fate[t] # "open"
    BY DEF SaveTurnFirst
  <2>1. t \in Tasks /\ InRuleTurn(t)
    BY ElementsType DEF IInv, Shape, InRuleTurn
  <2> QED
    BY <2>1 DEF IInv, SaveTurnDone, PastSaveTurn, Saved, Settled
<1> QED
  BY <1>1, Invariance, PTL

(* XREADGROUP with count 1 and an XACK per entry: however long the         *)
(* backlog, the group's pending list, which backlog_size reports, holds    *)
(* one entry and one more for each death of the process.                   *)
THEOREM Pending == Spec => []PendingIsNotBacklog
<1>1. IInv => PendingIsNotBacklog
  BY DEF IInv, PendingOnce
<1> QED
  BY <1>1, Invariance, PTL

(* A task is processed at most once, across restarts too.                  *)
THEOREM AtMostOnce == Spec => NeverReprocessed
<1>1. IInv /\ [Next]_vars => [\A t \in Tasks : job[t] = "gone" => job'[t] = "gone"]_vars
  BY GoneKept DEF IInv
<1> QED
  BY <1>1, Invariance, PTL DEF Spec, NeverReprocessed

-----------------------------------------------------------------------------
(* The worker implements the ledger.                                       *)

(* The status the refinement gives a task.                                 *)
StatusOf(t) == CASE t \in rows -> "completed"
                 [] t \notin pushed -> "absent"
                 [] Lost(t) -> "lost"
                 [] OTHER -> "queued"

StatusMap == [t \in Tasks |-> StatusOf(t)]

LEMMA StatusCases ==
    ASSUME NEW t \in Tasks
    PROVE  /\ t \in rows /\ t \in pushed => StatusOf(t) = "completed"
           /\ t \notin pushed /\ t \notin rows => StatusOf(t) = "absent"
           /\ Lost(t) => StatusOf(t) = "lost"
           /\ t \in pushed /\ t \notin rows /\ ~Lost(t) => StatusOf(t) = "queued"
BY DEF StatusOf, Lost

(* Only DbCommit adds a row.                                               *)
LEMMA RowsFacts == [Next]_vars => rows' = rows \/ DbCommit
BY DEF Next, JobStep, Push, FastPath, Agent, Raise, SaveNow, DbPut, DbPutTimeout,
       RulePut, RulePutTimeout, Deliver, Spawn, Ack, Acquire, DbTake, DbFail,
       RuleTake, RuleDone, Crash, Restart, vars, dbVars

(* Acceptance puts a task into the stream and is never withdrawn.          *)
LEMMA AcceptFacts ==
    ASSUME Shape, [Next]_vars, NEW t \in Tasks
    PROVE  /\ t \in pushed => t \in pushed'
           /\ t \notin pushed /\ t \in pushed' => ~Lost(t)'
<1> USE DEF streamVars
<1>1. ASSUME NEW s \in Tasks, Push(s)
      PROVE  pushed' = pushed \cup {s} /\ s \in Elements(stream')
  <2>1. CASE stream' = Append(stream, s)
    <3>1. s \in Elements(Append(stream, s))
      BY AppendFacts DEF Shape
    <3> QED
      BY <1>1, <2>1, <3>1 DEF Push
  <2>2. CASE stream' = Append(Tail(stream), s) /\ Tail(stream) \in Seq(Tasks)
    <3>1. PICK rest \in Seq(Tasks) : rest = Tail(stream)
      BY <2>2
    <3>2. s \in Elements(Append(rest, s))
      BY AppendFacts
    <3> QED
      BY <1>1, <2>2, <3>1, <3>2 DEF Push
  <2> QED
    BY <1>1, <2>1, <2>2, PushFacts
<1>2. CASE \E s \in Tasks : Push(s)
  BY <1>1, <1>2 DEF Lost
<1>3. CASE UNCHANGED pushed
  BY <1>3
<1> QED
  BY <1>2, <1>3
     DEF Next, JobStep, FastPath, Agent, Raise, SaveNow, DbPut, DbPutTimeout,
         RulePut, RulePutTimeout, Deliver, Spawn, Ack, Acquire, DbTake, DbCommit,
         DbFail, RuleTake, RuleDone, Crash, Restart, vars

LEMMA StatusStep ==
    ASSUME IInv, [Next]_vars, IInv', NEW t \in Tasks
    PROVE  /\ UNCHANGED rows =>
                \/ StatusOf(t)' = StatusOf(t)
                \/ StatusOf(t) = "absent" /\ StatusOf(t)' = "queued"
                \/ StatusOf(t) = "queued" /\ StatusOf(t)' = "lost"
           /\ DbCommit =>
                IF t = dbBusy
                THEN StatusOf(t) = "queued" /\ StatusOf(t)' = "completed"
                ELSE StatusOf(t)' = StatusOf(t)
<1>1. /\ Lost(t) <=> Settled(t)
      /\ Lost(t)' <=> Settled(t)'
      /\ Settled(t) => Settled(t)'
  BY FateKept DEF IInv, NoSilentLoss, Settled
<1>2. Lost(t) => t \in pushed /\ t \notin rows
  BY DEF Lost
<1>3. /\ t \in rows => t \in pushed
      /\ t \in pushed => t \in pushed'
      /\ t \notin pushed /\ t \in pushed' => ~Lost(t)'
  BY AcceptFacts DEF IInv, OnePlace, SaveOnce, LineupOnce, Saved
<1>4. /\ t \in rows /\ t \in pushed => StatusOf(t) = "completed"
      /\ t \notin pushed /\ t \notin rows => StatusOf(t) = "absent"
      /\ Lost(t) => StatusOf(t) = "lost"
      /\ t \in pushed /\ t \notin rows /\ ~Lost(t) => StatusOf(t) = "queued"
  BY StatusCases
<1>5. /\ t \in rows' /\ t \in pushed' => StatusOf(t)' = "completed"
      /\ t \notin pushed' /\ t \notin rows' => StatusOf(t)' = "absent"
      /\ Lost(t)' => StatusOf(t)' = "lost"
      /\ t \in pushed' /\ t \notin rows' /\ ~Lost(t)' => StatusOf(t)' = "queued"
  BY DEF StatusOf, Lost
<1>6. ASSUME UNCHANGED rows
      PROVE  \/ StatusOf(t)' = StatusOf(t)
             \/ StatusOf(t) = "absent" /\ StatusOf(t)' = "queued"
             \/ StatusOf(t) = "queued" /\ StatusOf(t)' = "lost"
  BY <1>1, <1>2, <1>3, <1>4, <1>5, <1>6
<1>7. ASSUME DbCommit
      PROVE  IF t = dbBusy
             THEN StatusOf(t) = "queued" /\ StatusOf(t)' = "completed"
             ELSE StatusOf(t)' = StatusOf(t)
  <2>1. /\ rows' = rows \cup {dbBusy} /\ UNCHANGED <<pushed, fate>>
    BY <1>7 DEF DbCommit, streamVars
  <2>2. Settled(t)' <=> Settled(t)
    BY <2>1 DEF Settled
  <2>3. CASE t = dbBusy
    <3>1. t \in Saved /\ t \notin rows
      BY <2>3, WorkerAssumption DEF IInv, OnePlace, SaveOnce, Saved
    <3>2. t \in pushed
      BY <3>1 DEF IInv, OnePlace, SaveOnce, LineupOnce
    <3>3. ~Lost(t)
      BY <2>3 DEF Lost, InMemory
    <3> QED
      BY <1>4, <1>5, <2>1, <2>3, <3>1, <3>2, <3>3
  <2>4. CASE t # dbBusy
    BY <1>1, <1>2, <1>3, <1>4, <1>5, <2>1, <2>2, <2>4
  <2> QED
    BY <2>3, <2>4
<1> QED
  BY <1>6, <1>7

(* The steps of the ledger, in terms of StatusOf.                          *)
LEMMA LedgerAcceptOrLose ==
    ASSUME IInv, UNCHANGED alerted,
           \A t \in Tasks :
              \/ StatusOf(t)' = StatusOf(t)
              \/ StatusOf(t) = "absent" /\ StatusOf(t)' = "queued"
              \/ StatusOf(t) = "queued" /\ StatusOf(t)' = "lost"
    PROVE  Ledger!AcceptOrLose
<1>1. \A t \in Tasks : t \in rows => t \in pushed
  BY DEF IInv, OnePlace, SaveOnce, LineupOnce, Saved
<1>2. \A t \in Tasks : StatusOf(t) \in Ledger!Status
  BY <1>1, StatusCases DEF Ledger!Status
<1>3. \A t \in Tasks : StatusOf(t)' \in Ledger!Status
  BY <1>2 DEF Ledger!Status
<1> QED
  BY <1>3 DEF Ledger!AcceptOrLose, StatusOf

LEMMA LedgerComplete ==
    ASSUME NEW t \in Tasks, UNCHANGED alerted,
           StatusOf(t) = "queued", StatusOf(t)' = "completed",
           \A u \in Tasks \ {t} : StatusOf(u)' = StatusOf(u)
    PROVE  Ledger!Complete(t)
BY DEF Ledger!Complete, StatusOf

LEMMA LedgerRaiseAlert ==
    ASSUME NEW t \in Tasks, alerted' = alerted \cup {t},
           StatusOf(t) # "absent",
           \A u \in Tasks : StatusOf(u)' = StatusOf(u)
    PROVE  Ledger!RaiseAlert(t)
BY DEF Ledger!RaiseAlert, StatusOf

(* Whatever the worker does maps to a step of the ledger or to none: a     *)
(* task that is completed or lost stays so across crashes, restarts and    *)
(* trims, and rule evaluation raises alerts for accepted tasks only.       *)
THEOREM Implements == Spec => KeepsLedger
<1>1. Init => Ledger!Init
  <2> SUFFICES ASSUME Init
               PROVE  Ledger!Init
    OBVIOUS
  <2>1. rows = {} /\ pushed = {} /\ alerted = {}
    BY DEF Init
  <2>2. \A t \in Tasks : StatusOf(t) = "absent"
    BY <2>1, StatusCases
  <2> QED
    BY <2>1, <2>2 DEF Ledger!Init, StatusOf
<1>2. IInv /\ IInv' /\ [Next]_vars => [Ledger!Next]_(Ledger!vars)
  <2> SUFFICES ASSUME IInv, IInv', [Next]_vars
               PROVE  \/ Ledger!Next
                    \/ /\ UNCHANGED alerted
                       /\ \A t \in Tasks : StatusOf(t)' = StatusOf(t)
    BY DEF Ledger!vars, StatusOf
  <2>1. CASE RuleDone
    <3>1. \A t \in Tasks : StatusOf(t)' = StatusOf(t)
      BY <2>1 DEF RuleDone, StatusOf, Lost, InMemory, streamVars, readerVars,
                  jobVars, dbVars
    <3>2. PICK t \in Tasks : t = ruleBusy
      BY <2>1 DEF RuleDone, IInv, Shape
    <3>3. StatusOf(t) # "absent"
      <4>1. t \in Saved \/ Lost(t)
        BY <3>2 DEF IInv, SaveTurnDone, InRuleTurn, PastSaveTurn, Settled, NoSilentLoss
      <4>2. t \in pushed
        BY <4>1 DEF IInv, OnePlace, SaveOnce, LineupOnce, Lost
      <4> QED
        BY <4>2, StatusCases
    <3>4. alerted' = alerted \/ alerted' = alerted \cup {t}
      BY <2>1, <3>2 DEF RuleDone
    <3> QED
      BY <3>1, <3>3, <3>4, LedgerRaiseAlert DEF Ledger!Next
  <2>2. CASE DbCommit
    <3>1. PICK t \in Tasks : t = dbBusy
      BY <2>2 DEF DbCommit, IInv, Shape
    <3>2. /\ StatusOf(t) = "queued" /\ StatusOf(t)' = "completed"
          /\ \A u \in Tasks \ {t} : StatusOf(u)' = StatusOf(u)
      BY <2>2, <3>1, StatusStep
    <3>3. UNCHANGED alerted
      BY <2>2 DEF DbCommit, ruleVars
    <3> QED
      BY <3>2, <3>3, LedgerComplete DEF Ledger!Next
  <2>3. CASE UNCHANGED <<rows, alerted>>
    <3>1. Ledger!AcceptOrLose
      BY <2>3, StatusStep, LedgerAcceptOrLose
    <3> QED
      BY <3>1 DEF Ledger!Next
  <2>4. UNCHANGED alerted \/ RuleDone
    BY DEF Next, JobStep, Push, FastPath, Agent, Raise, SaveNow, DbPut, DbPutTimeout,
           RulePut, RulePutTimeout, Deliver, Spawn, Ack, Acquire, DbTake, DbCommit,
           DbFail, RuleTake, Crash, Restart, vars, ruleVars
  <2>5. UNCHANGED rows \/ DbCommit
    BY RowsFacts
  <2> QED
    BY <2>1, <2>2, <2>3, <2>4, <2>5
<1> QED
  BY <1>1, <1>2, Invariance, PTL DEF Spec, KeepsLedger, Ledger!Safe
=============================================================================
