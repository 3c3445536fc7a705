------------------------ MODULE RuleEvaluationProofs ------------------------
(***************************************************************************)
(* Proofs about RuleEvaluation: its safety invariants, and that the loops  *)
(* of the rule engine find what they are to find in a frame of any length. *)
(* Facts about every length are proved by induction: a set of numbers with *)
(* 0 and every successor misses none, for it would miss a least one.       *)
(***************************************************************************)
EXTENDS RuleEvaluation, SequenceTheorems, WellFoundedInduction, TLAPS

-----------------------------------------------------------------------------
(* Induction over the natural numbers.                                     *)

Less == {p \in Nat \X Nat : p[1] < p[2]}

(* The order of the natural numbers is well founded.                       *)
LEMMA LessWellFounded == IsWellFoundedOn(Less, Nat)
<1>1. IsWellFoundedOn(OpToRel(<, Nat), Nat)
  BY NatLessThanWellFounded
<1>2. OpToRel(<, Nat) = Less
  BY Zenon DEF OpToRel, Less
<1> QED
  BY <1>1, <1>2, Zenon

(* A set of natural numbers with an element has a least one.               *)
LEMMA LeastElement ==
    ASSUME NEW T \in SUBSET Nat, T # {}
    PROVE  \E x \in T : \A y \in T : x <= y
<1>1. PICK x \in T : \A y \in T : ~(<<y, x>> \in Less)
  BY LessWellFounded, WFMin
<1>2. \A m, n \in Nat : m < n => <<m, n>> \in Less
  BY DEF Less
<1>3. \A y \in T : ~(y < x)
  BY <1>1, <1>2
<1> QED
  BY <1>3

(* A set with 0 and the successor of each of its numbers has them all.     *)
LEMMA NatSetInduction ==
    ASSUME NEW T, 0 \in T, \A n \in Nat : n \in T => n + 1 \in T
    PROVE  Nat \subseteq T
<1> SUFFICES ASSUME Nat \ T # {} PROVE FALSE
  OBVIOUS
<1>1. PICK x \in Nat \ T : \A y \in Nat \ T : x <= y
  BY LeastElement
<1>2. x - 1 \in Nat /\ x - 1 \in T
  BY <1>1
<1> QED
  BY <1>1, <1>2

-----------------------------------------------------------------------------
(* The engine.                                                             *)

(* `after` is what TracksAfter(frame) is to be.                            *)
IsTracksAfter(after, frame) ==
    after = [n \in 0..Len(frame) |-> IF n = 0 THEN {} ELSE Moved(after[n - 1], frame[n])]

(* The recursion of TracksAfter has a solution.                            *)
LEMMA TracksAfterExists ==
    ASSUME NEW frame \in Seq(Detections)
    PROVE  \E after : IsTracksAfter(after, frame)
<1> DEFINE Upto(m, f) == f = [n \in 0..m |-> IF n = 0 THEN {} ELSE Moved(f[n - 1], frame[n])]
           T == {m \in Nat : \E f : Upto(m, f)}
<1>1. 0 \in T
  <2>1. Upto(0, [n \in 0..0 |-> {}])
    OBVIOUS
  <2> QED
    BY <2>1
<1>2. ASSUME NEW m \in Nat, m \in T PROVE m + 1 \in T
  <2>1. PICK f : Upto(m, f)
    BY <1>2
  <2> DEFINE g == [n \in 0..(m + 1) |-> IF n = m + 1 THEN Moved(f[m], frame[m + 1]) ELSE f[n]]
  <2>2. \A n \in 0..m : g[n] = f[n]
    OBVIOUS
  <2>3. \A n \in 0..m : f[n] = IF n = 0 THEN {} ELSE Moved(f[n - 1], frame[n])
    BY <2>1
  <2>4. ASSUME NEW n \in 0..(m + 1)
        PROVE  g[n] = IF n = 0 THEN {} ELSE Moved(g[n - 1], frame[n])
    <3>1. CASE n = m + 1
      <4>1. g[n - 1] = f[m] /\ n # 0 /\ g[n] = Moved(f[m], frame[m + 1])
        BY <3>1
      <4> QED
        BY <4>1, <3>1, Zenon
    <3>2. CASE n = 0
      BY <3>2, <2>2, <2>3
    <3>3. CASE n \in 1..m
      <4>1. n - 1 \in 0..m /\ n \in 0..m /\ n # 0
        BY <3>3
      <4>2. g[n] = f[n] /\ g[n - 1] = f[n - 1]
        BY <4>1, <2>2
      <4> QED
        BY <4>1, <4>2, <2>3, Zenon
    <3> QED
      BY <3>1, <3>2, <3>3
  <2>5. Upto(m + 1, g)
    <3> DEFINE h == [n \in 0..(m + 1) |-> IF n = 0 THEN {} ELSE Moved(g[n - 1], frame[n])]
    <3>1. \A n \in 0..(m + 1) : g[n] = h[n]
      BY <2>4
    <3>2. g = h
      BY <3>1
    <3> QED
      BY <3>2
  <2>6. \E h : Upto(m + 1, h)
    <3> HIDE DEF g, Upto
    <3> QED
      BY <2>5, Zenon
  <2> QED
    BY <2>6
<1>3. Len(frame) \in T
  <2>1. Len(frame) \in Nat
    OBVIOUS
  <2>2. ASSUME NEW m \in Nat PROVE m \in T => m + 1 \in T
    BY <1>2
  <2> HIDE DEF T
  <2>3. Nat \subseteq T
    BY <1>1, <2>2, NatSetInduction
  <2> QED
    BY <2>1, <2>3
<1> QED
  BY <1>3 DEF IsTracksAfter

(* TracksAfter counts the detections one by one, as its equation says.     *)
LEMMA TracksAfterSteps ==
    ASSUME NEW frame \in Seq(Detections)
    PROVE  /\ TracksAfter(frame)[0] = {}
           /\ \A n \in 1..Len(frame) :
                 TracksAfter(frame)[n] = Moved(TracksAfter(frame)[n - 1], frame[n])
<1> DEFINE after == TracksAfter(frame)
<1>1. IsTracksAfter(after, frame)
  BY TracksAfterExists, Zenon DEF TracksAfter, IsTracksAfter
<1> HIDE DEF after
<1>2. Len(frame) \in Nat
  OBVIOUS
<1>3. after[0] = {}
  BY <1>1, <1>2 DEF IsTracksAfter
<1>4. ASSUME NEW n \in 1..Len(frame) PROVE after[n] = Moved(after[n - 1], frame[n])
  <2>1. n \in 0..Len(frame) /\ n # 0
    BY <1>2
  <2> QED
    BY <1>1, <2>1, Zenon DEF IsTracksAfter
<1> QED
  BY <1>3, <1>4 DEF after

(* After n detections a track is inside if it was at one of them and was   *)
(* never outside from there on.                                            *)
StaysFrom(frame, i, n, k) ==
    Inside(frame, i, k) /\ \A j \in i..n : ~Outside(frame, j, k)

LEMMA TracksAfterHolds ==
    ASSUME NEW frame \in Seq(Detections)
    PROVE  \A n \in 0..Len(frame) :
              /\ TracksAfter(frame)[n] \subseteq Tracks
              /\ \A k \in Tracks : k \in TracksAfter(frame)[n]
                                      <=> \E i \in 1..n : StaysFrom(frame, i, n, k)
<1> DEFINE after == TracksAfter(frame)
           Holds(n) == /\ after[n] \subseteq Tracks
                       /\ \A k \in Tracks : k \in after[n]
                                               <=> \E i \in 1..n : StaysFrom(frame, i, n, k)
           T == {n \in Nat : n <= Len(frame) => Holds(n)}
<1>1. Len(frame) \in Nat
  OBVIOUS
<1>2. /\ after[0] = {}
      /\ \A n \in 1..Len(frame) : after[n] = Moved(after[n - 1], frame[n])
  BY TracksAfterSteps
<1> HIDE DEF after
<1>3. 0 \in T
  BY <1>2
<1>4. ASSUME NEW n \in Nat, n \in T PROVE n + 1 \in T
  <2> SUFFICES ASSUME n + 1 <= Len(frame) PROVE Holds(n + 1)
    BY <1>1
  <2> DEFINE m == n + 1
  <2>1. m \in 1..Len(frame) /\ m - 1 = n /\ m \in Nat
    BY <1>1
  <2>2. Holds(n)
    BY <1>1, <1>4
  <2>3. PICK d \in Detections : d = frame[m]
    BY <2>1, ElementOfSeq
  <2>4. after[m] = Moved(after[n], d)
    BY <1>2, <2>1, <2>3
  <2>5. d.track \in Tracks \cup {NoTrack} /\ NoTrack \notin Tracks
    BY <2>3, RulesAssumption DEF Detections
  <2>6. after[m] \subseteq Tracks
    BY <2>2, <2>4, <2>5 DEF Moved
  <2>7. ASSUME NEW k \in Tracks
        PROVE  k \in after[m] <=> (d.track = k /\ d.inside)
                                   \/ (k \in after[n] /\ ~(d.track = k /\ ~d.inside))
    BY <2>4, <2>5 DEF Moved
  <2>8. ASSUME NEW k \in Tracks
        PROVE  (\E i \in 1..m : StaysFrom(frame, i, m, k))
                 <=> Inside(frame, m, k)
                     \/ ((\E i \in 1..n : StaysFrom(frame, i, n, k)) /\ ~Outside(frame, m, k))
    <3>1. StaysFrom(frame, m, m, k) <=> Inside(frame, m, k)
      BY <2>1 DEF StaysFrom, Inside, Outside
    <3>2. ASSUME NEW i \in 1..n
          PROVE  StaysFrom(frame, i, m, k)
                   <=> StaysFrom(frame, i, n, k) /\ ~Outside(frame, m, k)
      <4>1. i..m = (i..n) \cup {m}
        BY <2>1
      <4> QED
        BY <4>1, Zenon DEF StaysFrom
    <3>3. 1..m = (1..n) \cup {m}
      BY <2>1
    <3> HIDE DEF m
    <3> QED
      BY <3>1, <3>2, <3>3
  <2>9. \A k : /\ Inside(frame, m, k) <=> d.track = k /\ d.inside
               /\ Outside(frame, m, k) <=> d.track = k /\ ~d.inside
    BY <2>3 DEF Inside, Outside
  <2> HIDE DEF m
  <2>10. Holds(m)
    BY <2>2, <2>6, <2>7, <2>8, <2>9
  <2> QED
    BY <2>10 DEF m
<1>5. \A n \in Nat : n \in T => n + 1 \in T
  BY <1>4
<1> HIDE DEF T
<1>6. Nat \subseteq T
  BY <1>3, <1>5, NatSetInduction
<1> QED
  BY <1>1, <1>6 DEF T, after

(* What a detection finds in `tracks`.                                     *)
LEMMA TracksBefore ==
    ASSUME NEW frame \in Seq(Detections), NEW n \in DOMAIN frame
    PROVE  /\ n \in 1..Len(frame) /\ n - 1 \in 0..Len(frame)
           /\ frame[n].track \in Tracks \cup {NoTrack}
           /\ NoTrack \notin Tracks
           /\ \A k \in Tracks : k \in TracksAfter(frame)[n - 1]
                                   <=> \E i \in 1..(n - 1) : StaysFrom(frame, i, n - 1, k)
<1>1. n \in 1..Len(frame) /\ n - 1 \in 0..Len(frame) /\ Len(frame) \in Nat
  OBVIOUS
<1>2. frame[n] \in Detections
  BY <1>1, ElementOfSeq
<1>3. frame[n].track \in Tracks \cup {NoTrack}
  BY <1>2 DEF Detections
<1> QED
  BY <1>1, <1>3, TracksAfterHolds, RulesAssumption

(* An "enter" rule alerts exactly when some track is inside somewhere.     *)
LEMMA EntersIsFound ==
    ASSUME NEW frame \in Seq(Detections)
    PROVE  Intrusion(frame, "enter") <=> Enters(frame)
<1>1. ASSUME Intrusion(frame, "enter") PROVE Enters(frame)
  <2>1. PICK n \in DOMAIN frame : frame[n].track # NoTrack /\ frame[n].inside
    BY <1>1 DEF Intrusion
  <2> QED
    BY <2>1, TracksBefore DEF Enters, Inside
<1>2. ASSUME Enters(frame) PROVE Intrusion(frame, "enter")
  <2>1. PICK k \in Tracks, i \in DOMAIN frame : Inside(frame, i, k)
    BY <1>2 DEF Enters
  <2> DEFINE T == {n \in DOMAIN frame : Inside(frame, n, k)}
  <2>2. PICK n \in T : \A y \in T : n <= y
    <3>1. T \in SUBSET Nat /\ T # {}
      BY <2>1
    <3> QED
      BY <3>1, LeastElement
  <2>3. n \in DOMAIN frame /\ n \in Nat /\ Inside(frame, n, k)
    OBVIOUS
  <2>4. \A y \in 1..(n - 1) : y \in DOMAIN frame /\ ~Inside(frame, y, k)
    BY <2>2, <2>3
  <2>5. k \notin TracksAfter(frame)[n - 1]
    BY <2>3, <2>4, TracksBefore DEF StaysFrom
  <2>6. frame[n].track = k /\ frame[n].inside /\ k # NoTrack
    BY <2>3, RulesAssumption DEF Inside
  <2> QED
    BY <2>3, <2>5, <2>6 DEF Intrusion
<1> QED
  BY <1>1, <1>2

(* An "exit" rule alerts exactly when some track is inside and outside     *)
(* further on.                                                             *)
LEMMA LeavesIsFound ==
    ASSUME NEW frame \in Seq(Detections)
    PROVE  Intrusion(frame, "exit") <=> Leaves(frame)
<1>1. ASSUME Intrusion(frame, "exit") PROVE Leaves(frame)
  <2>1. PICK n \in DOMAIN frame : /\ frame[n].track # NoTrack /\ ~frame[n].inside
                                  /\ frame[n].track \in TracksAfter(frame)[n - 1]
    BY <1>1 DEF Intrusion
  <2>2. PICK k \in Tracks : k = frame[n].track
    BY <2>1, TracksBefore
  <2>3. PICK i \in 1..(n - 1) : StaysFrom(frame, i, n - 1, k)
    BY <2>1, <2>2, TracksBefore
  <2>4. i \in DOMAIN frame /\ i < n
    BY <2>3, TracksBefore
  <2>5. Inside(frame, i, k) /\ Outside(frame, n, k)
    BY <2>1, <2>2, <2>3 DEF StaysFrom, Outside
  <2> QED
    BY <2>4, <2>5 DEF Leaves
<1>2. ASSUME Leaves(frame) PROVE Intrusion(frame, "exit")
  <2>1. PICK k \in Tracks, i \in DOMAIN frame, j \in DOMAIN frame :
           i < j /\ Inside(frame, i, k) /\ Outside(frame, j, k)
    BY <1>2 DEF Leaves
  <2> DEFINE T == {y \in DOMAIN frame : i < y /\ Outside(frame, y, k)}
  <2>2. PICK n \in T : \A y \in T : n <= y
    <3>1. T \in SUBSET Nat /\ T # {}
      BY <2>1
    <3> QED
      BY <3>1, LeastElement
  <2>3. n \in DOMAIN frame /\ n \in Nat /\ i \in Nat /\ i < n /\ Outside(frame, n, k)
    OBVIOUS
  <2>4. i \in 1..(n - 1)
    BY <2>3
  <2>5. ASSUME NEW y \in i..(n - 1) PROVE ~Outside(frame, y, k)
    <3>1. CASE y = i
      BY <2>1, <3>1 DEF Inside, Outside
    <3>2. CASE y # i
      <4>1. y \in DOMAIN frame /\ i < y /\ ~(n <= y)
        BY <2>3, <3>2
      <4> QED
        BY <4>1, <2>2
    <3> QED
      BY <3>1, <3>2
  <2>6. k \in TracksAfter(frame)[n - 1]
    BY <2>1, <2>3, <2>4, <2>5, TracksBefore DEF StaysFrom
  <2>7. frame[n].track = k /\ ~frame[n].inside /\ k # NoTrack
    BY <2>3, RulesAssumption DEF Outside
  <2> QED
    BY <2>3, <2>6, <2>7 DEF Intrusion
<1> QED
  BY <1>1, <1>2

(* A "loiter" rule alerts exactly when some track is inside twice and      *)
(* never outside between.                                                  *)
LEMMA StaysIsFound ==
    ASSUME NEW frame \in Seq(Detections)
    PROVE  Loitering(frame) <=> Stays(frame)
<1>1. ASSUME Loitering(frame) PROVE Stays(frame)
  <2>1. PICK n \in DOMAIN frame : /\ frame[n].track # NoTrack /\ frame[n].inside
                                  /\ frame[n].track \in TracksAfter(frame)[n - 1]
    BY <1>1 DEF Loitering
  <2>2. PICK k \in Tracks : k = frame[n].track
    BY <2>1, TracksBefore
  <2>3. PICK i \in 1..(n - 1) : StaysFrom(frame, i, n - 1, k)
    BY <2>1, <2>2, TracksBefore
  <2>4. i \in DOMAIN frame /\ i < n /\ i..n = i..(n - 1) \cup {n}
    BY <2>3, TracksBefore
  <2>5. Inside(frame, i, k) /\ Inside(frame, n, k) /\ ~Outside(frame, n, k)
    BY <2>1, <2>2, <2>3 DEF StaysFrom, Inside, Outside
  <2> QED
    BY <2>3, <2>4, <2>5 DEF Stays, StaysFrom
<1>2. ASSUME Stays(frame) PROVE Loitering(frame)
  <2>1. PICK k \in Tracks, i \in DOMAIN frame, n \in DOMAIN frame :
           /\ i < n /\ Inside(frame, i, k) /\ Inside(frame, n, k)
           /\ \A y \in i..n : ~Outside(frame, y, k)
    BY <1>2 DEF Stays
  <2>2. i \in 1..(n - 1) /\ i..(n - 1) \subseteq i..n
    BY <2>1
  <2>3. k \in TracksAfter(frame)[n - 1]
    BY <2>1, <2>2, TracksBefore DEF StaysFrom
  <2> QED
    BY <2>1, <2>3, RulesAssumption DEF Loitering, Inside
<1> QED
  BY <1>1, <1>2

-----------------------------------------------------------------------------
(* The evaluation.                                                         *)

Triggers(b) == Triggered(RuleOf[b], Extract(result))

(* Between two steps of an evaluation: the alerts added are this task's    *)
(* and due, so will be the one being checked, and a binding the loop has   *)
(* passed has its alert unless none was due.                               *)
NothingPending ==
    task = Nothing => added = {} /\ checking = Nothing /\ selected = {}

TaskIsNew == task \notin done

AddedIsDue ==
    \A a \in added :
        /\ a.task = task /\ a.rule \in onceOn
        /\ \E b \in selected : a.rule = RuleOf[b] /\ Triggers(b)

CheckingIsDue ==
    checking # Nothing =>
        checking \in selected /\ RuleOf[checking] \in onceOn /\ Triggers(checking)

PassedHasAlert ==
    \A b \in selected \ (todo \cup {checking}) :
        RuleOf[b] \in alwaysOn /\ Triggers(b) => \E a \in added : a.rule = RuleOf[b]

Progress == NothingPending /\ TaskIsNew /\ AddedIsDue /\ CheckingIsDue /\ PassedHasAlert

IInv == TypeOK /\ OneAlertPerRule /\ FailureLeavesNothing /\ Progress

LEMMA IInvHoldsInitially == Init => IInv
  BY RulesAssumption
  DEF Init, IInv, TypeOK, OneAlertPerRule, FailureLeavesNothing, Progress, NothingPending,
      TaskIsNew, AddedIsDue, CheckingIsDue, PassedHasAlert

(* An evaluation that ends leaves nothing pending.                         *)
LEMMA EndKeepsProgress ==
    ASSUME TypeOK, task # Nothing, End PROVE Progress'
  BY RulesAssumption
  DEF End, TypeOK, Progress, NothingPending, TaskIsNew, AddedIsDue, CheckingIsDue,
      PassedHasAlert

(* One that failed adds its task to those aborted, and no alert.           *)
LEMMA FailureKeepsIInv ==
    ASSUME IInv, task # Nothing, End, aborted' = aborted \cup {task},
           UNCHANGED <<dbVars, alerts>>
    PROVE  IInv'
<1>1. TypeOK'
  BY RulesAssumption DEF IInv, TypeOK, End, dbVars
<1>2. OneAlertPerRule'
  BY DEF IInv, OneAlertPerRule, End
<1>3. FailureLeavesNothing'
  BY DEF IInv, FailureLeavesNothing, Progress, TaskIsNew, End
<1> QED
  BY <1>1, <1>2, <1>3, EndKeepsProgress DEF IInv

LEMMA BeginKeepsIInv ==
    ASSUME IInv, NEW t \in Tasks, NEW r \in Results, Begin(t, r)
    PROVE  IInv'
<1>1. added = {} /\ checking = Nothing
  BY DEF IInv, Progress, NothingPending, Begin
<1>2. TypeOK'
  BY RulesAssumption DEF IInv, TypeOK, Begin, dbVars
<1>3. OneAlertPerRule' /\ FailureLeavesNothing'
  BY DEF IInv, OneAlertPerRule, FailureLeavesNothing, Begin
<1>4. Progress'
  <2>1. NothingPending' /\ TaskIsNew' /\ AddedIsDue'
    BY <1>1, RulesAssumption DEF Begin, NothingPending, TaskIsNew, AddedIsDue
  <2>2. CheckingIsDue' /\ PassedHasAlert'
    BY <1>1 DEF Begin, CheckingIsDue, PassedHasAlert
  <2> QED
    BY <2>1, <2>2 DEF Progress
<1> QED
  BY <1>2, <1>3, <1>4 DEF IInv

LEMMA LookKeepsIInv ==
    ASSUME IInv, NEW b \in Bindings, Look(b)
    PROVE  IInv'
<1>1. TypeOK'
  BY RulesAssumption DEF IInv, TypeOK, Look, dbVars
<1>2. OneAlertPerRule' /\ FailureLeavesNothing'
  BY DEF IInv, OneAlertPerRule, FailureLeavesNothing, Look
<1>3. NothingPending' /\ TaskIsNew'
  BY DEF IInv, Progress, NothingPending, TaskIsNew, Look
<1>4. AddedIsDue'
  BY DEF IInv, Progress, AddedIsDue, Triggers, Look
<1>5. CheckingIsDue'
  BY DEF IInv, TypeOK, CheckingIsDue, Triggers, Look, SeesOn
<1>6. PassedHasAlert'
  <2> SUFFICES ASSUME NEW c \in selected, c \notin todo', c # checking',
                      RuleOf[c] \in alwaysOn, Triggers(c)
               PROVE  \E a \in added : a.rule = RuleOf[c]
    BY DEF PassedHasAlert, Triggers, Look
  <2>1. CASE c = b
    BY <2>1 DEF Look, SeesOff, Triggers
  <2>2. CASE c # b
    <3>1. c \in Bindings /\ c \notin todo /\ checking = Nothing
      BY <2>2 DEF IInv, TypeOK, Look
    <3> QED
      BY <3>1, RulesAssumption DEF IInv, Progress, PassedHasAlert
  <2> QED
    BY <2>1, <2>2
<1> QED
  BY <1>1, <1>2, <1>3, <1>4, <1>5, <1>6 DEF IInv, Progress

LEMMA CheckKeepsIInv ==
    ASSUME IInv, Check
    PROVE  IInv'
<1>1. /\ task \in Tasks /\ checking \in Bindings /\ RuleOf[checking] \in Rules
      /\ checking \in selected /\ RuleOf[checking] \in onceOn /\ Triggers(checking)
  BY RulesAssumption
  DEF IInv, TypeOK, Progress, NothingPending, CheckingIsDue, Check
<1>2. \A a \in alerts : a.task # task
  BY DEF IInv, TypeOK, FailureLeavesNothing, Progress, TaskIsNew
<1>3. PICK new \in Alerts :
         new.task = task /\ new.rule = RuleOf[checking] /\ new.binding = checking
             /\ new = [task |-> task, rule |-> RuleOf[checking], binding |-> checking]
  BY <1>1 DEF Alerts
<1>4. \/ /\ added' = added
         /\ \E a \in added : a.task = task /\ a.rule = RuleOf[checking]
      \/ /\ added' = added \cup {new}
         /\ \A a \in alerts \cup added : ~(a.task = task /\ a.rule = RuleOf[checking])
  BY <1>2, <1>3 DEF Check
<1>5. TypeOK'
  BY <1>3, <1>4, RulesAssumption DEF IInv, TypeOK, Check, dbVars
<1>6. OneAlertPerRule'
  <2>1. \A a, b \in alerts \cup added : a.task = b.task /\ a.rule = b.rule => a = b
    BY DEF IInv, OneAlertPerRule
  <2>2. alerts' = alerts
    BY DEF Check
  <2>3. CASE added' = added
    BY <2>1, <2>2, <2>3 DEF OneAlertPerRule
  <2>4. CASE added' # added
    <3>1. /\ added' = added \cup {new}
          /\ \A a \in alerts \cup added : ~(a.task = new.task /\ a.rule = new.rule)
      BY <1>3, <1>4, <2>4
    <3> QED
      BY <2>1, <2>2, <3>1 DEF OneAlertPerRule
  <2> QED
    BY <2>3, <2>4
<1>7. FailureLeavesNothing'
  BY DEF IInv, FailureLeavesNothing, Check
<1>8. NothingPending' /\ TaskIsNew'
  BY <1>1, RulesAssumption DEF IInv, Progress, NothingPending, TaskIsNew, Check
<1>9. AddedIsDue' /\ CheckingIsDue'
  BY <1>1, <1>3, <1>4 DEF IInv, Progress, AddedIsDue, CheckingIsDue, Triggers, Check
<1>10. PassedHasAlert'
  <2> SUFFICES ASSUME NEW c \in selected, c \notin todo,
                      RuleOf[c] \in alwaysOn, Triggers(c)
               PROVE  \E a \in added' : a.rule = RuleOf[c]
    BY DEF PassedHasAlert, Triggers, Check
  <2>1. CASE c = checking
    BY <2>1, <1>3, <1>4
  <2>2. CASE c # checking
    BY <2>2, <1>4 DEF IInv, Progress, PassedHasAlert
  <2> QED
    BY <2>1, <2>2
<1> QED
  BY <1>5, <1>6, <1>7, <1>8, <1>9, <1>10 DEF IInv, Progress

LEMMA CommitKeepsIInv ==
    ASSUME IInv, Commit
    PROVE  IInv'
<1>1. TypeOK'
  BY RulesAssumption DEF IInv, TypeOK, Commit, End, dbVars
<1>2. OneAlertPerRule'
  BY DEF IInv, OneAlertPerRule, Commit, End
<1>3. FailureLeavesNothing'
  BY DEF IInv, TypeOK, FailureLeavesNothing, Progress, TaskIsNew, AddedIsDue, Commit, End
<1>4. Progress'
  BY EndKeepsProgress DEF IInv, Commit
<1> QED
  BY <1>1, <1>2, <1>3, <1>4 DEF IInv

LEMMA EditRuleKeepsIInv ==
    ASSUME IInv, NEW r \in Rules, EditRule(r)
    PROVE  IInv'
<1>1. TypeOK'
  <2>1. edits' \in 0..MaxEdits
    BY RulesAssumption DEF IInv, TypeOK, EditRule
  <2> QED
    BY <2>1 DEF IInv, TypeOK, EditRule, Toggle
<1>2. OneAlertPerRule' /\ FailureLeavesNothing'
  BY DEF IInv, OneAlertPerRule, FailureLeavesNothing, EditRule
<1>3. NothingPending' /\ TaskIsNew'
  BY DEF IInv, Progress, NothingPending, TaskIsNew, EditRule
<1>4. onceOn \subseteq onceOn' /\ alwaysOn' \subseteq alwaysOn
  BY DEF EditRule
<1>5. AddedIsDue' /\ CheckingIsDue' /\ PassedHasAlert'
  BY <1>4 DEF IInv, Progress, AddedIsDue, CheckingIsDue, PassedHasAlert, Triggers, EditRule
<1> QED
  BY <1>1, <1>2, <1>3, <1>5 DEF IInv, Progress

LEMMA EditBindingKeepsIInv ==
    ASSUME IInv, NEW b \in Bindings, EditBinding(b)
    PROVE  IInv'
<1>1. TypeOK'
  <2>1. edits' \in 0..MaxEdits
    BY RulesAssumption DEF IInv, TypeOK, EditBinding
  <2> QED
    BY <2>1 DEF IInv, TypeOK, EditBinding, Toggle, evalVars
<1>2. OneAlertPerRule' /\ FailureLeavesNothing' /\ Progress'
  BY DEF IInv, OneAlertPerRule, FailureLeavesNothing, Progress, NothingPending, TaskIsNew,
         AddedIsDue, CheckingIsDue, PassedHasAlert, Triggers, EditBinding, evalVars
<1> QED
  BY <1>1, <1>2 DEF IInv

LEMMA IInvIsInductive == IInv /\ [Next]_vars => IInv'
<1> SUFFICES ASSUME IInv, [Next]_vars PROVE IInv'
  OBVIOUS
<1>1. ASSUME NEW t \in Tasks, NEW r \in Results, Begin(t, r) PROVE IInv'
  BY <1>1, BeginKeepsIInv
<1>2. CASE Check
  BY <1>2, CheckKeepsIInv
<1>3. CASE Commit
  BY <1>3, CommitKeepsIInv
<1>4. ASSUME NEW b \in Bindings, Look(b) PROVE IInv'
  BY <1>4, LookKeepsIInv
<1>5. ASSUME NEW b \in Bindings, Raise(b) PROVE IInv'
  BY <1>5, FailureKeepsIInv DEF Raise
<1>6. CASE DbError
  BY <1>6, FailureKeepsIInv DEF DbError
<1>7. ASSUME NEW r \in Rules, EditRule(r) PROVE IInv'
  BY <1>7, EditRuleKeepsIInv
<1>8. ASSUME NEW b \in Bindings, EditBinding(b) PROVE IInv'
  BY <1>8, EditBindingKeepsIInv
<1>9. CASE UNCHANGED vars
  BY <1>9 DEF IInv, TypeOK, OneAlertPerRule, FailureLeavesNothing, Progress, NothingPending,
              TaskIsNew, AddedIsDue, CheckingIsDue, PassedHasAlert, Triggers, vars, dbVars, evalVars
<1> QED
  BY <1>1, <1>2, <1>3, <1>4, <1>5, <1>6, <1>7, <1>8, <1>9 DEF Next, Evaluate

(* IInv holds in every reachable state.                                    *)
THEOREM Invariance == Spec => []IInv
  BY IInvHoldsInitially, IInvIsInductive, PTL DEF Spec

-----------------------------------------------------------------------------
(* The theorems.                                                           *)

(* Every variable keeps its type.                                          *)
THEOREM TypeInvariant == Spec => []TypeOK
  BY Invariance, PTL DEF IInv

(* A rule has one alert per task at most, however many of its bindings     *)
(* trigger and however the admin edits meanwhile.                          *)
THEOREM OneAlertHolds == Spec => []OneAlertPerRule
  BY Invariance, PTL DEF IInv

(* An evaluation that failed has left no alert.                            *)
THEOREM FailureHolds == Spec => []FailureLeavesNothing
  BY Invariance, PTL DEF IInv

(* What an evaluation is about to commit is what is due.                   *)
THEOREM AddsHolds == Spec => []AddsWhatIsDue
<1>1. IInv => AddsWhatIsDue
  <2> SUFFICES ASSUME IInv, task # Nothing, todo = {}, checking = Nothing
               PROVE  LET triggering == {RuleOf[b] : b \in {c \in selected :
                                                        Triggered(RuleOf[c], Extract(result))}}
                          alerting   == {a.rule : a \in added}
                      IN  /\ alwaysOn \cap triggering \subseteq alerting
                          /\ alerting \subseteq onceOn \cap triggering
    BY DEF AddsWhatIsDue
  <2>1. Nothing \notin selected
    BY RulesAssumption DEF IInv, TypeOK
  <2> QED
    BY <2>1 DEF IInv, Progress, AddedIsDue, PassedHasAlert, Triggers
<1> QED
  BY <1>1, Invariance, PTL

(* The engine finds what it is to find in every frame of every length.     *)
THEOREM EngineHolds == Spec => []EngineFinds
<1>1. TypeOK => EngineFinds
  <2> SUFFICES ASSUME TypeOK, task # Nothing
               PROVE  LET frame == Extract(result)
                      IN  /\ Intrusion(frame, "enter") <=> Enters(frame)
                          /\ Intrusion(frame, "exit") <=> Leaves(frame)
                          /\ Loitering(frame) <=> Stays(frame)
    BY DEF EngineFinds
  <2>1. Extract(result) \in Seq(Detections)
    <3>1. CASE result.path = "agent"
      BY <3>1 DEF TypeOK, Results, Extract, BoundedSeq, SeqOf
    <3>2. CASE result.path # "agent"
      BY <3>2 DEF Extract
    <3> QED
      BY <3>1, <3>2
  <2> QED
    BY <2>1, EntersIsFound, LeavesIsFound, StaysIsFound
<1> QED
  BY <1>1, TypeInvariant, PTL
=============================================================================
