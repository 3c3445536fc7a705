-------------------------- MODULE ResultCacheProofs --------------------------
(***************************************************************************)
(* Proofs about ResultCache, for any callers, frames, contexts, threshold, *)
(* ttl and number of candidates.  An answer that a lookup returns has gone *)
(* through an entry, a member of the sorted set and a list of candidates,  *)
(* each read in a step of its own: the inductive invariant says what each  *)
(* of the three keeps of the request that it comes from.                   *)
(***************************************************************************)
EXTENDS ResultCache, SequenceTheorems, TLAPS

(* The entry of a frame answers a request for that frame.                  *)
EntriesAnswer ==
    \A f \in Frames : entry[f] # None =>
        entry[f] \in Entries /\ entry[f].answer.frame = f /\ entry[f].answer \in Requests

(* The sorted set is ordered, without repetition, and of requests.         *)
Sorted(s) ==
    /\ s \in Seq(Scored)
    /\ \A i, j \in DOMAIN s :
          i < j => s[i].age >= s[j].age /\ s[i].member # s[j].member
    /\ \A i \in DOMAIN s : s[i].member \in Requests

(* A caller works on a request; its candidates were requested, and the     *)
(* first of them matches; the answer it got is near, and was overwritten   *)
(* if it is of another context.                                            *)
Fits(r) ==
    /\ r \in CallerStates
    /\ (r.at = "probe" <=> r.todo # <<>>) /\ Len(r.todo) <= MaxCandidates
    /\ r.at # "idle" => [frame |-> r.frame, context |-> r.context] \in Requests
    /\ \A i \in DOMAIN r.todo : r.todo[i] \in Requests
    /\ r.at = "probe" => r.todo[1].context = r.context /\ r.todo[1].frame \in Near[r.frame]
    /\ r.hit # None =>
          /\ r.hit.frame \in Near[r.frame]
          /\ r.hit.context # r.context => [r.hit EXCEPT !.context = r.context] \in Requests

IInv ==
    /\ entry \in [Frames -> Entries \cup {None}] /\ EntriesAnswer
    /\ Sorted(index) /\ left \in 0..TTL + 1 /\ (left = 0 => index = <<>>)
    /\ caller \in [Callers -> CallerStates] /\ \A c \in Callers : Fits(caller[c])

LEMMA IInvImplies == IInv => TypeOK /\ HitsAreNear /\ SlipsOnlyByOverwriting
  BY DEF IInv, Sorted, Fits, TypeOK, HitsAreNear, SlipsOnlyByOverwriting

LEMMA IdleFits == Fits(Idle)
<1>1. <<>> \in Seq(Answers) /\ Len(<<>>) = 0 /\ DOMAIN <<>> = {}
  OBVIOUS
<1>2. Idle \in CallerStates
  BY <1>1 DEF Idle, CallerStates, Places
<1> QED
  BY <1>1, <1>2, CacheAssumption DEF Idle, Fits

-----------------------------------------------------------------------------
(* The sorted set.                                                         *)

LEMMA ScoredAge == \A e \in Scored : e.age \in Nat
  BY CacheAssumption DEF Scored

(* Taking out element i moves those behind it up by one.                   *)
LEMMA RemoveAtFacts ==
    ASSUME NEW S, NEW s \in Seq(S), NEW i \in 1..Len(s)
    PROVE  /\ RemoveAt(s, i) \in Seq(S)
           /\ Len(RemoveAt(s, i)) = Len(s) - 1
           /\ \A j \in 1..(Len(s) - 1) :
                 RemoveAt(s, i)[j] = IF j < i THEN s[j] ELSE s[j + 1]
<1> DEFINE front == SubSeq(s, 1, i - 1)
           back == SubSeq(s, i + 1, Len(s))
<1>1. Len(s) \in Nat /\ \A j \in 1..Len(s) : s[j] \in S
  BY ElementOfSeq, LenProperties
<1>2. /\ front \in Seq(S) /\ Len(front) = i - 1
      /\ \A j \in 1..(i - 1) : front[j] = s[j]
  <2>1. \A j \in 1..(i - 1) : s[j] \in S
    BY <1>1
  <2>2. /\ front \in Seq(S)
        /\ Len(front) = IF 1 <= i - 1 THEN (i - 1) - 1 + 1 ELSE 0
        /\ \A j \in 1..((i - 1) - 1 + 1) : front[j] = s[1 + j - 1]
    BY <1>1, <2>1, SubSeqProperties
  <2> QED
    BY <1>1, <2>2
<1>3. /\ back \in Seq(S) /\ Len(back) = Len(s) - i
      /\ \A j \in 1..(Len(s) - i) : back[j] = s[i + j]
  <2>1. \A j \in (i + 1)..Len(s) : s[j] \in S
    BY <1>1
  <2>2. /\ back \in Seq(S)
        /\ Len(back) = IF i + 1 <= Len(s) THEN Len(s) - (i + 1) + 1 ELSE 0
        /\ \A j \in 1..(Len(s) - (i + 1) + 1) : back[j] = s[(i + 1) + j - 1]
    BY <1>1, <2>1, SubSeqProperties
  <2> QED
    BY <1>1, <2>2
<1>4. /\ front \o back \in Seq(S)
      /\ Len(front \o back) = Len(front) + Len(back)
      /\ \A j \in 1..(Len(front) + Len(back)) :
            (front \o back)[j] = IF j <= Len(front) THEN front[j]
                                                    ELSE back[j - Len(front)]
  BY <1>2, <1>3, ConcatProperties
<1>5. RemoveAt(s, i) = front \o back
  BY DEF RemoveAt
<1> HIDE DEF front, back
<1>6. Len(front) + Len(back) = Len(s) - 1
  BY <1>1, <1>2, <1>3
<1>7. ASSUME NEW j \in 1..(Len(s) - 1)
      PROVE  (front \o back)[j] = IF j < i THEN s[j] ELSE s[j + 1]
  <2>1. (front \o back)[j] = IF j <= Len(front) THEN front[j] ELSE back[j - Len(front)]
    BY <1>4, <1>6
  <2>2. CASE j < i
    BY <1>1, <1>2, <2>1, <2>2
  <2>3. CASE ~(j < i)
    <3>1. j - (i - 1) \in 1..(Len(s) - i) /\ i + (j - (i - 1)) = j + 1
      BY <1>1, <2>3
    <3>2. (front \o back)[j] = back[j - (i - 1)]
      BY <1>1, <1>2, <2>1, <2>3
    <3> QED
      BY <1>3, <2>3, <3>1, <3>2
  <2> QED
    BY <2>2, <2>3
<1> QED
  BY <1>4, <1>5, <1>6, <1>7

(* A newest member at the end keeps the order, if it was not there.        *)
LEMMA AppendSorted ==
    ASSUME NEW s, Sorted(s), NEW m \in Requests, \A i \in DOMAIN s : s[i].member # m
    PROVE  Sorted(Append(s, [member |-> m, age |-> 0]))
<1>1. PICK new \in Scored : new = [member |-> m, age |-> 0] /\ new.member = m /\ new.age = 0
  <2>1. m \in Answers /\ 0 \in 0..TTL
    BY CacheAssumption DEF Answers
  <2>2. [member |-> m, age |-> 0] \in Scored
    BY <2>1 DEF Scored
  <2> QED
    BY <2>2
<1> DEFINE t == Append(s, new)
<1>2. s \in Seq(Scored) /\ Len(s) \in Nat /\ DOMAIN s = 1..Len(s)
  BY DEF Sorted
<1>3. /\ t \in Seq(Scored) /\ DOMAIN t = 1..(Len(s) + 1)
      /\ \A i \in DOMAIN s : t[i] = s[i]
      /\ t[Len(s) + 1] = new
  BY <1>2
<1>4. \A i \in DOMAIN s : s[i].age \in Nat
  BY <1>2, ElementOfSeq, ScoredAge
<1> HIDE DEF t
<1>5. \A i \in DOMAIN t : t[i].member \in Requests
  BY <1>1, <1>2, <1>3 DEF Sorted
<1>6. ASSUME NEW i \in DOMAIN t, NEW j \in DOMAIN t, i < j
      PROVE  t[i].age >= t[j].age /\ t[i].member # t[j].member
  <2>1. i \in DOMAIN s
    BY <1>2, <1>3, <1>6
  <2>2. CASE j \in DOMAIN s
    BY <1>3, <1>6, <2>1, <2>2 DEF Sorted
  <2>3. CASE j = Len(s) + 1
    BY <1>1, <1>3, <1>4, <2>1, <2>3
  <2> QED
    BY <1>2, <1>3, <2>2, <2>3
<1>7. Sorted(t)
  BY <1>3, <1>5, <1>6 DEF Sorted
<1> QED
  BY <1>1, <1>7 DEF t

LEMMA RemoveSorted ==
    ASSUME NEW s, Sorted(s), NEW k \in DOMAIN s
    PROVE  /\ Sorted(RemoveAt(s, k))
           /\ \A i \in DOMAIN RemoveAt(s, k) : RemoveAt(s, k)[i].member # s[k].member
<1> DEFINE t == RemoveAt(s, k)
<1>1. s \in Seq(Scored) /\ Len(s) \in Nat /\ DOMAIN s = 1..Len(s) /\ k \in 1..Len(s)
  BY DEF Sorted
<1>2. /\ t \in Seq(Scored) /\ Len(t) = Len(s) - 1
      /\ \A i \in 1..(Len(s) - 1) : t[i] = IF i < k THEN s[i] ELSE s[i + 1]
  BY <1>1, RemoveAtFacts
<1> HIDE DEF t
<1>3. DOMAIN t = 1..(Len(s) - 1)
  BY <1>2
<1>4. ASSUME NEW i \in DOMAIN t
      PROVE  \E n \in DOMAIN s : n = (IF i < k THEN i ELSE i + 1) /\ t[i] = s[n] /\ n # k
  BY <1>1, <1>2, <1>3
<1>5. ASSUME NEW i \in DOMAIN t, NEW j \in DOMAIN t, i < j
      PROVE  t[i].age >= t[j].age /\ t[i].member # t[j].member
  <2>1. PICK n \in DOMAIN s : n = (IF i < k THEN i ELSE i + 1) /\ t[i] = s[n]
    BY <1>4
  <2>2. PICK o \in DOMAIN s : o = (IF j < k THEN j ELSE j + 1) /\ t[j] = s[o]
    BY <1>4
  <2>3. n < o
    BY <1>1, <1>3, <1>5, <2>1, <2>2
  <2> QED
    BY <2>1, <2>2, <2>3 DEF Sorted
<1>6. \A i \in DOMAIN t : t[i].member \in Requests /\ t[i].member # s[k].member
  <2> TAKE i \in DOMAIN t
  <2>1. PICK n \in DOMAIN s : t[i] = s[n] /\ n # k
    BY <1>4
  <2>2. n < k \/ k < n
    BY <1>1, <2>1
  <2> QED
    BY <2>1, <2>2 DEF Sorted
<1>7. Sorted(t)
  BY <1>2, <1>5, <1>6 DEF Sorted
<1> QED
  BY <1>6, <1>7 DEF t

(* A tick keeps the order of the members that remain.                      *)
LEMMA AgedSorted ==
    ASSUME Sorted(index), NEW n \in 0..Len(index),
           \A i \in DOMAIN index : i <= n <=> index[i].age = TTL
    PROVE  Sorted(Aged(n))
<1> DEFINE t == Aged(n)
<1>1. index \in Seq(Scored) /\ Len(index) \in Nat /\ DOMAIN index = 1..Len(index)
  BY DEF Sorted
<1>2. Len(index) - n \in Nat /\ DOMAIN t = 1..(Len(index) - n)
  BY <1>1 DEF Aged
<1>3. ASSUME NEW i \in DOMAIN t
      PROVE  /\ i + n \in DOMAIN index
             /\ t[i] \in Scored /\ t[i].member = index[i + n].member
             /\ t[i].age = index[i + n].age + 1
  <2>1. i + n \in DOMAIN index /\ ~(i + n <= n)
    BY <1>1, <1>2
  <2>2. PICK e \in Scored : e = index[i + n]
    BY <1>1, <2>1, ElementOfSeq
  <2>3. e.age \in 0..TTL /\ e.age # TTL
    BY <2>1, <2>2 DEF Scored
  <2>4. t[i] = [e EXCEPT !.age = e.age + 1]
    BY <1>2, <2>2 DEF Aged
  <2>5. e.age + 1 \in 0..TTL
    BY <2>3, CacheAssumption
  <2> QED
    BY <2>1, <2>2, <2>4, <2>5 DEF Scored
<1>4. t \in Seq(Scored)
  BY <1>2, <1>3 DEF Aged
<1> HIDE DEF t
<1>5. \A i \in DOMAIN t : t[i].member \in Requests
  BY <1>3 DEF Sorted
<1>6. ASSUME NEW i \in DOMAIN t, NEW j \in DOMAIN t, i < j
      PROVE  t[i].age >= t[j].age /\ t[i].member # t[j].member
  <2>1. i + n < j + n /\ i + n \in DOMAIN index /\ j + n \in DOMAIN index
    BY <1>1, <1>2, <1>3, <1>6
  <2>2. index[i + n].age >= index[j + n].age /\ index[i + n].member # index[j + n].member
    BY <2>1 DEF Sorted
  <2>3. index[i + n].age \in Nat /\ index[j + n].age \in Nat
    BY <1>1, <2>1, ElementOfSeq, ScoredAge
  <2> QED
    BY <1>3, <2>2, <2>3
<1>7. Sorted(t)
  BY <1>4, <1>5, <1>6 DEF Sorted
<1> QED
  BY <1>7 DEF t

-----------------------------------------------------------------------------
(* The callers.                                                            *)

(* One caller moves on, and the others stay.                               *)
CallersFit == caller \in [Callers -> CallerStates] /\ \A c \in Callers : Fits(caller[c])

LEMMA CallersStayFit ==
    ASSUME IInv, NEW c \in Callers, NEW r, Fits(r), caller' = [caller EXCEPT ![c] = r]
    PROVE  CallersFit'
<1>1. r \in CallerStates
  BY DEF Fits
<1>2. caller' \in [Callers -> CallerStates]
  BY <1>1 DEF IInv
<1>3. ASSUME NEW d \in Callers PROVE Fits(caller'[d])
  <2>1. caller'[d] = IF d = c THEN r ELSE caller[d]
    BY DEF IInv
  <2> QED
    BY <2>1 DEF IInv
<1> QED
  BY <1>2, <1>3 DEF CallersFit

LEMMA CallerMoves ==
    ASSUME IInv, NEW c \in Callers, NEW r, Fits(r), caller' = [caller EXCEPT ![c] = r],
           UNCHANGED <<entry, index, left>>
    PROVE  IInv'
<1>1. EntriesAnswer' /\ Sorted(index)'
  BY DEF IInv, EntriesAnswer, Sorted
<1> QED
  BY <1>1, CallersStayFit DEF IInv, CallersFit

(* A caller goes on with its request, to the LLM's answer or a command.    *)
LEMMA GotoFits ==
    ASSUME IInv, NEW c \in Callers, caller[c].at \notin {"idle", "probe"},
           NEW place \in {"store", "add", "expire"}, Goto(c, place)
    PROVE  /\ CallersFit'
           /\ Mine(c) \in Requests /\ Mine(c) \in Answers /\ caller[c].frame \in Frames
<1>1. PICK r \in CallerStates : r = caller[c] /\ Fits(r)
  BY DEF IInv
<1> DEFINE new == [r EXCEPT !.at = place]
<1>2. caller' = [caller EXCEPT ![c] = new]
  BY <1>1 DEF IInv, Goto
<1>3. /\ new \in CallerStates /\ new.at = place /\ new.todo = r.todo
      /\ new.frame = r.frame /\ new.context = r.context /\ new.hit = r.hit
  BY <1>1 DEF CallerStates, Places
<1> HIDE DEF new
<1>4. Fits(new)
  BY <1>1, <1>3 DEF Fits
<1>5. Mine(c) \in Requests
  BY <1>1 DEF Fits, Mine
<1>6. Mine(c) \in Answers /\ caller[c].frame \in Frames
  BY <1>5, CacheAssumption DEF Mine, Answers
<1> QED
  BY <1>2, <1>4, <1>5, <1>6, CallersStayFit

(* A caller that asks goes on to other candidates.                         *)
LEMMA GoOnKeepsIInv ==
    ASSUME IInv, NEW c \in Callers, caller[c].at # "idle",
           NEW todo \in Seq(Answers), Len(todo) <= MaxCandidates,
           \A i \in DOMAIN todo : todo[i] \in Requests,
           GoOn(c, todo), UNCHANGED <<entry, index, left>>
    PROVE  IInv'
<1>1. PICK n \in 1..Len(todo) + 1 :
         /\ n <= Len(todo) => Matches(c, todo[n])
         /\ caller' = [caller EXCEPT ![c].at = IF n <= Len(todo) THEN "probe" ELSE "miss",
                                     ![c].todo = SubSeq(todo, n, Len(todo))]
  BY DEF GoOn
<1>2. PICK r \in CallerStates : r = caller[c] /\ Fits(r)
  BY DEF IInv
<1>3. Len(todo) \in Nat /\ DOMAIN todo = 1..Len(todo)
  OBVIOUS
<1>4. PICK rest \in Seq(Answers) :
         /\ rest = SubSeq(todo, n, Len(todo))
         /\ Len(rest) = Len(todo) + 1 - n
         /\ \A i \in 1..Len(rest) : rest[i] = todo[n + i - 1]
  <2>1. \A i \in n..Len(todo) : todo[i] \in Answers
    BY <1>1, <1>3, ElementOfSeq
  <2>2. /\ SubSeq(todo, n, Len(todo)) \in Seq(Answers)
        /\ Len(SubSeq(todo, n, Len(todo))) = IF n <= Len(todo) THEN Len(todo) - n + 1 ELSE 0
        /\ \A i \in 1..(Len(todo) - n + 1) : SubSeq(todo, n, Len(todo))[i] = todo[n + i - 1]
    BY <1>3, <2>1, SubSeqProperties
  <2> DEFINE rest == SubSeq(todo, n, Len(todo))
  <2> HIDE DEF rest
  <2>3. Len(rest) = Len(todo) + 1 - n
    BY <1>3, <2>2 DEF rest
  <2>4. \A i \in 1..Len(rest) : rest[i] = todo[n + i - 1]
    BY <1>3, <2>2, <2>3 DEF rest
  <2> QED
    BY <2>2, <2>3, <2>4 DEF rest
<1>5. PICK place \in {"probe", "miss"} :
         place = IF n <= Len(todo) THEN "probe" ELSE "miss"
  OBVIOUS
<1> DEFINE new == [r EXCEPT !.at = place, !.todo = rest]
<1>6. caller' = [caller EXCEPT ![c] = new]
  BY <1>1, <1>2, <1>4, <1>5 DEF IInv
<1>7. /\ new \in CallerStates
      /\ new.at = place /\ new.todo = rest
      /\ new.frame = r.frame /\ new.context = r.context /\ new.hit = r.hit
  BY <1>2, <1>4, <1>5 DEF CallerStates, Places
<1> HIDE DEF new
<1>8. (place = "probe" <=> rest # <<>>) /\ Len(rest) <= MaxCandidates
  BY <1>3, <1>4, <1>5, CacheAssumption
<1>9. \A i \in DOMAIN rest : rest[i] \in Requests
  BY <1>3, <1>4
<1>10. place = "probe" => rest[1].context = r.context /\ rest[1].frame \in Near[r.frame]
  <2> SUFFICES ASSUME n <= Len(todo)
               PROVE  rest[1].context = r.context /\ rest[1].frame \in Near[r.frame]
    BY <1>5
  <2>1. rest[1] = todo[n]
    BY <1>3, <1>4
  <2> QED
    BY <1>1, <1>2, <2>1 DEF Matches
<1>11. Fits(new)
  BY <1>2, <1>7, <1>8, <1>9, <1>10 DEF Fits
<1> QED
  BY <1>6, <1>11, CallerMoves

LEMMA IdleKeepsIInv ==
    ASSUME IInv, NEW c \in Callers, caller' = [caller EXCEPT ![c] = Idle],
           UNCHANGED <<entry, index, left>>
    PROVE  IInv'
  BY IdleFits, CallerMoves

(* A lookup that returns what answers the request, or what was found under *)
(* a matching candidate.                                                   *)
LEMMA ReturnKeepsIInv ==
    ASSUME IInv, NEW c \in Callers, NEW f \in Frames, NEW x \in Contexts,
           NEW answer \in Answers, answer.frame \in Near[f],
           answer.context # x => [answer EXCEPT !.context = x] \in Requests,
           Return(c, f, x, answer), UNCHANGED <<entry, index, left>>
    PROVE  IInv'
<1> DEFINE r == [at |-> "idle", frame |-> f, context |-> x, todo |-> <<>>, hit |-> answer]
<1>1. r \in CallerStates
  <2>1. <<>> \in Seq(Answers)
    OBVIOUS
  <2> QED
    BY <2>1 DEF CallerStates, Places
<1>2. caller' = [caller EXCEPT ![c] = r]
  BY DEF Return
<1>3. Fits(r)
  BY <1>1, CacheAssumption DEF Fits
<1> QED
  BY <1>2, <1>3, CallerMoves

-----------------------------------------------------------------------------
(* The steps.                                                              *)

LEMMA GetKeepsIInv ==
    ASSUME IInv, NEW c \in Callers, NEW q \in Requests, Get(c, q.frame, q.context)
    PROVE  IInv'
<1> DEFINE f == q.frame
           x == q.context
<1>1. q \in Answers /\ f \in Frames /\ x \in Contexts /\ q = [frame |-> f, context |-> x]
  BY CacheAssumption DEF Answers
<1> HIDE DEF f, x
<1>2. CASE entry[f] # None /\ entry[f].answer.context = x
  <2>1. /\ entry[f].answer \in Answers /\ entry[f].answer.frame = f
    BY <1>1, <1>2 DEF IInv, EntriesAnswer, Entries
  <2>2. Return(c, f, x, entry[f].answer)
    BY <1>2 DEF Get, f, x
  <2>3. f \in Near[f]
    BY <1>1, CacheAssumption
  <2>4. UNCHANGED <<entry, index, left>>
    BY DEF Get
  <2> QED
    BY <1>1, <1>2, <2>1, <2>2, <2>3, <2>4, ReturnKeepsIInv
<1>3. CASE ~(entry[f] # None /\ entry[f].answer.context = x)
  <2> DEFINE r == [at |-> "scan", frame |-> f, context |-> x, todo |-> <<>>, hit |-> None]
  <2>1. caller' = [caller EXCEPT ![c] = r] /\ UNCHANGED <<entry, index, left>>
    BY <1>3 DEF Get, f, x
  <2>2. r \in CallerStates
    <3>1. <<>> \in Seq(Answers)
      OBVIOUS
    <3> QED
      BY <1>1, <3>1 DEF CallerStates, Places
  <2>3. Fits(r)
    BY <1>1, <2>2, CacheAssumption DEF Fits
  <2> QED
    BY <2>1, <2>3, CallerMoves
<1> QED
  BY <1>2, <1>3

LEMMA GetFailsKeepsIInv ==
    ASSUME IInv, NEW c \in Callers, NEW q \in Requests, GetFails(c, q.frame, q.context)
    PROVE  IInv'
<1> DEFINE r == [at |-> "miss", frame |-> q.frame, context |-> q.context,
                 todo |-> <<>>, hit |-> None]
<1>1. /\ q.frame \in Frames /\ q.context \in Contexts
      /\ [frame |-> q.frame, context |-> q.context] \in Requests
  BY CacheAssumption
<1>2. caller' = [caller EXCEPT ![c] = r] /\ UNCHANGED <<entry, index, left>>
  BY DEF GetFails
<1>3. r \in CallerStates
  <2>1. <<>> \in Seq(Answers)
    OBVIOUS
  <2> QED
    BY <1>1, <2>1 DEF CallerStates, Places
<1>4. Fits(r)
  BY <1>1, <1>3, CacheAssumption DEF Fits
<1> QED
  BY <1>2, <1>3, <1>4, CallerMoves

LEMMA ScanKeepsIInv ==
    ASSUME IInv, NEW c \in Callers, Scan(c)
    PROVE  IInv'
<1>1. index \in Seq(Scored) /\ Len(index) \in Nat /\ DOMAIN index = 1..Len(index)
  BY DEF IInv, Sorted
<1> DEFINE k    == IF Len(index) < MaxCandidates THEN Len(index) ELSE MaxCandidates
           todo == [i \in 1..k |-> index[i].member]
<1>2. k \in Nat /\ k <= MaxCandidates /\ k <= Len(index)
  BY <1>1, CacheAssumption
<1>3. \A i \in 1..k : index[i].member \in Requests /\ index[i].member \in Answers
  BY <1>1, <1>2, CacheAssumption DEF IInv, Sorted, Answers
<1>4. GoOn(c, todo) /\ UNCHANGED <<entry, index, left>> /\ caller[c].at # "idle"
  BY DEF Scan, At
<1> HIDE DEF k
<1>5. todo \in Seq(Answers) /\ Len(todo) = k /\ DOMAIN todo = 1..k
  BY <1>2, <1>3
<1>6. \A i \in DOMAIN todo : todo[i] \in Requests
  BY <1>3, <1>5
<1> HIDE DEF todo
<1> QED
  BY <1>2, <1>4, <1>5, <1>6, GoOnKeepsIInv

LEMMA ProbeKeepsIInv ==
    ASSUME IInv, NEW c \in Callers, Probe(c)
    PROVE  IInv'
<1>1. PICK r \in CallerStates : r = caller[c] /\ Fits(r) /\ r.at = "probe"
  BY DEF IInv, Probe, At
<1>2. r.todo \in Seq(Answers) /\ r.todo # <<>> /\ Len(r.todo) <= MaxCandidates
  BY <1>1 DEF Fits, CallerStates
<1>3. PICK m \in Answers : m = Head(r.todo) /\ m = r.todo[1] /\ 1 \in DOMAIN r.todo
  BY <1>2
<1>4. /\ m \in Requests /\ m.frame \in Frames /\ m.context \in Contexts
      /\ m.context = r.context /\ m.frame \in Near[r.frame]
  BY <1>1, <1>3 DEF Fits, Answers
<1>5. [frame |-> r.frame, context |-> r.context] \in Requests
  BY <1>1 DEF Fits
<1>6. r.frame \in Frames /\ r.context \in Contexts
  BY <1>5, CacheAssumption
<1>7. UNCHANGED <<entry, index, left>>
  BY DEF Probe
<1>8. CASE entry[m.frame] # None
  <2>1. PICK answer \in Answers : answer = entry[m.frame].answer /\ answer.frame = m.frame
    BY <1>4, <1>8 DEF IInv, EntriesAnswer, Entries
  <2>2. Return(c, r.frame, r.context, answer)
    BY <1>1, <1>3, <1>8, <2>1 DEF Probe
  <2>3. [answer EXCEPT !.context = r.context] = m
    BY <1>4, <2>1 DEF Answers
  <2> QED
    BY <1>4, <1>6, <1>7, <2>1, <2>2, <2>3, ReturnKeepsIInv
<1>9. CASE entry[m.frame] = None
  <2> DEFINE todo == Tail(r.todo)
  <2>1. GoOn(c, todo)
    BY <1>1, <1>3, <1>9 DEF Probe
  <2>2. Len(r.todo) \in Nat \ {0}
    BY <1>2
  <2>3. /\ todo \in Seq(Answers) /\ Len(todo) = Len(r.todo) - 1
        /\ \A i \in 1..Len(todo) : todo[i] = r.todo[i + 1]
    BY <1>2
  <2> HIDE DEF todo
  <2>4. Len(todo) <= MaxCandidates
    BY <1>2, <2>2, <2>3, CacheAssumption
  <2>5. \A i \in DOMAIN todo : todo[i] \in Requests
    <3> TAKE i \in DOMAIN todo
    <3>1. i + 1 \in DOMAIN r.todo /\ todo[i] = r.todo[i + 1]
      BY <1>2, <2>2, <2>3
    <3> QED
      BY <1>1, <3>1 DEF Fits
  <2> QED
    BY <1>1, <1>7, <2>1, <2>3, <2>4, <2>5, GoOnKeepsIInv
<1> QED
  BY <1>8, <1>9

LEMMA GetErrorKeepsIInv ==
    ASSUME IInv, NEW c \in Callers, GetError(c)
    PROVE  IInv'
<1> DEFINE none == <<>>
<1>1. none \in Seq(Answers) /\ Len(none) = 0 /\ DOMAIN none = {}
  OBVIOUS
<1>2. caller[c].at # "idle" /\ GoOn(c, none) /\ UNCHANGED <<entry, index, left>>
  BY DEF GetError
<1> HIDE DEF none
<1>3. Len(none) <= MaxCandidates /\ \A i \in DOMAIN none : none[i] \in Requests
  BY <1>1, CacheAssumption
<1> QED
  BY <1>1, <1>2, <1>3, GoOnKeepsIInv

LEMMA AnswerKeepsIInv ==
    ASSUME IInv, NEW c \in Callers, Answer(c)
    PROVE  IInv'
<1>1. CASE Goto(c, "store")
  <2>1. CallersFit'
    BY <1>1, GotoFits DEF Answer, At
  <2>2. EntriesAnswer' /\ Sorted(index)'
    BY DEF IInv, EntriesAnswer, Sorted, Answer
  <2> QED
    BY <2>1, <2>2 DEF IInv, CallersFit, Answer
<1>2. CASE caller' = [caller EXCEPT ![c] = Idle]
  BY <1>2, IdleKeepsIInv DEF Answer
<1> QED
  BY <1>1, <1>2 DEF Answer

LEMMA StoreKeepsIInv ==
    ASSUME IInv, NEW c \in Callers, Store(c)
    PROVE  IInv'
<1>1. CallersFit' /\ Mine(c) \in Requests /\ Mine(c) \in Answers /\ caller[c].frame \in Frames
  BY GotoFits DEF Store, At
<1>2. PICK e \in Entries : /\ e = [answer |-> Mine(c), left |-> TTL]
                           /\ e.answer = Mine(c)
  <2>1. TTL \in 1..TTL
    BY CacheAssumption
  <2>2. [answer |-> Mine(c), left |-> TTL] \in Entries
    BY <1>1, <2>1 DEF Entries
  <2> QED
    BY <2>2
<1>3. e.answer.frame = caller[c].frame
  BY <1>2 DEF Mine
<1>4. entry' = [entry EXCEPT ![caller[c].frame] = e]
  BY <1>2 DEF Store
<1>5. entry' \in [Frames -> Entries \cup {None}]
  BY <1>4 DEF IInv
<1>6. EntriesAnswer'
  BY <1>1, <1>2, <1>3, <1>4 DEF IInv, EntriesAnswer
<1>7. Sorted(index)'
  BY DEF IInv, Sorted, Store
<1> QED
  BY <1>1, <1>5, <1>6, <1>7 DEF IInv, CallersFit, Store

LEMMA AddKeepsIInv ==
    ASSUME IInv, NEW c \in Callers, Add(c)
    PROVE  IInv'
<1>1. CallersFit' /\ Mine(c) \in Requests
  BY GotoFits DEF Add, At
<1> DEFINE old    == {i \in DOMAIN index : index[i].member = Mine(c)}
           others == IF old = {} THEN index ELSE RemoveAt(index, CHOOSE i \in old : TRUE)
<1>2. Sorted(others) /\ \A i \in DOMAIN others : others[i].member # Mine(c)
  <2>1. CASE old = {}
    BY <2>1 DEF IInv
  <2>2. CASE old # {}
    <3>1. PICK k \in DOMAIN index : /\ index[k].member = Mine(c)
                                    /\ others = RemoveAt(index, k)
      BY <2>2
    <3> QED
      BY <3>1, RemoveSorted DEF IInv
  <2> QED
    BY <2>1, <2>2
<1>3. index' = Append(others, [member |-> Mine(c), age |-> 0])
  BY DEF Add
<1> HIDE DEF others
<1>4. Sorted(index')
  BY <1>1, <1>2, <1>3, AppendSorted
<1>5. left' \in 0..TTL + 1 /\ left' # 0
  BY CacheAssumption DEF IInv, Add
<1>6. EntriesAnswer' /\ entry' \in [Frames -> Entries \cup {None}]
  BY DEF IInv, EntriesAnswer, Add
<1> QED
  BY <1>1, <1>4, <1>5, <1>6 DEF IInv, CallersFit

LEMMA ExpireKeepsIInv ==
    ASSUME IInv, NEW c \in Callers, Expire(c)
    PROVE  IInv'
<1>1. CallersFit'
  BY IdleFits, CallersStayFit DEF Expire
<1>2. left' \in 0..TTL + 1 /\ (left' = 0 => left = 0)
  BY CacheAssumption DEF IInv, Expire
<1>3. EntriesAnswer' /\ Sorted(index)'
  BY DEF IInv, EntriesAnswer, Sorted, Expire
<1> QED
  BY <1>1, <1>2, <1>3 DEF IInv, CallersFit, Expire

LEMMA TickKeepsIInv ==
    ASSUME IInv, Tick
    PROVE  IInv'
<1>1. ASSUME NEW f \in Frames
      PROVE  /\ entry'[f] \in Entries \cup {None}
             /\ entry'[f] # None => entry[f] # None /\ entry'[f].answer = entry[f].answer
                                    /\ entry'[f] \in Entries
  <2>1. CASE entry[f] = None \/ entry[f].left = 1
    BY <2>1 DEF Tick
  <2>2. CASE entry[f] # None /\ entry[f].left # 1
    <3>1. PICK e \in Entries : e = entry[f]
      BY <2>2 DEF IInv
    <3>2. entry'[f] = [e EXCEPT !.left = e.left - 1]
      BY <2>2, <3>1 DEF Tick
    <3>3. e.left - 1 \in 1..TTL
      BY <2>2, <3>1, CacheAssumption DEF Entries
    <3> QED
      BY <2>2, <3>1, <3>2, <3>3 DEF Entries
  <2> QED
    BY <2>1, <2>2
<1>2. entry' \in [Frames -> Entries \cup {None}]
  BY <1>1 DEF Tick
<1>3. EntriesAnswer'
  BY <1>1 DEF IInv, EntriesAnswer
<1>4. left' \in 0..TTL + 1
  BY CacheAssumption DEF IInv, Tick
<1>5. PICK n \in 0..Len(index) :
         /\ \A i \in DOMAIN index : i <= n <=> index[i].age = TTL
         /\ index' = IF left' = 0 THEN <<>> ELSE Aged(n)
  BY DEF Tick
<1>6. Sorted(index')
  <2>1. Sorted(<<>>)
    <3>1. <<>> \in Seq(Scored) /\ DOMAIN <<>> = {}
      OBVIOUS
    <3> QED
      BY <3>1 DEF Sorted
  <2>2. Sorted(Aged(n))
    BY <1>5, AgedSorted DEF IInv
  <2> QED
    BY <1>5, <2>1, <2>2
<1>7. CallersFit'
  BY DEF IInv, CallersFit, Fits, Tick
<1> QED
  BY <1>2, <1>3, <1>4, <1>5, <1>6, <1>7 DEF IInv, CallersFit

LEMMA IInvHoldsInitially == Init => IInv
<1> SUFFICES ASSUME Init PROVE IInv
  OBVIOUS
<1>1. Sorted(<<>>)
  <2>1. <<>> \in Seq(Scored) /\ DOMAIN <<>> = {}
    OBVIOUS
  <2> QED
    BY <2>1 DEF Sorted
<1>2. entry \in [Frames -> Entries \cup {None}] /\ EntriesAnswer
  BY DEF Init, EntriesAnswer
<1>3. caller \in [Callers -> CallerStates] /\ \A c \in Callers : Fits(caller[c])
  BY IdleFits DEF Init, Fits
<1> QED
  BY <1>1, <1>2, <1>3, CacheAssumption DEF Init, IInv

LEMMA IInvIsInductive == IInv /\ [Next]_vars => IInv'
<1> SUFFICES ASSUME IInv, [Next]_vars PROVE IInv'
  OBVIOUS
<1>1. CASE Tick
  BY <1>1, TickKeepsIInv
<1>2. ASSUME NEW c \in Callers, NEW q \in Requests, Get(c, q.frame, q.context) PROVE IInv'
  BY <1>2, GetKeepsIInv
<1>3. ASSUME NEW c \in Callers, Work(c) PROVE IInv'
  BY <1>3, ScanKeepsIInv, ProbeKeepsIInv, AnswerKeepsIInv, StoreKeepsIInv, AddKeepsIInv,
     ExpireKeepsIInv DEF Work
<1>4. ASSUME NEW c \in Callers, Error(c) PROVE IInv'
  BY <1>4, GetErrorKeepsIInv, IdleKeepsIInv DEF Error, SetError
<1>5. CASE UNCHANGED vars
  BY <1>5 DEF IInv, EntriesAnswer, Sorted, Fits, vars
<1>6. ASSUME NEW c \in Callers, NEW q \in Requests, GetFails(c, q.frame, q.context) PROVE IInv'
  BY <1>6, GetFailsKeepsIInv
<1> QED
  BY <1>1, <1>2, <1>3, <1>4, <1>5, <1>6 DEF Next

THEOREM Invariance == Spec => []IInv
  BY IInvHoldsInitially, IInvIsInductive, PTL DEF Spec

-----------------------------------------------------------------------------
(* The theorems.                                                           *)

(* Every variable keeps its type, and the sorted set its order without     *)
(* repetition, whatever expires between two commands of a store.           *)
THEOREM TypeInvariant == Spec => []TypeOK
  BY Invariance, IInvImplies, PTL

(* A hit is for a frame within the threshold of the one asked for.         *)
THEOREM HitsNear == Spec => []HitsAreNear
  BY Invariance, IInvImplies, PTL

(* A hit of another context comes from overwriting only.                   *)
THEOREM SlipsByOverwriting == Spec => []SlipsOnlyByOverwriting
  BY Invariance, IInvImplies, PTL
=============================================================================
