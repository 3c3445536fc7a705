---------------------------- MODULE TablesProofs ----------------------------
(***************************************************************************)
(* Proofs about Tables, for any rows and any number of calls in flight.    *)
(* What a call does to the loading flag depends on which calls remain when *)
(* one is taken out of the middle, so the lemmas come first that say what  *)
(* RemoveAt, Append and Replaced leave of the calls in flight.             *)
(*                                                                         *)
(* What a page shows at rest depends on all answers that are on the way:   *)
(* the invariant says what it will show after those of the calls that the  *)
(* server has handled, and that this agrees with the server's rows, unless *)
(* a fetch is still to be handled or a removal still to fetch the list.    *)
(***************************************************************************)
EXTENDS Tables, SequenceTheorems, TLAPS

Fetching(flying) == \E i \in DOMAIN flying : flying[i].op = "fetch"

\* Taking out element i moves those behind it up by one.
LEMMA RemoveAtFacts ==
    ASSUME NEW S, NEW s \in Seq(S), NEW i \in 1..Len(s)
    PROVE  /\ RemoveAt(s, i) \in Seq(S)
           /\ Len(RemoveAt(s, i)) = Len(s) - 1
           /\ \A j \in 1..(Len(s) - 1) :
                 RemoveAt(s, i)[j] = IF j < i THEN s[j] ELSE s[j + 1]
<1> DEFINE front == SubSeq(s, 1, i - 1)
           back == SubSeq(s, i + 1, Len(s))
<1>1. Len(s) \in Nat /\ \A j \in 1..Len(s) : s[j] \in S
  BY ElementOfSeq, LenProperties
<1>2. /\ front \in Seq(S) /\ Len(front) = i - 1
      /\ \A j \in 1..(i - 1) : front[j] = s[j]
  <2>1. \A j \in 1..(i - 1) : s[j] \in S
    BY <1>1
  <2>2. /\ front \in Seq(S)
        /\ Len(front) = IF 1 <= i - 1 THEN (i - 1) - 1 + 1 ELSE 0
        /\ \A j \in 1..((i - 1) - 1 + 1) : front[j] = s[1 + j - 1]
    BY <1>1, <2>1, SubSeqProperties
  <2> QED
    BY <1>1, <2>2
<1>3. /\ back \in Seq(S) /\ Len(back) = Len(s) - i
      /\ \A j \in 1..(Len(s) - i) : back[j] = s[i + j]
  <2>1. \A j \in (i + 1)..Len(s) : s[j] \in S
    BY <1>1
  <2>2. /\ back \in Seq(S)
        /\ Len(back) = IF i + 1 <= Len(s) THEN Len(s) - (i + 1) + 1 ELSE 0
        /\ \A j \in 1..(Len(s) - (i + 1) + 1) : back[j] = s[(i + 1) + j - 1]
    BY <1>1, <2>1, SubSeqProperties
  <2> QED
    BY <1>1, <2>2
<1>4. /\ front \o back \in Seq(S)
      /\ Len(front \o back) = Len(front) + Len(back)
      /\ \A j \in 1..(Len(front) + Len(back)) :
            (front \o back)[j] = IF j <= Len(front) THEN front[j]
                                                    ELSE back[j - Len(front)]
  BY <1>2, <1>3, ConcatProperties
<1>5. RemoveAt(s, i) = front \o back
  BY DEF RemoveAt
<1> HIDE DEF front, back
<1>6. Len(front) + Len(back) = Len(s) - 1
  BY <1>1, <1>2, <1>3
<1>7. ASSUME NEW j \in 1..(Len(s) - 1)
      PROVE  (front \o back)[j] = IF j < i THEN s[j] ELSE s[j + 1]
  <2>1. (front \o back)[j] = IF j <= Len(front) THEN front[j] ELSE back[j - Len(front)]
    BY <1>4, <1>6
  <2>2. CASE j < i
    BY <1>1, <1>2, <2>1, <2>2
  <2>3. CASE ~(j < i)
    <3>1. j - (i - 1) \in 1..(Len(s) - i) /\ i + (j - (i - 1)) = j + 1
      BY <1>1, <2>3
    <3>2. (front \o back)[j] = back[j - (i - 1)]
      BY <1>1, <1>2, <2>1, <2>3
    <3> QED
      BY <1>3, <2>3, <3>1, <3>2
  <2> QED
    BY <2>2, <2>3
<1> QED
  BY <1>4, <1>5, <1>6, <1>7

\* Taking out a call that is no fetch leaves the fetches.
LEMMA RemoveAtKeepsFetch ==
    ASSUME NEW s \in Seq(TableCall), NEW i \in DOMAIN s,
           s[i].op # "fetch", Fetching(s)
    PROVE  Fetching(RemoveAt(s, i))
<1>1. Len(s) \in Nat /\ DOMAIN s = 1..Len(s)
  BY LenProperties
<1>2. PICK k \in 1..Len(s) : s[k].op = "fetch"
  BY <1>1 DEF Fetching
<1>3. k # i
  BY <1>2
<1>4. /\ RemoveAt(s, i) \in Seq(TableCall) /\ Len(RemoveAt(s, i)) = Len(s) - 1
      /\ \A j \in 1..(Len(s) - 1) :
            RemoveAt(s, i)[j] = IF j < i THEN s[j] ELSE s[j + 1]
  BY <1>1, RemoveAtFacts
<1>5. DOMAIN RemoveAt(s, i) = 1..(Len(s) - 1)
  BY <1>4, LenProperties
<1>6. CASE k < i
  <2>1. k \in 1..(Len(s) - 1) /\ RemoveAt(s, i)[k] = s[k]
    BY <1>1, <1>4, <1>6
  <2> QED
    BY <1>2, <1>5, <2>1 DEF Fetching
<1>7. CASE k > i
  <2>1. k - 1 \in 1..(Len(s) - 1) /\ ~(k - 1 < i) /\ (k - 1) + 1 = k
    BY <1>1, <1>7
  <2>2. RemoveAt(s, i)[k - 1] = s[k]
    BY <1>4, <2>1
  <2> QED
    BY <1>2, <1>5, <2>1, <2>2 DEF Fetching
<1> QED
  BY <1>1, <1>3, <1>6, <1>7

\* Making the row objects of calls stale changes neither number nor kind.
LEMMA ReplacedFacts ==
    ASSUME NEW s \in Seq(TableCall)
    PROVE  /\ Replaced(s) \in Seq(TableCall)
           /\ Len(Replaced(s)) = Len(s)
           /\ Fetching(s) => Fetching(Replaced(s))
<1>1. Len(s) \in Nat /\ DOMAIN s = 1..Len(s) /\ \A j \in 1..Len(s) : s[j] \in TableCall
  BY ElementOfSeq, LenProperties
<1>2. ASSUME NEW j \in 1..Len(s)
      PROVE  /\ [s[j] EXCEPT !.live = FALSE] \in TableCall
             /\ [s[j] EXCEPT !.live = FALSE].op = s[j].op
  BY <1>1 DEF TableCall
<1>3. Replaced(s) = [j \in 1..Len(s) |-> [s[j] EXCEPT !.live = FALSE]]
  BY <1>1 DEF Replaced
<1>4. Replaced(s) \in [1..Len(s) -> TableCall]
  BY <1>2, <1>3
<1>5. Replaced(s) \in Seq(TableCall) /\ Len(Replaced(s)) = Len(s)
  BY <1>1, <1>4
<1>6. Fetching(s) => Fetching(Replaced(s))
  BY <1>1, <1>2, <1>3 DEF Fetching
<1> QED
  BY <1>5, <1>6

\* A call that joins the others is the last of them.
LEMMA SendFacts ==
    ASSUME NEW flying \in Seq(TableCall), NEW call \in TableCall,
           SendAmong(flying, call)
    PROVE  /\ calls' \in Seq(TableCall) /\ Len(calls') <= MaxCalls
           /\ Fetching(flying) \/ call.op = "fetch" => Fetching(calls')
           /\ inOrder \in BOOLEAN => inOrder' \in BOOLEAN
           /\ alone' \in BOOLEAN
<1>1. calls' = Append(flying, call) /\ Len(flying) < MaxCalls /\ Len(flying) \in Nat
  BY LenProperties DEF SendAmong
<1>2. calls' \in Seq(TableCall) /\ Len(calls') = Len(flying) + 1
  BY <1>1
<1>3. /\ \A j \in 1..Len(flying) : calls'[j] = flying[j]
      /\ calls'[Len(flying) + 1] = call
  BY <1>1
<1>4. DOMAIN calls' = 1..(Len(flying) + 1) /\ DOMAIN flying = 1..Len(flying)
  BY <1>2, LenProperties
<1>5. Fetching(flying) \/ call.op = "fetch" => Fetching(calls')
  <2>1. ASSUME Fetching(flying) PROVE Fetching(calls')
    BY <1>1, <1>3, <1>4, <2>1 DEF Fetching
  <2>2. ASSUME call.op = "fetch" PROVE Fetching(calls')
    BY <1>1, <1>3, <1>4, <2>2 DEF Fetching
  <2> QED
    BY <2>1, <2>2
<1>6. (inOrder \in BOOLEAN => inOrder' \in BOOLEAN) /\ alone' \in BOOLEAN
  BY DEF SendAmong
<1> QED
  BY <1>1, <1>2, <1>5, <1>6, TablesAssumption

\* A new call has the type of a call.
LEMMA NewCallType ==
    ASSUME NEW op \in {"fetch", "switch", "save", "remove", "clear"},
           NEW q \in Queries, NEW r \in Rows \cup {"none"}, NEW status \in Statuses
    PROVE  NewCall(op, q, r, status) \in TableCall
<1>1. Nothing \in [Rows -> Statuses]
  BY DEF Nothing, Statuses
<1> HIDE DEF Nothing
<1> QED
  BY <1>1 DEF NewCall, TableCall

\* A store has a loading flag or has none.
LEMMA SpinnerType ==
    ASSUME NEW t \in Pages
    PROVE  t.store.spinner \in BOOLEAN
<1>1. Keeping.spinner = TRUE /\ Local.spinner = TRUE /\ Spinnerless.spinner = FALSE
  BY DEF Keeping, Local, Spinnerless
<1>2. \A view, store : Page(view, store).store = store
  BY DEF Page
<1>3. t.store \in {Keeping, Local, Spinnerless}
  BY <1>2 DEF Pages, AlertStoreV1, TaskStoreV1, LogStoreV1, TraceStoreV1,
     CameraStoreV1, ModelStoreV1, DashboardStoreV1, AlertStoreV2, CameraStoreV2,
     ModelStoreV2, SceneStoreV2
<1> QED
  BY <1>1, <1>3

\* A fetch joins the others.
LEMMA FetchFacts ==
    ASSUME NEW flying \in Seq(TableCall), NEW q \in Queries, TablesTypeOK,
           FetchAmong(flying, q)
    PROVE  /\ calls' \in Seq(TableCall) /\ Len(calls') <= MaxCalls
           /\ Fetching(calls')
           /\ inOrder' \in BOOLEAN /\ alone' \in BOOLEAN /\ loading' \in BOOLEAN
<1> DEFINE call == NewCall("fetch", q, "none", "absent")
<1>1. call \in TableCall /\ call.op = "fetch"
  BY NewCallType DEF NewCall, Statuses
<1>2. SendAmong(flying, call)
  BY DEF FetchAmong
<1> HIDE DEF call
<1>3. /\ calls' \in Seq(TableCall) /\ Len(calls') <= MaxCalls
      /\ Fetching(calls')
      /\ inOrder' \in BOOLEAN /\ alone' \in BOOLEAN
  BY <1>1, <1>2, SendFacts DEF TablesTypeOK
<1>4. loading' \in BOOLEAN
  <2>1. table.store.spinner \in BOOLEAN
    BY SpinnerType DEF TablesTypeOK
  <2> QED
    BY <2>1 DEF FetchAmong
<1> QED
  BY <1>3, <1>4

\* What is taken out of the calls is a call, and the others are calls.
LEMMA TakenOutFacts ==
    ASSUME TablesTypeOK, NEW i \in DOMAIN calls
    PROVE  /\ calls[i] \in TableCall
           /\ RemoveAt(calls, i) \in Seq(TableCall)
           /\ Len(RemoveAt(calls, i)) <= MaxCalls
           /\ Fetching(calls) /\ calls[i].op # "fetch"
                 => Fetching(RemoveAt(calls, i))
<1>1. calls \in Seq(TableCall) /\ Len(calls) <= MaxCalls /\ Len(calls) \in Nat
  BY LenProperties DEF TablesTypeOK
<1>2. i \in 1..Len(calls)
  BY <1>1, LenProperties
<1>3. RemoveAt(calls, i) \in Seq(TableCall) /\ Len(RemoveAt(calls, i)) = Len(calls) - 1
  BY <1>1, <1>2, RemoveAtFacts
<1>4. calls[i] \in TableCall
  BY <1>1, <1>2, ElementOfSeq
<1>5. Len(RemoveAt(calls, i)) <= MaxCalls
  BY <1>1, <1>3, TablesAssumption
<1>6. Fetching(calls) /\ calls[i].op # "fetch" => Fetching(RemoveAt(calls, i))
  BY <1>1, RemoveAtKeepsFetch
<1> QED
  BY <1>3, <1>4, <1>5, <1>6

\* What a query lists is a status per row.
LEMMA AnswerType ==
    ASSUME NEW q, NEW rows \in [Rows -> Statuses]
    PROVE  Answer(q, rows) \in [Rows -> Statuses]
BY DEF Answer, Statuses

-----------------------------------------------------------------------------

TablesIInv == TablesTypeOK /\ SpinnerHasACall

LEMMA TablesInitIInv == TablesInit => TablesIInv
<1> SUFFICES ASSUME TablesInit PROVE TablesIInv
  OBVIOUS
<1>1. calls \in Seq(TableCall) /\ Len(calls) <= MaxCalls
  BY EmptySeq, TablesAssumption DEF TablesInit
<1>2. inOrder = FALSE /\ alone = FALSE /\ loading = FALSE
  BY DEF TablesInit
<1>3. server \in [Rows -> Statuses] /\ shown \in [Rows -> Statuses] /\ query \in Queries
  BY DEF TablesInit, Statuses, Nothing, Queries
<1>4. TablesTypeOK
  BY <1>1, <1>2, <1>3 DEF TablesInit, TablesTypeOK
<1> QED
  BY <1>2, <1>4 DEF TablesIInv, SpinnerHasACall

\* A fetch is sent: the spinner may turn.
LEMMA FetchStep ==
    ASSUME TablesIInv, NEW flying \in Seq(TableCall), NEW q \in Queries,
           FetchAmong(flying, q), query' \in Queries,
           UNCHANGED <<table, server>>, shown' \in [Rows -> Statuses]
    PROVE  TablesIInv'
<1>1. /\ calls' \in Seq(TableCall) /\ Len(calls') <= MaxCalls
      /\ Fetching(calls')
      /\ inOrder' \in BOOLEAN /\ alone' \in BOOLEAN /\ loading' \in BOOLEAN
  BY FetchFacts DEF TablesIInv
<1>2. TablesTypeOK'
  BY <1>1 DEF TablesIInv, TablesTypeOK
<1> QED
  BY <1>1, <1>2 DEF TablesIInv, SpinnerHasACall, Fetching

\* Some other call is sent.
LEMMA SendStep ==
    ASSUME TablesIInv, NEW call \in TableCall, SendAmong(calls, call),
           UNCHANGED <<table, server, query, shown, loading>>
    PROVE  TablesIInv'
<1>1. calls \in Seq(TableCall) /\ inOrder \in BOOLEAN
  BY DEF TablesIInv, TablesTypeOK
<1>2. /\ calls' \in Seq(TableCall) /\ Len(calls') <= MaxCalls
      /\ Fetching(calls) => Fetching(calls')
      /\ inOrder' \in BOOLEAN /\ alone' \in BOOLEAN
  BY <1>1, SendFacts
<1>3. TablesTypeOK'
  BY <1>2 DEF TablesIInv, TablesTypeOK
<1> QED
  BY <1>2, <1>3 DEF TablesIInv, SpinnerHasACall, Fetching

\* A call that is no fetch, or any call with the flag reset, comes back.
LEMMA TakeStep ==
    ASSUME TablesIInv, NEW i \in DOMAIN calls,
           calls' \in {RemoveAt(calls, i), Replaced(RemoveAt(calls, i))},
           loading' = (loading /\ calls[i].op # "fetch"),
           UNCHANGED <<table, server, query>>,
           shown' \in [Rows -> Statuses],
           inOrder' \in BOOLEAN, alone' \in BOOLEAN
    PROVE  TablesIInv'
<1>1. /\ RemoveAt(calls, i) \in Seq(TableCall)
      /\ Len(RemoveAt(calls, i)) <= MaxCalls
      /\ Fetching(calls) /\ calls[i].op # "fetch" => Fetching(RemoveAt(calls, i))
  BY TakenOutFacts DEF TablesIInv
<1>2. /\ calls' \in Seq(TableCall) /\ Len(calls') <= MaxCalls
      /\ Fetching(calls) /\ calls[i].op # "fetch" => Fetching(calls')
  BY <1>1, ReplacedFacts
<1>3. loading' \in BOOLEAN
  OBVIOUS
<1>4. TablesTypeOK'
  BY <1>2, <1>3 DEF TablesIInv, TablesTypeOK
<1>5. loading' => Fetching(calls')
  BY <1>2 DEF TablesIInv, SpinnerHasACall, Fetching
<1> QED
  BY <1>4, <1>5 DEF TablesIInv, SpinnerHasACall, Fetching

\* The server handles a call.
LEMMA HandleStep ==
    ASSUME TablesIInv, NEW i \in DOMAIN calls, HandleCall(i)
    PROVE  TablesIInv'
<1>1. /\ calls \in Seq(TableCall) /\ Len(calls) <= MaxCalls
      /\ server \in [Rows -> Statuses]
      /\ DOMAIN calls = 1..Len(calls)
  BY LenProperties DEF TablesIInv, TablesTypeOK
<1>2. calls[i] \in TableCall
  BY <1>1, ElementOfSeq
<1>3. server' \in [Rows -> Statuses]
  <2>1. /\ calls[i].op \in {"fetch", "switch", "save", "remove", "clear"}
        /\ calls[i].status \in Statuses
    BY <1>2 DEF TableCall
  <2>2. CASE calls[i].op \in {"switch", "save"} /\ server[calls[i].row] # "absent"
    <3>1. server' = [server EXCEPT ![calls[i].row] = calls[i].status]
      BY <2>2 DEF HandleCall, Effect
    <3> QED
      BY <1>1, <2>1, <3>1
  <2>3. CASE calls[i].op = "remove"
    <3>1. server' = [server EXCEPT ![calls[i].row] =
                        IF table.view.soft /\ @ # "absent" THEN "off" ELSE "absent"]
      BY <2>3 DEF HandleCall, Effect
    <3> QED
      BY <1>1, <3>1 DEF Statuses
  <2>4. CASE calls[i].op = "clear"
    <3>1. server' = Nothing
      BY <2>4 DEF HandleCall, Effect
    <3> QED
      BY <3>1 DEF Nothing, Statuses
  <2>5. CASE /\ ~(calls[i].op \in {"switch", "save"} /\ server[calls[i].row] # "absent")
             /\ calls[i].op # "remove" /\ calls[i].op # "clear"
    <3>1. server' = server
      BY <2>5 DEF HandleCall, Effect
    <3> QED
      BY <1>1, <3>1
  <2> QED
    BY <2>2, <2>3, <2>4, <2>5
<1>4. PICK answer \in [Rows -> Statuses] :
         calls' = [calls EXCEPT ![i].handled = TRUE, ![i].answer = answer]
  <2>1. Answer(calls[i].query, server') \in [Rows -> Statuses]
    BY <1>3, AnswerType
  <2>2. Nothing \in [Rows -> Statuses]
    BY DEF Nothing, Statuses
  <2> QED
    BY <2>1, <2>2 DEF HandleCall
<1>5. PICK call : call = [calls[i] EXCEPT !.handled = TRUE, !.answer = answer]
  OBVIOUS
<1>6. call \in TableCall /\ call.op = calls[i].op
  BY <1>2, <1>5 DEF TableCall
<1>7. calls' = [calls EXCEPT ![i] = call]
  BY <1>1, <1>4, <1>5
<1>8. /\ calls' \in Seq(TableCall) /\ Len(calls') = Len(calls)
      /\ \A j \in 1..Len(calls) : calls'[j] = IF j = i THEN call ELSE calls[j]
  BY <1>1, <1>6, <1>7, ExceptSeq
<1>9. DOMAIN calls' = 1..Len(calls)
  BY <1>8, LenProperties
<1>10. Fetching(calls) => Fetching(calls')
  BY <1>1, <1>6, <1>8, <1>9 DEF Fetching
<1>11. inOrder' \in BOOLEAN
  BY DEF HandleCall, TablesIInv, TablesTypeOK
<1>12. TablesTypeOK'
  BY <1>1, <1>3, <1>8, <1>11 DEF HandleCall, TablesIInv, TablesTypeOK
<1> QED
  BY <1>10, <1>12 DEF HandleCall, TablesIInv, SpinnerHasACall, Fetching

LEMMA TablesStepIInv ==
    ASSUME TablesIInv, [TablesNext]_tablesVars
    PROVE  TablesIInv'
<1>1. /\ calls \in Seq(TableCall) /\ query \in Queries /\ loading \in BOOLEAN
      /\ shown \in [Rows -> Statuses] /\ inOrder \in BOOLEAN /\ alone \in BOOLEAN
  BY DEF TablesIInv, TablesTypeOK
<1>2. CASE UNCHANGED tablesVars
  BY <1>2 DEF tablesVars, TablesIInv, TablesTypeOK, SpinnerHasACall
<1>3. ASSUME NEW q \in Queries, Mount(q) PROVE TablesIInv'
  <2>1. shown' \in [Rows -> Statuses]
    BY <1>1, <1>3 DEF Mount, Nothing, Statuses
  <2> QED
    BY <1>1, <1>3, <2>1, FetchStep DEF Mount
<1>4. ASSUME NEW q \in Queries, ChooseQuery(q) PROVE TablesIInv'
  BY <1>1, <1>4, FetchStep DEF ChooseQuery
<1>5. CASE Refresh
  BY <1>1, <1>5, FetchStep DEF Refresh
<1>6. ASSUME NEW r \in Rows, Toggle(r) PROVE TablesIInv'
  <2>1. NewCall("switch", "all", r, Other(shown[r])) \in TableCall
    BY NewCallType DEF Queries, Other, Statuses
  <2> QED
    BY <1>6, <2>1, SendStep DEF Toggle
<1>7. ASSUME NEW r \in Rows, SaveRow(r) PROVE TablesIInv'
  <2>1. NewCall("save", "all", r, shown[r]) \in TableCall
    BY <1>1, NewCallType DEF Queries
  <2> QED
    BY <1>7, <2>1, SendStep DEF SaveRow
<1>8. ASSUME NEW r \in Rows, RemoveRow(r) PROVE TablesIInv'
  <2>1. NewCall("remove", "all", r, "absent") \in TableCall
    BY NewCallType DEF Queries, Statuses
  <2>2. CASE SendAmong(calls, NewCall("remove", "all", r, "absent")) /\ UNCHANGED loading
    BY <1>8, <2>1, <2>2, SendStep DEF RemoveRow
  <2>3. CASE FetchAmong(calls, query)
    BY <1>1, <1>8, <2>3, FetchStep DEF RemoveRow
  <2> QED
    BY <1>8, <2>2, <2>3 DEF RemoveRow
<1>9. CASE ClearRows
  <2>1. NewCall("clear", "all", "none", "absent") \in TableCall
    BY NewCallType DEF Queries, Statuses
  <2> QED
    BY <1>9, <2>1, SendStep DEF ClearRows
<1>10. ASSUME NEW i \in DOMAIN calls, ArriveList(i) PROVE TablesIInv'
  <2>1. calls[i] \in TableCall
    BY TakenOutFacts DEF TablesIInv
  <2>2. shown' \in [Rows -> Statuses]
    BY <1>10, <2>1 DEF ArriveList, TableCall
  <2> QED
    BY <1>1, <1>10, <2>2, TakeStep DEF ArriveList
<1>11. ASSUME NEW i \in DOMAIN calls, ArriveSwitch(i) PROVE TablesIInv'
  <2>1. calls[i] \in TableCall
    BY TakenOutFacts DEF TablesIInv
  <2>2. shown' \in [Rows -> Statuses]
    <3>1. CASE calls[i].row \in Rows
      <4>1. Switched(calls[i]) \in Statuses
        BY <1>1, <2>1, <3>1 DEF Switched, Other, Statuses, TableCall
      <4> QED
        BY <1>1, <1>11, <4>1 DEF ArriveSwitch
    <3>2. CASE calls[i].row \notin Rows
      BY <1>1, <1>11, <3>2 DEF ArriveSwitch
    <3> QED
      BY <3>1, <3>2
  <2>3. loading' = (loading /\ calls[i].op # "fetch")
    BY <1>1, <1>11 DEF ArriveSwitch
  <2> QED
    BY <1>1, <1>11, <2>2, <2>3, TakeStep DEF ArriveSwitch
<1>12. ASSUME NEW i \in DOMAIN calls, ArrivePatch(i) PROVE TablesIInv'
  <2>1. shown' \in [Rows -> Statuses]
    BY <1>1, <1>12 DEF ArrivePatch, Statuses
  <2>2. loading' = (loading /\ calls[i].op # "fetch")
    BY <1>1, <1>12 DEF ArrivePatch
  <2> QED
    BY <1>1, <1>12, <2>1, <2>2, TakeStep DEF ArrivePatch
<1>13. ASSUME NEW i \in DOMAIN calls, ArriveReload(i) PROVE TablesIInv'
  <2>1. RemoveAt(calls, i) \in Seq(TableCall)
    BY TakenOutFacts DEF TablesIInv
  <2> QED
    BY <1>1, <1>13, <2>1, FetchStep DEF ArriveReload
<1>14. ASSUME NEW i \in DOMAIN calls, FailCall(i) PROVE TablesIInv'
  BY <1>1, <1>14, TakeStep DEF FailCall
<1>15. ASSUME NEW r \in Rows, NEW status \in Statuses, Elsewhere(r, status)
       PROVE  TablesIInv'
  <2>1. server' \in [Rows -> Statuses]
    BY <1>15 DEF Elsewhere, TablesIInv, TablesTypeOK
  <2>2. inOrder' \in BOOLEAN /\ alone' \in BOOLEAN
    BY <1>15 DEF Elsewhere
  <2> QED
    BY <1>15, <2>1, <2>2 DEF Elsewhere, TablesIInv, TablesTypeOK, SpinnerHasACall
<1> QED
  BY <1>2, <1>3, <1>4, <1>5, <1>6, <1>7, <1>8, <1>9, <1>10, <1>11, <1>12, <1>13,
     <1>14, <1>15, HandleStep DEF TablesNext, Settle

\* What the variables of a page hold.
THEOREM TablesTypeCorrect == TablesSpec => []TablesTypeOK
<1>1. TablesIInv /\ [TablesNext]_tablesVars => TablesIInv'
  BY TablesStepIInv
<1>2. TablesIInv => TablesTypeOK
  BY DEF TablesIInv
<1> QED
  BY <1>1, <1>2, TablesInitIInv, PTL DEF TablesSpec

\* The spinner turns only while a fetch is in flight, however answers come
\* back, fail or cross.
THEOREM TablesSpinnerHasACall == TablesSpec => []SpinnerHasACall
<1>1. TablesIInv /\ [TablesNext]_tablesVars => TablesIInv'
  BY TablesStepIInv
<1>2. TablesIInv => SpinnerHasACall
  BY DEF TablesIInv
<1> QED
  BY <1>1, <1>2, TablesInitIInv, PTL DEF TablesSpec

-----------------------------------------------------------------------------
(* What a page shows at rest.                                              *)

\* The calls in flight are those the page makes, on rows.
CallsOfPage(flying) ==
    \A i \in DOMAIN flying :
        /\ flying[i].op = "switch" => table.view.switches # "no" /\ flying[i].row \in Rows
        /\ flying[i].op = "save" =>
              table.view.saves /\ flying[i].row \in Rows /\ flying[i].query = "all"
        /\ flying[i].op = "remove" =>
              table.view.removes \in {"reload", "patch"} /\ flying[i].row \in Rows

\* Only filters and details ask for less than all rows.
AsksForAll == ~table.view.filters /\ ~table.view.details => query = "all"

\* Of calls that never overlapped one is in flight at most.  It has not lost
\* its row object, and a switch asks for the opposite of what is still shown.
OneAtATime ==
    alone =>
        /\ inOrder /\ Len(calls) <= 1
        /\ \A i \in DOMAIN calls :
              /\ calls[i].live
              /\ calls[i].op = "switch" => /\ shown[calls[i].row] # "absent"
                                           /\ calls[i].status = Other(shown[calls[i].row])

\* What RestShowsServer supposes of the past.
Trusted == IF table.view.switches \in {"no", "lookup"} THEN inOrder ELSE alone

\* The server has handled the first h calls.
HandledUpto(flying, h) == \A i \in DOMAIN flying : flying[i].handled <=> i <= h

\* The last fetch in flight asks for the query on display.
LatestAsksForQuery(flying) ==
    \A i \in DOMAIN flying :
        flying[i].op = "fetch" /\ (\A j \in DOMAIN flying : flying[j].op = "fetch" => j <= i)
            => flying[i].query = query

\* The list is still to be read from the server, or will be after a removal.
Reloads(call) ==
    call.op = "clear" \/ (call.op = "remove" /\ table.view.removes = "reload")

Renews(flying) ==
    \E i \in DOMAIN flying :
        (flying[i].op = "fetch" /\ ~flying[i].handled) \/ Reloads(flying[i])

\* What the page shows after the answer to a call, if it shows `rows` before.
Shows(rows, call) ==
    CASE call.op \in {"fetch", "save"} -> call.answer
      [] call.op = "switch" ->
            [rows EXCEPT ![call.row] =
                IF @ = "absent" THEN @
                ELSE IF table.view.switches = "lookup" \/ call.live
                     THEN IF table.view.switches = "flip" THEN Other(@) ELSE call.status
                     ELSE @]
      [] call.op = "remove" -> [rows EXCEPT ![call.row] = "absent"]
      [] OTHER -> rows

Agrees(rows) ==
    \A r \in Rows :
        \/ rows[r] = Answer(query, server)[r]
        \/ table.view.soft /\ rows[r] = "absent" /\ server[r] = "off"

\* rows[n] is what the page will show after the first n answers, from what it
\* shows now or from a list among them; after the last it agrees with the server.
Settles(flying, h, k, rows) ==
    /\ IF k = 0 THEN rows[0] = shown
                ELSE flying[k].op \in {"fetch", "save"} /\ rows[k] = flying[k].answer
    /\ \A n \in (k + 1)..h : rows[n] = Shows(rows[n - 1], flying[n])
    /\ Agrees(rows[h])

WillAgree(flying, h) ==
    \/ Renews(flying)
    \/ \E k \in 0..h : \E rows \in [k..h -> [Rows -> Statuses]] : Settles(flying, h, k, rows)

ComesToAgree ==
    Trusted => /\ LatestAsksForQuery(calls)
               /\ \E h \in 0..Len(calls) : HandledUpto(calls, h) /\ WillAgree(calls, h)

RestIInv == CallsOfPage(calls) /\ AsksForAll /\ OneAtATime /\ ComesToAgree

-----------------------------------------------------------------------------
(* The pages.                                                              *)

\* A page that changes rows lists them all; one that looks up the row of a
\* switch removes none softly.
ViewFacts(v) ==
    /\ v.switches # "no" \/ v.saves \/ v.removes \in {"patch", "reload"} =>
          ~v.filters /\ ~v.details
    /\ v.switches = "lookup" => ~v.soft
    /\ v.switches \in {"no", "captured", "flip", "lookup"}

LEMMA PageFacts ==
    ASSUME NEW t \in Pages
    PROVE  ViewFacts(t.view)
<1>1. \A view, store : Page(view, store).view = view
  BY DEF Page
<1>2. t.view \in {AlertsV1, TasksV1, LogsV1, TracesV1, TraceV1, CamerasV1, ModelsV1,
                  DashboardV1, StatsV1, AlertsV2, ChannelsV2, CamerasV2, ModelsV2,
                  PipelinesV2, DashboardV2, DagV2, RulesV2}
  BY <1>1 DEF Pages
<1>3. /\ Plain.filters = FALSE /\ Plain.details = FALSE /\ Plain.switches = "no"
      /\ Plain.saves = FALSE /\ Plain.removes = "no" /\ Plain.soft = FALSE
  BY DEF Plain
<1>4. /\ Listed.switches = "no" /\ Listed.saves = FALSE /\ Listed.removes = "no"
  BY DEF Listed, Plain
<1>5. ViewFacts(AlertsV1) /\ ViewFacts(TasksV1) /\ ViewFacts(TracesV1)
  BY <1>4 DEF AlertsV1, TasksV1, TracesV1, ViewFacts
<1>6. ViewFacts(LogsV1)
  BY DEF LogsV1, Listed, Plain, ViewFacts
<1>7. ViewFacts(TraceV1) /\ ViewFacts(DagV2)
  BY DEF TraceV1, DagV2, Plain, ViewFacts
<1>8. ViewFacts(CamerasV1) /\ ViewFacts(ModelsV1)
  BY DEF CamerasV1, ModelsV1, Plain, ViewFacts
<1>9. ViewFacts(DashboardV1) /\ ViewFacts(DashboardV2) /\ ViewFacts(StatsV1)
  BY DEF DashboardV1, DashboardV2, StatsV1, Plain, ViewFacts
<1>10. ViewFacts(AlertsV2) /\ ViewFacts(ChannelsV2) /\ ViewFacts(CamerasV2)
  BY DEF AlertsV2, ChannelsV2, CamerasV2, Plain, ViewFacts
<1>11. ViewFacts(ModelsV2) /\ ViewFacts(PipelinesV2) /\ ViewFacts(RulesV2)
  BY DEF ModelsV2, PipelinesV2, RulesV2, Plain, ViewFacts
<1> QED
  BY <1>2, <1>5, <1>6, <1>7, <1>8, <1>9, <1>10, <1>11, Zenon

\* So what changes rows knows that the query is for all of them.
LEMMA QueryIsAll ==
    ASSUME TablesTypeOK, AsksForAll,
           \/ table.view.switches # "no" \/ table.view.saves
           \/ table.view.removes \in {"patch", "reload"}
    PROVE  query = "all"
  BY PageFacts DEF TablesTypeOK, AsksForAll, ViewFacts

\* Under the same table, query and server the same agrees.
LEMMA AgreesStays ==
    ASSUME UNCHANGED <<table, query, server>>
    PROVE  \A rows : Agrees(rows)' <=> Agrees(rows)
  BY DEF Agrees

-----------------------------------------------------------------------------
(* Sending.                                                                *)

\* A call that joins the others is the last of them, and not handled.
LEMMA AppendFacts ==
    ASSUME NEW s \in Seq(TableCall), NEW call \in TableCall
    PROVE  /\ Append(s, call) \in Seq(TableCall) /\ Len(s) \in Nat
           /\ DOMAIN s = 1..Len(s) /\ DOMAIN Append(s, call) = 1..(Len(s) + 1)
           /\ \A j \in 1..Len(s) : Append(s, call)[j] = s[j]
           /\ Append(s, call)[Len(s) + 1] = call
  OBVIOUS

LEMMA AppendHandled ==
    ASSUME NEW s \in Seq(TableCall), NEW call \in TableCall, call.handled = FALSE,
           NEW h \in 0..Len(s), HandledUpto(s, h)
    PROVE  /\ h \in 0..Len(Append(s, call))
           /\ HandledUpto(Append(s, call), h)
<1>1. /\ Len(s) \in Nat /\ DOMAIN s = 1..Len(s)
      /\ DOMAIN Append(s, call) = 1..(Len(s) + 1)
      /\ \A j \in 1..Len(s) : Append(s, call)[j] = s[j]
      /\ Append(s, call)[Len(s) + 1] = call
  BY AppendFacts
<1>2. Len(Append(s, call)) = Len(s) + 1
  OBVIOUS
<1> DEFINE t == Append(s, call)
<1> HIDE DEF t
<1>3. ASSUME NEW i \in DOMAIN t PROVE t[i].handled <=> i <= h
  <2>1. CASE i = Len(s) + 1
    <3>1. ~(i <= h)
      BY <1>1, <2>1
    <3> QED
      BY <1>1, <2>1, <3>1 DEF t
  <2>2. CASE i \in DOMAIN s
    BY <1>1, <2>2 DEF t, HandledUpto
  <2> QED
    BY <1>1, <2>1, <2>2 DEF t
<1>4. HandledUpto(t, h)
  BY <1>3 DEF HandledUpto
<1> QED
  BY <1>1, <1>2, <1>4 DEF t

LEMMA AppendOfPage ==
    ASSUME NEW s \in Seq(TableCall), NEW call \in TableCall, CallsOfPage(s),
           CallsOfPage(<<call>>), UNCHANGED table
    PROVE  CallsOfPage(Append(s, call))'
<1>1. /\ Len(s) \in Nat /\ DOMAIN s = 1..Len(s)
      /\ DOMAIN Append(s, call) = 1..(Len(s) + 1)
      /\ \A j \in 1..Len(s) : Append(s, call)[j] = s[j]
      /\ Append(s, call)[Len(s) + 1] = call
  BY AppendFacts
<1>2. 1 \in DOMAIN <<call>> /\ <<call>>[1] = call
  OBVIOUS
<1> DEFINE t == Append(s, call)
<1> HIDE DEF t
<1>3. \A i \in DOMAIN t : t[i] = call \/ (i \in DOMAIN s /\ t[i] = s[i])
  BY <1>1 DEF t
<1>4. CallsOfPage(t)
  BY <1>2, <1>3 DEF CallsOfPage
<1> QED
  BY <1>4 DEF CallsOfPage, t

\* A fetch renews the list for the query on display.
LEMMA FetchKeepsRest ==
    ASSUME TablesTypeOK, NEW flying \in Seq(TableCall), NEW q \in Queries,
           FetchAmong(flying, q), CallsOfPage(flying), query' = q,
           UNCHANGED <<table, server>>, AsksForAll',
           Trusted => \E h \in 0..Len(flying) : HandledUpto(flying, h)
    PROVE  RestIInv'
<1> DEFINE new == NewCall("fetch", q, "none", "absent")
<1>1. /\ new \in TableCall /\ new.op = "fetch" /\ new.handled = FALSE /\ new.query = q
      /\ new.live = TRUE
  BY NewCallType DEF NewCall, Statuses
<1>2. SendAmong(flying, new)
  BY DEF FetchAmong
<1> HIDE DEF new
<1>3. calls' = Append(flying, new)
  BY <1>2 DEF SendAmong
<1>4. /\ Len(flying) \in Nat /\ DOMAIN flying = 1..Len(flying)
      /\ DOMAIN calls' = 1..(Len(flying) + 1)
      /\ \A j \in 1..Len(flying) : calls'[j] = flying[j]
      /\ calls'[Len(flying) + 1] = new
  BY <1>1, <1>3, AppendFacts
<1>5. CallsOfPage(calls)'
  <2>1. CallsOfPage(<<new>>)
    BY <1>1 DEF CallsOfPage
  <2>2. CallsOfPage(Append(flying, new))'
    BY <1>1, <2>1, AppendOfPage
  <2> QED
    BY <1>3, <2>2 DEF CallsOfPage
<1>6. OneAtATime'
  <2> SUFFICES ASSUME alone'
               PROVE  /\ inOrder' /\ Len(calls') <= 1
                      /\ \A i \in DOMAIN calls' : calls'[i].live /\ calls'[i].op = "fetch"
    BY DEF OneAtATime
  <2>1. flying = <<>> /\ inOrder'
    BY <1>1, <1>2 DEF SendAmong
  <2>2. Len(flying) = 0
    BY <2>1
  <2>3. Len(calls') = 1 /\ DOMAIN calls' = 1..1 /\ calls'[1] = new
    BY <1>1, <1>3, <1>4, <2>2
  <2> QED
    BY <1>1, <2>1, <2>3
<1>7. ComesToAgree'
  <2> SUFFICES ASSUME Trusted'
               PROVE  /\ LatestAsksForQuery(calls)'
                      /\ \E h \in 0..Len(calls') : HandledUpto(calls, h)' /\ Renews(calls)'
    BY DEF ComesToAgree, WillAgree
  <2>1. Trusted \/ flying = <<>>
    BY <1>1, <1>2 DEF Trusted, SendAmong
  <2>2. PICK h \in 0..Len(flying) : HandledUpto(flying, h)
    <3>1. CASE flying = <<>>
      <4>1. HandledUpto(flying, 0) /\ 0 \in 0..Len(flying)
        BY <3>1 DEF HandledUpto
      <4> QED
        BY <4>1
    <3> QED
      BY <2>1, <3>1
  <2>3. h \in 0..Len(calls') /\ HandledUpto(calls', h)
    BY <1>1, <1>3, <2>2, AppendHandled
  <2>4. Renews(calls)'
    BY <1>1, <1>4 DEF Renews
  <2>5. LatestAsksForQuery(calls)'
    <3> SUFFICES ASSUME NEW i \in DOMAIN calls',
                        \A j \in DOMAIN calls' : calls'[j].op = "fetch" => j <= i
                 PROVE  calls'[i].query = query'
      BY DEF LatestAsksForQuery
    <3>1. i = Len(flying) + 1
      BY <1>1, <1>4
    <3> QED
      BY <1>1, <1>4, <3>1
  <2> QED
    BY <2>3, <2>4, <2>5 DEF HandledUpto
<1> QED
  BY <1>5, <1>6, <1>7 DEF RestIInv

\* Another call waits behind those that the server has handled.
LEMMA SendKeepsRest ==
    ASSUME TablesTypeOK, RestIInv, NEW call \in TableCall, SendAmong(calls, call),
           call.op # "fetch", call.handled = FALSE, call.live = TRUE,
           CallsOfPage(<<call>>),
           call.op = "switch" =>
              shown[call.row] # "absent" /\ call.status = Other(shown[call.row]),
           UNCHANGED <<table, server, query, shown>>
    PROVE  RestIInv'
<1>1. calls' = Append(calls, call) /\ calls \in Seq(TableCall)
  BY DEF SendAmong, TablesTypeOK
<1>2. /\ Len(calls) \in Nat /\ DOMAIN calls = 1..Len(calls)
      /\ DOMAIN calls' = 1..(Len(calls) + 1)
      /\ \A j \in 1..Len(calls) : calls'[j] = calls[j]
      /\ calls'[Len(calls) + 1] = call
  BY <1>1, AppendFacts
<1>3. CallsOfPage(calls)' /\ AsksForAll'
  <2>1. PICK s \in Seq(TableCall) : s = calls
    BY <1>1
  <2>2. CallsOfPage(s)
    BY <2>1 DEF RestIInv
  <2>3. CallsOfPage(Append(s, call))'
    BY <2>2, AppendOfPage
  <2> QED
    BY <1>1, <2>1, <2>3 DEF CallsOfPage, RestIInv, AsksForAll
<1>4. OneAtATime'
  <2> SUFFICES ASSUME alone'
               PROVE  /\ inOrder' /\ Len(calls') <= 1
                      /\ \A i \in DOMAIN calls' : calls'[i] = call
    BY DEF OneAtATime, Other
  <2>1. calls = <<>> /\ alone
    BY DEF SendAmong
  <2>2. inOrder'
    BY <2>1 DEF SendAmong, RestIInv, OneAtATime
  <2>3. Len(calls) = 0
    BY <2>1
  <2>4. Len(calls') = 1 /\ DOMAIN calls' = 1..1 /\ calls'[1] = call
    BY <1>1, <1>2, <2>3
  <2> QED
    BY <2>2, <2>4
<1>5. ComesToAgree'
  <2> SUFFICES ASSUME Trusted'
               PROVE  /\ LatestAsksForQuery(calls)'
                      /\ \E h \in 0..Len(calls') :
                            HandledUpto(calls, h)' /\ WillAgree(calls, h)'
    BY DEF ComesToAgree
  <2>1. Trusted
    BY DEF Trusted, SendAmong
  <2>2. LatestAsksForQuery(calls)'
    <3> SUFFICES ASSUME NEW i \in DOMAIN calls', calls'[i].op = "fetch",
                        \A j \in DOMAIN calls' : calls'[j].op = "fetch" => j <= i
                 PROVE  calls'[i].query = query
      BY DEF LatestAsksForQuery
    <3>1. i \in DOMAIN calls /\ calls'[i] = calls[i]
      BY <1>2
    <3>2. \A j \in DOMAIN calls : calls[j].op = "fetch" => j <= i
      BY <1>2
    <3> QED
      BY <2>1, <3>1, <3>2 DEF RestIInv, ComesToAgree, LatestAsksForQuery
  <2>3. PICK h \in 0..Len(calls) : HandledUpto(calls, h) /\ WillAgree(calls, h)
    BY <2>1 DEF RestIInv, ComesToAgree
  <2>4. h \in 0..Len(calls') /\ HandledUpto(calls', h)
    BY <1>1, <2>3, AppendHandled
  <2>5. CASE Renews(calls)
    <3>1. Renews(calls)'
      BY <1>2, <2>5 DEF Renews, Reloads
    <3> QED
      BY <2>2, <2>4, <3>1 DEF WillAgree, HandledUpto
  <2>6. ASSUME NEW k \in 0..h, NEW rows \in [k..h -> [Rows -> Statuses]],
               Settles(calls, h, k, rows)
        PROVE  Settles(calls, h, k, rows)'
    <3>1. k # 0 => calls'[k] = calls[k]
      BY <1>2
    <3>2. \A n \in (k + 1)..h : calls'[n] = calls[n]
      BY <1>2
    <3>3. Agrees(rows[h])'
      BY <2>6, AgreesStays DEF Settles
    <3>4. \A n \in (k + 1)..h : rows[n] = Shows(rows[n - 1], calls'[n])
      BY <2>6, <3>2 DEF Settles
    <3> QED
      BY <2>6, <3>1, <3>3, <3>4 DEF Settles, Shows, Other
  <2> QED
    BY <2>2, <2>3, <2>4, <2>5, <2>6 DEF WillAgree, HandledUpto
<1> QED
  BY <1>3, <1>4, <1>5 DEF RestIInv

-----------------------------------------------------------------------------
(* Answers.                                                                *)

\* The calls that remain when the first is answered are one place further on,
\* and may have lost their row objects.
SameButLive(c, d) ==
    /\ c.op = d.op /\ c.query = d.query /\ c.row = d.row /\ c.status = d.status
    /\ c.handled = d.handled /\ c.answer = d.answer

LEMMA RestFacts ==
    ASSUME NEW s \in Seq(TableCall), NEW i \in DOMAIN s, NEW rest,
           rest \in {RemoveAt(s, i), Replaced(RemoveAt(s, i))}
    PROVE  /\ Len(s) \in Nat \ {0} /\ DOMAIN s = 1..Len(s)
           /\ rest \in Seq(TableCall) /\ Len(rest) = Len(s) - 1
           /\ DOMAIN rest = 1..(Len(s) - 1)
           /\ \A j \in DOMAIN rest : SameButLive(rest[j], IF j < i THEN s[j] ELSE s[j + 1])
<1>1. Len(s) \in Nat \ {0} /\ DOMAIN s = 1..Len(s)
  BY LenProperties
<1> DEFINE t == RemoveAt(s, i)
<1>2. /\ t \in Seq(TableCall) /\ Len(t) = Len(s) - 1
      /\ \A j \in 1..(Len(s) - 1) : t[j] = IF j < i THEN s[j] ELSE s[j + 1]
  BY <1>1, RemoveAtFacts
<1> HIDE DEF t
<1>3. DOMAIN t = 1..(Len(s) - 1)
  BY <1>2, LenProperties
<1>4. rest \in Seq(TableCall) /\ Len(rest) = Len(s) - 1
  BY <1>2, ReplacedFacts DEF t
<1>5. DOMAIN rest = 1..(Len(s) - 1)
  BY <1>4, LenProperties
<1>6. ASSUME NEW j \in DOMAIN rest PROVE SameButLive(rest[j], t[j])
  <2>1. t[j] \in TableCall
    BY <1>2, <1>3, <1>5, ElementOfSeq
  <2>2. rest[j] \in {t[j], [t[j] EXCEPT !.live = FALSE]}
    BY <1>3, <1>5 DEF Replaced, t
  <2> QED
    BY <2>1, <2>2 DEF SameButLive, TableCall
<1> QED
  BY <1>1, <1>2, <1>4, <1>5, <1>6

\* What remains are calls of the page.
LEMMA RestOfPage ==
    ASSUME NEW s \in Seq(TableCall), NEW i \in DOMAIN s, NEW rest,
           rest \in {RemoveAt(s, i), Replaced(RemoveAt(s, i))}, CallsOfPage(s)
    PROVE  CallsOfPage(rest)
<1>1. /\ Len(s) \in Nat \ {0} /\ DOMAIN s = 1..Len(s) /\ DOMAIN rest = 1..(Len(s) - 1)
      /\ \A j \in DOMAIN rest : SameButLive(rest[j], IF j < i THEN s[j] ELSE s[j + 1])
  BY RestFacts
<1>2. ASSUME NEW j \in DOMAIN rest
      PROVE  \E m \in DOMAIN s : SameButLive(rest[j], s[m])
  BY <1>1
<1> QED
  BY <1>2 DEF CallsOfPage, SameButLive

\* Without a handled call the server has handled one less.
LEMMA RestHandled ==
    ASSUME NEW s \in Seq(TableCall), NEW i \in DOMAIN s, NEW rest,
           rest \in {RemoveAt(s, i), Replaced(RemoveAt(s, i))},
           NEW h \in 0..Len(s), HandledUpto(s, h), s[i].handled
    PROVE  h - 1 \in 0..Len(rest) /\ HandledUpto(rest, h - 1)
<1>1. /\ Len(s) \in Nat \ {0} /\ DOMAIN s = 1..Len(s) /\ DOMAIN rest = 1..(Len(s) - 1)
      /\ Len(rest) = Len(s) - 1
      /\ \A j \in DOMAIN rest : SameButLive(rest[j], IF j < i THEN s[j] ELSE s[j + 1])
  BY RestFacts
<1>2. i <= h
  BY DEF HandledUpto
<1>3. ASSUME NEW j \in DOMAIN rest PROVE rest[j].handled <=> j <= h - 1
  <2>1. CASE j < i
    <3>1. j \in DOMAIN s /\ rest[j].handled = s[j].handled
      BY <1>1, <2>1 DEF SameButLive
    <3>2. j <= h /\ j <= h - 1
      BY <1>1, <1>2, <2>1
    <3> QED
      BY <3>1, <3>2 DEF HandledUpto
  <2>2. CASE ~(j < i)
    <3>1. j + 1 \in DOMAIN s /\ rest[j].handled = s[j + 1].handled
      BY <1>1, <2>2 DEF SameButLive
    <3>2. j + 1 <= h <=> j <= h - 1
      BY <1>1
    <3> QED
      BY <3>1, <3>2 DEF HandledUpto
  <2> QED
    BY <2>1, <2>2
<1> QED
  BY <1>1, <1>2, <1>3 DEF HandledUpto

\* A lost row object makes no difference where rows are looked up.
LEMMA ShowsSame ==
    ASSUME NEW c, NEW d, SameButLive(c, d), NEW rows,
           c.op = "switch" => table.view.switches = "lookup"
    PROVE  Shows(rows, c) = Shows(rows, d)
<1>1. CASE c.op = "switch"
  <2>1. table.view.switches = "lookup" /\ table.view.switches # "flip"
    BY <1>1
  <2> QED
    BY <1>1, <2>1 DEF Shows, SameButLive
<1>2. CASE c.op # "switch"
  BY <1>2 DEF Shows, SameButLive
<1> QED
  BY <1>1, <1>2

\* The first answer is what the page shows next: the rest settles as before.
LEMMA FirstSettles ==
    ASSUME TablesTypeOK, Trusted, OneAtATime, CallsOfPage(calls), 1 \in DOMAIN calls,
           NEW rest, rest \in {RemoveAt(calls, 1), Replaced(RemoveAt(calls, 1))},
           NEW h \in 1..Len(calls), WillAgree(calls, h), ~Reloads(calls[1]),
           calls[1].handled,
           NEW next, next = Shows(shown, calls[1])
    PROVE  \/ Renews(rest)
           \/ \E k \in 0..(h - 1) : \E rows \in [k..(h - 1) -> [Rows -> Statuses]] :
                 /\ IF k = 0 THEN rows[0] = next
                             ELSE rest[k].op \in {"fetch", "save"} /\ rows[k] = rest[k].answer
                 /\ \A n \in (k + 1)..(h - 1) : rows[n] = Shows(rows[n - 1], rest[n])
                 /\ Agrees(rows[h - 1])
<1>1. /\ calls \in Seq(TableCall)
      /\ Len(calls) \in Nat \ {0} /\ DOMAIN calls = 1..Len(calls)
      /\ DOMAIN rest = 1..(Len(calls) - 1)
      /\ \A j \in DOMAIN rest : SameButLive(rest[j], calls[j + 1])
  <2>1. calls \in Seq(TableCall)
    BY DEF TablesTypeOK
  <2>2. /\ Len(calls) \in Nat \ {0} /\ DOMAIN calls = 1..Len(calls)
        /\ DOMAIN rest = 1..(Len(calls) - 1)
        /\ \A j \in DOMAIN rest :
              SameButLive(rest[j], IF j < 1 THEN calls[j] ELSE calls[j + 1])
    BY <2>1, RestFacts
  <2> QED
    BY <2>1, <2>2
<1>2. ASSUME Renews(calls) PROVE Renews(rest)
  <2>1. PICK i \in DOMAIN calls :
           (calls[i].op = "fetch" /\ ~calls[i].handled) \/ Reloads(calls[i])
    BY <1>2 DEF Renews
  <2>2. i # 1
    BY <2>1
  <2>3. i - 1 \in DOMAIN rest /\ (i - 1) + 1 = i
    BY <1>1, <2>2
  <2>4. SameButLive(rest[i - 1], calls[i])
    BY <1>1, <2>3
  <2> QED
    BY <2>1, <2>3, <2>4 DEF Renews, Reloads, SameButLive
<1>3. ASSUME NEW m \in 1..(h - 1), NEW before
      PROVE  Shows(before, rest[m]) = Shows(before, calls[m + 1])
  <2>1. m \in DOMAIN rest /\ Len(calls) > 1
    BY <1>1
  <2>2. m + 1 \in DOMAIN calls /\ SameButLive(rest[m], calls[m + 1])
    BY <1>1, <2>1
  <2>3. ~alone
    BY <1>1, <2>1 DEF OneAtATime
  <2>4. table.view.switches \in {"no", "lookup"}
    BY <2>3 DEF Trusted
  <2>5. rest[m].op = "switch" => table.view.switches = "lookup"
    BY <2>2, <2>4 DEF CallsOfPage, SameButLive
  <2> QED
    BY <2>2, <2>5, ShowsSame
<1>4. ASSUME NEW k \in 0..h, NEW rows \in [k..h -> [Rows -> Statuses]],
             Settles(calls, h, k, rows)
      PROVE  \E l \in 0..(h - 1) : \E after \in [l..(h - 1) -> [Rows -> Statuses]] :
                 /\ IF l = 0 THEN after[0] = next
                             ELSE rest[l].op \in {"fetch", "save"} /\ after[l] = rest[l].answer
                 /\ \A n \in (l + 1)..(h - 1) : after[n] = Shows(after[n - 1], rest[n])
                 /\ Agrees(after[h - 1])
  <2> DEFINE l     == IF k = 0 THEN 0 ELSE k - 1
             after == [n \in l..(h - 1) |-> rows[n + 1]]
  <2>1. h \in Nat \ {0} /\ l \in 0..(h - 1) /\ l \in Nat /\ k \in Nat
    BY <1>1
  <2>2. \A n \in l..(h - 1) : n + 1 \in k..h
    BY <2>1
  <2>3. after \in [l..(h - 1) -> [Rows -> Statuses]]
    BY <2>2
  <2>4. \A n \in l..(h - 1) : after[n] = rows[n + 1]
    OBVIOUS
  <2> HIDE DEF after
  <2>5. Agrees(after[h - 1])
    <3>1. after[h - 1] = rows[h]
      BY <2>1, <2>4
    <3> QED
      BY <1>4, <3>1 DEF Settles
  <2>6. ASSUME NEW n \in (l + 1)..(h - 1) PROVE after[n] = Shows(after[n - 1], rest[n])
    <3>1. /\ n + 1 \in (k + 1)..h /\ n \in 1..(h - 1)
          /\ n \in l..(h - 1) /\ n - 1 \in l..(h - 1) /\ (n - 1) + 1 = n /\ (n + 1) - 1 = n
      BY <2>1
    <3>2. after[n] = rows[n + 1] /\ after[n - 1] = rows[n]
      BY <2>4, <3>1
    <3>3. rows[n + 1] = Shows(rows[n], calls[n + 1])
      BY <1>4, <3>1 DEF Settles
    <3>4. Shows(rows[n], rest[n]) = Shows(rows[n], calls[n + 1])
      BY <1>3, <3>1
    <3> QED
      BY <3>2, <3>3, <3>4
  <2>7. CASE l = 0
    <3>1. after[0] = rows[1]
      BY <2>1, <2>4, <2>7
    <3>2. rows[1] = next
      <4>1. CASE k = 0
        <5>1. rows[0] = shown
          BY <1>4, <4>1 DEF Settles
        <5>2. 1 \in (k + 1)..h /\ 1 - 1 = 0
          BY <2>1, <4>1
        <5>3. rows[1] = Shows(rows[0], calls[1])
          BY <1>4, <5>2 DEF Settles
        <5> QED
          BY <5>1, <5>3
      <4>2. CASE k # 0
        <5>1. k = 1
          BY <2>1, <2>7, <4>2
        <5>2. calls[1].op \in {"fetch", "save"} /\ rows[1] = calls[1].answer
          BY <1>4, <5>1 DEF Settles
        <5> QED
          BY <5>2 DEF Shows
      <4> QED
        BY <4>1, <4>2
    <3> QED
      BY <2>1, <2>3, <2>5, <2>6, <2>7, <3>1, <3>2
  <2>8. CASE l # 0
    <3>1. k # 0 /\ l = k - 1 /\ l \in DOMAIN rest /\ l + 1 = k /\ l \in l..(h - 1)
      BY <1>1, <2>1, <2>8
    <3>2. calls[k].op \in {"fetch", "save"} /\ rows[k] = calls[k].answer
      BY <1>4, <3>1 DEF Settles
    <3>3. SameButLive(rest[l], calls[k])
      BY <1>1, <3>1
    <3>4. rest[l].op \in {"fetch", "save"} /\ after[l] = rest[l].answer
      BY <2>4, <3>1, <3>2, <3>3 DEF SameButLive
    <3> HIDE DEF l
    <3> QED
      BY <2>1, <2>3, <2>5, <2>6, <2>8, <3>4
  <2> QED
    BY <2>7, <2>8
<1> QED
  BY <1>2, <1>4 DEF WillAgree

LEMMA TakeKeepsRest ==
    ASSUME TablesTypeOK, RestIInv, NEW i \in DOMAIN calls, calls[i].handled,
           ~Reloads(calls[i]),
           calls' \in {RemoveAt(calls, i), Replaced(RemoveAt(calls, i))},
           inOrder' = (inOrder /\ i = 1), UNCHANGED <<table, server, query, alone>>,
           i = 1 /\ Trusted => shown' = Shows(shown, calls[i])
    PROVE  RestIInv'
<1>1. /\ calls \in Seq(TableCall) /\ CallsOfPage(calls) /\ AsksForAll /\ OneAtATime
      /\ ComesToAgree
  BY DEF TablesTypeOK, RestIInv
<1>2. /\ Len(calls) \in Nat \ {0} /\ DOMAIN calls = 1..Len(calls)
      /\ DOMAIN calls' = 1..(Len(calls) - 1) /\ Len(calls') = Len(calls) - 1
      /\ \A j \in DOMAIN calls' :
            SameButLive(calls'[j], IF j < i THEN calls[j] ELSE calls[j + 1])
  BY <1>1, RestFacts
<1>3. CallsOfPage(calls)' /\ AsksForAll'
  <2>1. CallsOfPage(calls')
    BY <1>1, RestOfPage
  <2> QED
    BY <1>1, <2>1 DEF CallsOfPage, AsksForAll
<1>4. ASSUME alone PROVE i = 1 /\ inOrder /\ Len(calls) = 1
  BY <1>1, <1>2, <1>4 DEF OneAtATime
<1>5. OneAtATime'
  <2> SUFFICES ASSUME alone'
               PROVE  inOrder' /\ Len(calls') <= 1 /\ DOMAIN calls' = {}
    BY DEF OneAtATime
  <2>1. alone /\ i = 1 /\ inOrder /\ Len(calls) = 1
    BY <1>4
  <2>2. Len(calls') = 0 /\ DOMAIN calls' = {} /\ 0 <= 1
    BY <1>2, <2>1
  <2>3. inOrder'
    BY <2>1, Zenon
  <2> QED
    BY <2>2, <2>3
<1>6. ComesToAgree'
  <2> SUFFICES ASSUME Trusted'
               PROVE  /\ LatestAsksForQuery(calls)'
                      /\ \E h \in 0..Len(calls') :
                            HandledUpto(calls, h)' /\ WillAgree(calls, h)'
    BY DEF ComesToAgree
  <2>1. Trusted /\ i = 1
    BY <1>4 DEF Trusted
  <2>2. LatestAsksForQuery(calls)'
    <3> SUFFICES ASSUME NEW m \in DOMAIN calls', calls'[m].op = "fetch",
                        \A j \in DOMAIN calls' : calls'[j].op = "fetch" => j <= m
                 PROVE  calls'[m].query = query
      BY DEF LatestAsksForQuery
    <3>1. m + 1 \in DOMAIN calls /\ SameButLive(calls'[m], calls[m + 1])
      BY <1>2, <2>1
    <3>2. ASSUME NEW j \in DOMAIN calls, calls[j].op = "fetch" PROVE j <= m + 1
      <4>1. CASE j = 1
        BY <1>2, <4>1
      <4>2. CASE j # 1
        <5>1. j - 1 \in DOMAIN calls' /\ (j - 1) + 1 = j /\ ~(j - 1 < i)
          BY <1>2, <2>1, <4>2
        <5>2. calls'[j - 1].op = "fetch"
          BY <1>2, <3>2, <5>1 DEF SameButLive
        <5> QED
          BY <1>2, <5>1, <5>2
      <4> QED
        BY <4>1, <4>2
    <3>3. LatestAsksForQuery(calls)
      BY <1>1, <2>1 DEF ComesToAgree
    <3> QED
      BY <3>1, <3>2, <3>3 DEF LatestAsksForQuery, SameButLive
  <2>3. PICK h \in 0..Len(calls) : HandledUpto(calls, h) /\ WillAgree(calls, h)
    BY <1>1, <2>1 DEF ComesToAgree
  <2>4. h \in 1..Len(calls)
    BY <1>2, <2>1, <2>3 DEF HandledUpto
  <2>5. h - 1 \in 0..Len(calls') /\ HandledUpto(calls', h - 1)
    BY <1>1, <2>3, RestHandled
  <2>6. \/ Renews(calls')
        \/ \E k \in 0..(h - 1) : \E rows \in [k..(h - 1) -> [Rows -> Statuses]] :
              /\ IF k = 0 THEN rows[0] = shown'
                          ELSE calls'[k].op \in {"fetch", "save"} /\ rows[k] = calls'[k].answer
              /\ \A n \in (k + 1)..(h - 1) : rows[n] = Shows(rows[n - 1], calls'[n])
              /\ Agrees(rows[h - 1])
    <3>1. shown' = Shows(shown, calls[1])
      BY <2>1
    <3> QED
      BY <1>1, <2>1, <2>3, <2>4, <3>1, FirstSettles
  <2>7. CASE Renews(calls')
    <3>1. Renews(calls)'
      BY <2>7 DEF Renews, Reloads
    <3> QED
      BY <2>2, <2>5, <3>1 DEF WillAgree, HandledUpto
  <2>8. ASSUME NEW k \in 0..(h - 1), NEW rows \in [k..(h - 1) -> [Rows -> Statuses]],
               IF k = 0 THEN rows[0] = shown'
                        ELSE calls'[k].op \in {"fetch", "save"} /\ rows[k] = calls'[k].answer,
               \A n \in (k + 1)..(h - 1) : rows[n] = Shows(rows[n - 1], calls'[n]),
               Agrees(rows[h - 1])
        PROVE  Settles(calls, h - 1, k, rows)'
    <3>1. Agrees(rows[h - 1])'
      BY <2>8, AgreesStays
    <3> QED
      BY <2>8, <3>1 DEF Settles, Shows, Other
  <2>9. WillAgree(calls, h - 1)'
    BY <2>6, <2>7, <2>8 DEF WillAgree, Renews, Reloads
  <2> QED
    BY <2>2, <2>5, <2>9 DEF HandledUpto
<1> QED
  BY <1>3, <1>5, <1>6 DEF RestIInv

\* After a failure nothing is supposed of the past.
LEMMA FailKeepsRest ==
    ASSUME TablesTypeOK, RestIInv, NEW i \in DOMAIN calls, FailCall(i)
    PROVE  RestIInv'
<1>1. calls \in Seq(TableCall) /\ calls' = RemoveAt(calls, i) /\ CallsOfPage(calls)
  BY DEF TablesTypeOK, FailCall, RestIInv
<1>2. CallsOfPage(calls')
  BY <1>1, RestOfPage
<1>3. CallsOfPage(calls)' /\ AsksForAll'
  BY <1>2 DEF CallsOfPage, AsksForAll, FailCall, RestIInv
<1>4. OneAtATime' /\ ~Trusted'
  BY DEF OneAtATime, Trusted, FailCall
<1> QED
  BY <1>3, <1>4 DEF RestIInv, ComesToAgree

-----------------------------------------------------------------------------
(* What the server has handled.                                            *)

LEMMA ShowsType ==
    ASSUME NEW rows \in [Rows -> Statuses], NEW call \in TableCall
    PROVE  Shows(rows, call) \in [Rows -> Statuses]
<1>1. call.answer \in [Rows -> Statuses] /\ call.status \in Statuses
  BY DEF TableCall
<1>2. CASE call.op = "switch"
  <2> DEFINE f(old) == IF old = "absent" THEN old
                       ELSE IF table.view.switches = "lookup" \/ call.live
                            THEN IF table.view.switches = "flip" THEN Other(old)
                                                                 ELSE call.status
                            ELSE old
  <2>1. \A old \in Statuses : f(old) \in Statuses
    BY <1>1 DEF Other, Statuses
  <2>2. Shows(rows, call) = [rows EXCEPT ![call.row] = f(@)]
    BY <1>2 DEF Shows
  <2> HIDE DEF f
  <2> QED
    BY <2>1, <2>2
<1>3. CASE call.op = "remove"
  <2>1. Shows(rows, call) = [rows EXCEPT ![call.row] = "absent"]
    BY <1>3 DEF Shows
  <2>2. "absent" \in Statuses
    BY DEF Statuses
  <2> QED
    BY <2>1, <2>2
<1>4. CASE call.op \notin {"switch", "remove"}
  BY <1>1, <1>4 DEF Shows
<1> QED
  BY <1>2, <1>3, <1>4

\* Agreement row by row, where all rows are asked for.
LEMMA AgreesByRow ==
    ASSUME query = "all", server \in [Rows -> Statuses], NEW rows
    PROVE  Agrees(rows) <=>
              \A r \in Rows : \/ rows[r] = server[r]
                              \/ table.view.soft /\ rows[r] = "absent" /\ server[r] = "off"
  BY DEF Agrees, Answer

\* A switch that the server makes is shown when it is answered: it is looked
\* up, or its row object is the one on display and it asked for the opposite.
LEMMA SwitchAgrees ==
    ASSUME query = "all", query' = query, table' = table,
           server \in [Rows -> Statuses], server' \in [Rows -> Statuses],
           NEW call, call.op = "switch", call.row \in Rows,
           NEW before \in [Rows -> Statuses], Agrees(before),
           server' = IF server[call.row] # "absent"
                     THEN [server EXCEPT ![call.row] = call.status] ELSE server,
           \/ table.view.switches = "lookup" /\ ~table.view.soft
           \/ before[call.row] # "absent" /\ call.live /\ call.status = Other(before[call.row])
    PROVE  Agrees(Shows(before, call))'
<1>1. \A r \in Rows : \/ before[r] = server[r]
                      \/ table.view.soft /\ before[r] = "absent" /\ server[r] = "off"
  BY AgreesByRow
<1>2. PICK after : after = Shows(before, call)
  OBVIOUS
<1>3. before[call.row] = server[call.row]
  BY <1>1
<1>4. /\ \A r \in Rows \ {call.row} : after[r] = before[r] /\ server'[r] = server[r]
      /\ after[call.row] = server'[call.row]
  <2>1. CASE before[call.row] = "absent"
    <3>1. server' = server
      BY <1>3, <2>1
    <3>2. after = [before EXCEPT ![call.row] = "absent"]
      BY <1>2, <2>1 DEF Shows
    <3> QED
      BY <1>3, <2>1, <3>1, <3>2
  <2>2. CASE before[call.row] # "absent"
    <3>1. server' = [server EXCEPT ![call.row] = call.status]
      BY <1>3, <2>2
    <3>2. after = [before EXCEPT ![call.row] = call.status]
      BY <1>2, <2>2 DEF Shows
    <3> QED
      BY <3>1, <3>2
  <2> QED
    BY <2>1, <2>2
<1>5. \A r \in Rows : \/ after[r] = server'[r]
                      \/ table'.view.soft /\ after[r] = "absent" /\ server'[r] = "off"
  BY <1>1, <1>4
<1>6. Agrees(after)'
  BY <1>5 DEF Agrees, Answer
<1>7. Shows(before, call)' = after
  BY <1>2 DEF Shows, Other
<1> QED
  BY <1>6, <1>7 DEF Agrees

\* A removal that takes the row out of the page agrees with one that takes it
\* out of the server or disables it there.
LEMMA RemoveAgrees ==
    ASSUME query = "all", query' = query, table' = table,
           server \in [Rows -> Statuses], server' \in [Rows -> Statuses],
           NEW call, call.op = "remove", call.row \in Rows,
           NEW before \in [Rows -> Statuses], Agrees(before),
           server' = [server EXCEPT ![call.row] =
                         IF table.view.soft /\ @ # "absent" THEN "off" ELSE "absent"]
    PROVE  Agrees(Shows(before, call))'
<1>1. \A r \in Rows : \/ before[r] = server[r]
                      \/ table.view.soft /\ before[r] = "absent" /\ server[r] = "off"
  BY AgreesByRow
<1>2. PICK after : after = Shows(before, call)
  OBVIOUS
<1>3. after = [before EXCEPT ![call.row] = "absent"]
  BY <1>2 DEF Shows
<1>4. \A r \in Rows : \/ after[r] = server'[r]
                      \/ table'.view.soft /\ after[r] = "absent" /\ server'[r] = "off"
  BY <1>1, <1>3
<1>5. Agrees(after)'
  BY <1>4 DEF Agrees, Answer
<1>6. Shows(before, call)' = after
  BY <1>2 DEF Shows, Other
<1> QED
  BY <1>5, <1>6 DEF Agrees

\* The server handles the calls in the order they were sent: this one is next,
\* and its answer will be shown after those handled before it.
LEMMA HandleKeepsRest ==
    ASSUME TablesTypeOK, TablesTypeOK', RestIInv, NEW i \in DOMAIN calls, HandleCall(i)
    PROVE  RestIInv'
<1>1. /\ calls \in Seq(TableCall) /\ CallsOfPage(calls) /\ AsksForAll /\ OneAtATime
      /\ ComesToAgree
      /\ server \in [Rows -> Statuses] /\ server' \in [Rows -> Statuses]
      /\ shown \in [Rows -> Statuses] /\ query \in Queries
      /\ UNCHANGED <<table, query, shown, alone>>
  BY DEF TablesTypeOK, RestIInv, HandleCall
<1>2. Len(calls) \in Nat /\ DOMAIN calls = 1..Len(calls) /\ calls[i] \in TableCall
  BY <1>1, ElementOfSeq, LenProperties
<1>3. PICK call \in TableCall : call = calls[i]
  BY <1>2
<1>4. PICK answer \in [Rows -> Statuses] :
         /\ answer = IF call.op \in {"fetch", "save"} THEN Answer(call.query, server')
                                                     ELSE Nothing
         /\ calls' = [calls EXCEPT ![i].handled = TRUE, ![i].answer = answer]
  <2>1. Answer(call.query, server') \in [Rows -> Statuses]
    BY <1>1, AnswerType
  <2>2. Nothing \in [Rows -> Statuses]
    BY DEF Nothing, Statuses
  <2> QED
    BY <1>3, <2>1, <2>2 DEF HandleCall
<1>5. PICK new : new = [call EXCEPT !.handled = TRUE, !.answer = answer]
  OBVIOUS
<1>6. /\ new \in TableCall /\ new.op = call.op /\ new.query = call.query
      /\ new.row = call.row /\ new.status = call.status
      /\ new.answer = answer
  BY <1>5 DEF TableCall
<1>7. new.handled = TRUE /\ new.live = call.live
  BY <1>5 DEF TableCall
<1>8. /\ DOMAIN calls' = 1..Len(calls) /\ Len(calls') = Len(calls)
      /\ \A j \in 1..Len(calls) : calls'[j] = IF j = i THEN new ELSE calls[j]
  <2>1. calls' = [calls EXCEPT ![i] = new]
    BY <1>2, <1>3, <1>4, <1>5
  <2>2. /\ calls' \in Seq(TableCall) /\ Len(calls') = Len(calls)
        /\ \A j \in 1..Len(calls) : calls'[j] = IF j = i THEN new ELSE calls[j]
    BY <1>1, <1>2, <1>6, <2>1, ExceptSeq
  <2> QED
    BY <2>2, LenProperties
<1>9. \A j \in DOMAIN calls :
         /\ calls'[j].op = calls[j].op /\ calls'[j].query = calls[j].query
         /\ calls'[j].row = calls[j].row /\ calls'[j].status = calls[j].status
         /\ calls'[j].live = calls[j].live
  BY <1>2, <1>3, <1>6, <1>7, <1>8
<1>10. CallsOfPage(calls)' /\ AsksForAll'
  BY <1>1, <1>2, <1>8, <1>9 DEF CallsOfPage, AsksForAll
<1>11. alone => i = 1 /\ inOrder /\ Len(calls) = 1
  BY <1>1, <1>2 DEF OneAtATime
<1>12. inOrder' = (inOrder /\ \A j \in 1..(i - 1) : calls[j].handled)
  BY DEF HandleCall
<1>13. OneAtATime'
  <2> SUFFICES ASSUME alone'
               PROVE  /\ inOrder' /\ Len(calls') <= 1
                      /\ \A j \in DOMAIN calls' :
                            /\ calls'[j].live
                            /\ calls'[j].op = "switch" =>
                                  /\ shown'[calls'[j].row] # "absent"
                                  /\ calls'[j].status = Other(shown'[calls'[j].row])
    BY DEF OneAtATime, Other
  <2>1. alone
    BY <1>1
  <2>2. \A j \in 1..(i - 1) : FALSE
    BY <1>11, <2>1
  <2>3. inOrder'
    BY <1>11, <1>12, <2>1, <2>2, Zenon
  <2>4. Len(calls') <= 1
    BY <1>8, <1>11, <2>1
  <2>5. \A j \in DOMAIN calls :
            /\ calls[j].live
            /\ calls[j].op = "switch" => /\ shown[calls[j].row] # "absent"
                                         /\ calls[j].status = Other(shown[calls[j].row])
    BY <1>1, <2>1 DEF OneAtATime
  <2> QED
    BY <1>1, <1>2, <1>8, <1>9, <2>3, <2>4, <2>5, Zenon
<1>14. ComesToAgree'
  <2> SUFFICES ASSUME Trusted'
               PROVE  /\ LatestAsksForQuery(calls)'
                      /\ \E h \in 0..Len(calls') :
                            HandledUpto(calls, h)' /\ WillAgree(calls, h)'
    BY DEF ComesToAgree
  <2>1. Trusted /\ \A j \in 1..(i - 1) : calls[j].handled
    <3>1. CASE table.view.switches \in {"no", "lookup"}
      BY <1>1, <1>12, <3>1, Zenon DEF Trusted
    <3>2. CASE table.view.switches \notin {"no", "lookup"}
      <4>1. alone /\ Trusted
        BY <1>1, <3>2, Zenon DEF Trusted
      <4>2. \A j \in 1..(i - 1) : FALSE
        BY <1>11, <4>1
      <4> QED
        BY <4>1, <4>2, Zenon
    <3> QED
      BY <3>1, <3>2
  <2>2. LatestAsksForQuery(calls)
    BY <1>1, <2>1 DEF ComesToAgree
  <2>3. LatestAsksForQuery(calls)'
    BY <1>1, <1>2, <1>8, <1>9, <2>2 DEF LatestAsksForQuery
  <2>4. PICK h \in 0..Len(calls) : HandledUpto(calls, h) /\ WillAgree(calls, h)
    BY <1>1, <2>1 DEF ComesToAgree
  <2>5. h = i - 1 /\ i \in Nat \ {0} /\ i \in 0..Len(calls')
    <3>1. ~(i <= h)
      BY <2>4 DEF HandledUpto, HandleCall
    <3>2. i # 1 => i - 1 <= h
      BY <1>2, <2>1, <2>4 DEF HandledUpto
    <3> QED
      BY <1>2, <1>8, <3>1, <3>2
  <2>6. HandledUpto(calls', i)
    <3> SUFFICES ASSUME NEW j \in DOMAIN calls' PROVE calls'[j].handled <=> j <= i
      BY DEF HandledUpto
    <3>1. CASE j = i
      BY <1>2, <1>7, <1>8, <3>1
    <3>2. CASE j # i
      <4>1. calls'[j] = calls[j] /\ j \in DOMAIN calls
        BY <1>2, <1>8, <3>2
      <4>2. j <= h <=> j <= i
        BY <1>2, <2>5, <3>2, <4>1
      <4> QED
        BY <2>4, <4>1, <4>2 DEF HandledUpto
    <3> QED
      BY <3>1, <3>2
  <2>7. CASE Renews(calls)'
    BY <2>3, <2>5, <2>6, <2>7 DEF WillAgree, HandledUpto
  <2>8. CASE call.op \in {"fetch", "save"} /\ ~Renews(calls)'
    <3>1. call.query = query
      <4>1. CASE call.op = "save"
        <5>1. call.query = "all" /\ table.view.saves
          BY <1>1, <1>3, <4>1 DEF CallsOfPage
        <5>2. query = "all"
          BY <1>1, <5>1, QueryIsAll
        <5> QED
          BY <5>1, <5>2
      <4>2. CASE call.op = "fetch"
        <5>1. ASSUME NEW j \in DOMAIN calls, calls[j].op = "fetch" PROVE j <= i
          <6>1. CASE calls'[j].handled
            BY <1>2, <1>8, <2>6, <5>1, <6>1 DEF HandledUpto
          <6>2. CASE ~calls'[j].handled
            BY <1>2, <1>8, <1>9, <2>8, <5>1, <6>2 DEF Renews
          <6> QED
            BY <6>1, <6>2
        <5> QED
          BY <1>3, <2>2, <4>2, <5>1 DEF LatestAsksForQuery
      <4> QED
        BY <2>8, <4>1, <4>2
    <3>2. answer = Answer(query', server')
      BY <1>1, <1>4, <2>8, <3>1
    <3>3. Agrees(answer)'
      BY <3>2 DEF Agrees
    <3> DEFINE rows == [n \in i..i |-> answer]
    <3>4. rows \in [i..i -> [Rows -> Statuses]] /\ rows[i] = answer /\ i \in 0..i
      BY <2>5
    <3>5. calls'[i] = new
      BY <1>2, <1>8
    <3> HIDE DEF rows
    <3>6. \A n \in (i + 1)..i : rows[n] = Shows(rows[n - 1], calls'[n])
      BY <2>5
    <3>7. Settles(calls, i, i, rows)'
      <4>1. i # 0 /\ calls'[i].op \in {"fetch", "save"} /\ rows[i] = calls'[i].answer
        BY <1>6, <2>5, <2>8, <3>4, <3>5
      <4>2. Agrees(rows[i])'
        BY <3>3, <3>4 DEF Agrees
      <4>3. \A n \in (i + 1)..i : FALSE
        BY <2>5
      <4> QED
        BY <4>1, <4>2, <4>3 DEF Settles
    <3>8. \E k \in 0..i : \E r \in [k..i -> [Rows -> Statuses]] : Settles(calls, i, k, r)'
      BY <3>4, <3>7
    <3>9. WillAgree(calls, i)'
      BY <3>8 DEF WillAgree
    <3> QED
      BY <2>3, <2>5, <2>6, <3>9 DEF HandledUpto
  <2>9. CASE call.op \notin {"fetch", "save"} /\ ~Renews(calls)'
    <3>1. ~Renews(calls)
      <4> SUFFICES ASSUME NEW j \in DOMAIN calls,
                          (calls[j].op = "fetch" /\ ~calls[j].handled) \/ Reloads(calls[j])
                   PROVE  FALSE
        BY DEF Renews
      <4>1. CASE Reloads(calls[j])
        BY <1>1, <1>2, <1>8, <1>9, <2>9, <4>1 DEF Renews, Reloads
      <4>2. CASE calls[j].op = "fetch" /\ ~calls[j].handled
        <5>1. j # i
          BY <1>3, <2>9, <4>2
        <5> QED
          BY <1>2, <1>8, <2>9, <4>2, <5>1 DEF Renews
      <4> QED
        BY <4>1, <4>2
    <3>2. ~Reloads(call)
      BY <1>3, <3>1 DEF Renews
    <3>3. PICK k \in 0..h : \E rows \in [k..h -> [Rows -> Statuses]] :
                               Settles(calls, h, k, rows)
      BY <2>4, <3>1 DEF WillAgree
    <3>4. PICK rows \in [k..h -> [Rows -> Statuses]] : Settles(calls, h, k, rows)
      BY <3>3
    <3>5. PICK before \in [Rows -> Statuses] : before = rows[h] /\ Agrees(before)
      <4>1. h \in k..h
        BY <1>2, <3>3
      <4> QED
        BY <3>4, <4>1 DEF Settles
    <3>6. PICK after : after = Shows(before, new)
      OBVIOUS
    <3>7. after \in [Rows -> Statuses]
      BY <1>6, <3>6, ShowsType
    <3>8. Agrees(Shows(before, new))'
      <4>1. CASE call.op = "switch"
        <5>1. table.view.switches # "no" /\ new.row \in Rows
          BY <1>1, <1>3, <1>6, <4>1 DEF CallsOfPage
        <5>2. query = "all"
          BY <1>1, <5>1, QueryIsAll
        <5>3. server' = IF server[new.row] # "absent"
                        THEN [server EXCEPT ![new.row] = new.status] ELSE server
          BY <1>3, <1>6, <4>1 DEF HandleCall, Effect
        <5>4. CASE table.view.switches = "lookup"
          <6>1. ~table.view.soft
            BY <5>4, PageFacts DEF TablesTypeOK, ViewFacts
          <6> QED
            BY <1>1, <1>6, <3>5, <4>1, <5>1, <5>2, <5>3, <5>4, <6>1, SwitchAgrees
        <5>5. CASE table.view.switches # "lookup"
          <6>1. alone
            BY <2>1, <5>1, <5>5 DEF Trusted
          <6>2. i = 1 /\ Len(calls) = 1 /\ h = 0 /\ k = 0
            BY <1>11, <2>5, <3>3, <6>1
          <6>3. before = shown
            BY <3>4, <3>5, <6>2 DEF Settles
          <6>4. calls[i].live /\ shown[calls[i].row] # "absent"
                /\ calls[i].status = Other(shown[calls[i].row])
            BY <1>1, <1>3, <4>1, <6>1 DEF OneAtATime
          <6>5. new.live
            BY <1>3, <1>7, <6>4, Zenon
          <6>6. before[new.row] # "absent" /\ new.status = Other(before[new.row])
            BY <1>3, <1>6, <6>3, <6>4
          <6> QED
            BY <1>1, <1>6, <3>5, <4>1, <5>1, <5>2, <5>3, <6>5, <6>6, SwitchAgrees
        <5> QED
          BY <5>4, <5>5
      <4>2. CASE call.op = "remove"
        <5>1. table.view.removes = "patch" /\ new.row \in Rows
          BY <1>1, <1>3, <1>6, <3>2, <4>2 DEF CallsOfPage, Reloads
        <5>2. query = "all"
          BY <1>1, <5>1, QueryIsAll
        <5>3. server' = [server EXCEPT ![new.row] =
                            IF table.view.soft /\ @ # "absent" THEN "off" ELSE "absent"]
          BY <1>3, <1>6, <4>2 DEF HandleCall, Effect
        <5> QED
          BY <1>1, <1>6, <3>5, <4>2, <5>1, <5>2, <5>3, RemoveAgrees
      <4> QED
        BY <2>9, <3>2, <4>1, <4>2 DEF Reloads, TableCall
    <3>9. Agrees(after)'
      BY <1>1, <3>6, <3>8 DEF Agrees, Shows, Other
    <3> DEFINE more == [n \in k..i |-> IF n = i THEN after ELSE rows[n]]
    <3>10. more \in [k..i -> [Rows -> Statuses]]
      <4>1. ASSUME NEW n \in k..i, n # i PROVE n \in k..h
        BY <2>5, <3>3, <4>1
      <4> QED
        BY <3>7, <4>1
    <3>11. \A n \in k..i : more[n] = IF n = i THEN after ELSE rows[n]
      OBVIOUS
    <3> HIDE DEF more
    <3>12. k \in 0..i /\ i \in k..i /\ h \in k..i /\ h # i /\ k \in Nat /\ h \in Nat
      BY <2>5, <3>3
    <3>13. more[i] = after /\ more[h] = before
      BY <3>5, <3>11, <3>12
    <3>14. IF k = 0 THEN more[0] = shown'
                    ELSE calls'[k].op \in {"fetch", "save"} /\ more[k] = calls'[k].answer
      <4>1. k # i /\ k \in k..i /\ (k # 0 => k \in DOMAIN calls)
        BY <1>2, <2>5, <3>12
      <4>2. more[k] = rows[k]
        BY <3>11, <4>1
      <4>3. k # 0 => calls'[k] = calls[k]
        BY <1>2, <1>8, <4>1
      <4> QED
        BY <1>1, <3>4, <4>2, <4>3 DEF Settles
    <3>15. ASSUME NEW n \in (k + 1)..i PROVE more[n] = Shows(more[n - 1], calls'[n])
      <4>1. CASE n = i
        <5>1. n - 1 = h /\ calls'[n] = new
          BY <1>2, <1>8, <2>5, <4>1
        <5> QED
          BY <3>6, <3>13, <4>1, <5>1
      <4>2. CASE n # i
        <5>1. /\ n \in (k + 1)..h /\ n \in k..i /\ n \in DOMAIN calls
              /\ n - 1 \in k..i /\ n - 1 # i
          BY <1>2, <2>5, <3>12, <4>2
        <5>2. calls'[n] = calls[n]
          BY <1>2, <1>8, <4>2, <5>1
        <5>3. rows[n] = Shows(rows[n - 1], calls[n])
          BY <3>4, <5>1 DEF Settles
        <5> QED
          BY <3>11, <4>2, <5>1, <5>2, <5>3
      <4> QED
        BY <4>1, <4>2
    <3>16. Settles(calls, i, k, more)'
      <4>1. Agrees(more[i])'
        BY <3>9, <3>13 DEF Agrees
      <4> QED
        BY <1>1, <3>14, <3>15, <4>1 DEF Settles, Shows, Other
    <3>17. WillAgree(calls, i)'
      BY <3>10, <3>12, <3>16 DEF WillAgree
    <3> QED
      BY <2>3, <2>5, <2>6, <3>17 DEF HandledUpto
  <2> QED
    BY <2>7, <2>8, <2>9
<1> QED
  BY <1>10, <1>13, <1>14 DEF RestIInv

-----------------------------------------------------------------------------

LEMMA RestInit == TablesInit => RestIInv
<1> SUFFICES ASSUME TablesInit PROVE RestIInv
  OBVIOUS
<1>1. calls = <<>> /\ query = "all" /\ inOrder = FALSE /\ alone = FALSE
  BY DEF TablesInit
<1>2. DOMAIN calls = {}
  BY <1>1
<1> QED
  BY <1>1, <1>2 DEF RestIInv, CallsOfPage, AsksForAll, OneAtATime, ComesToAgree, Trusted

\* Every step keeps what the page will show in line with the server.
LEMMA RestStep ==
    ASSUME TablesTypeOK, TablesTypeOK', RestIInv, [TablesNext]_tablesVars
    PROVE  RestIInv'
<1>1. /\ calls \in Seq(TableCall) /\ shown \in [Rows -> Statuses] /\ query \in Queries
      /\ CallsOfPage(calls) /\ AsksForAll
      /\ Trusted => \E h \in 0..Len(calls) : HandledUpto(calls, h)
  BY DEF TablesTypeOK, RestIInv, ComesToAgree
<1>2. CASE UNCHANGED tablesVars
  <2>1. /\ UNCHANGED <<table, server, query, shown, calls, inOrder, alone>>
    BY <1>2 DEF tablesVars
  <2>2. CallsOfPage(calls)' /\ AsksForAll' /\ OneAtATime'
    BY <2>1 DEF RestIInv, CallsOfPage, AsksForAll, OneAtATime, Other
  <2>3. ASSUME Trusted'
        PROVE  /\ LatestAsksForQuery(calls)'
               /\ \E h \in 0..Len(calls') :
                            HandledUpto(calls, h)' /\ WillAgree(calls, h)'
    <3>1. Trusted
      BY <2>1, <2>3 DEF Trusted
    <3>2. PICK h \in 0..Len(calls) : HandledUpto(calls, h) /\ WillAgree(calls, h)
      BY <3>1 DEF RestIInv, ComesToAgree
    <3>3. WillAgree(calls, h)'
      <4>1. Renews(calls)' <=> Renews(calls)
        BY <2>1 DEF Renews, Reloads
      <4>2. \A k, rows : Settles(calls, h, k, rows)' <=> Settles(calls, h, k, rows)
        BY <2>1 DEF Settles, Agrees, Shows, Other
      <4> QED
        BY <3>2, <4>1, <4>2 DEF WillAgree
    <3>4. LatestAsksForQuery(calls)'
      BY <2>1, <3>1 DEF RestIInv, ComesToAgree, LatestAsksForQuery
    <3> QED
      BY <2>1, <3>2, <3>3, <3>4 DEF HandledUpto
  <2> QED
    BY <2>2, <2>3 DEF RestIInv, ComesToAgree
<1>3. ASSUME NEW q \in Queries, Mount(q) PROVE RestIInv'
  <2>1. AsksForAll'
    BY <1>1, <1>3 DEF Mount, AsksForAll
  <2> QED
    BY <1>1, <1>3, <2>1, FetchKeepsRest DEF Mount
<1>4. ASSUME NEW q \in Queries, ChooseQuery(q) PROVE RestIInv'
  <2>1. AsksForAll'
    BY <1>4 DEF ChooseQuery, AsksForAll
  <2> QED
    BY <1>1, <1>4, <2>1, FetchKeepsRest DEF ChooseQuery
<1>5. ASSUME FetchAmong(calls, query), UNCHANGED <<table, server, query>> PROVE RestIInv'
  <2>1. AsksForAll'
    BY <1>1, <1>5 DEF AsksForAll
  <2> QED
    BY <1>1, <1>5, <2>1, FetchKeepsRest
<1>6. CASE Refresh
  BY <1>5, <1>6 DEF Refresh
<1>7. ASSUME NEW r \in Rows, Toggle(r) PROVE RestIInv'
  <2>1. PICK call \in TableCall : call = NewCall("switch", "all", r, Other(shown[r]))
    BY <1>1, NewCallType DEF Queries, Other, Statuses
  <2>2. /\ call.op = "switch" /\ call.row = r /\ call.status = Other(shown[r])
        /\ call.handled = FALSE
    BY <2>1 DEF NewCall
  <2>3. call.live = TRUE
    BY <2>1 DEF NewCall
  <2>4. CallsOfPage(<<call>>)
    BY <1>7, <2>2 DEF CallsOfPage, Toggle
  <2> QED
    BY <1>7, <2>1, <2>2, <2>3, <2>4, SendKeepsRest DEF Toggle
<1>8. ASSUME NEW r \in Rows, SaveRow(r) PROVE RestIInv'
  <2>1. PICK call \in TableCall : call = NewCall("save", "all", r, shown[r])
    BY <1>1, NewCallType DEF Queries
  <2>2. /\ call.op = "save" /\ call.row = r /\ call.query = "all"
        /\ call.handled = FALSE
    BY <2>1 DEF NewCall
  <2>3. call.live = TRUE
    BY <2>1 DEF NewCall
  <2>4. CallsOfPage(<<call>>)
    BY <1>8, <2>2 DEF CallsOfPage, SaveRow
  <2> QED
    BY <1>8, <2>1, <2>2, <2>3, <2>4, SendKeepsRest DEF SaveRow
<1>9. ASSUME NEW r \in Rows, RemoveRow(r) PROVE RestIInv'
  <2>1. PICK call \in TableCall : call = NewCall("remove", "all", r, "absent")
    BY NewCallType DEF Queries, Statuses
  <2>2. call.op = "remove" /\ call.row = r /\ call.handled = FALSE
    BY <2>1 DEF NewCall
  <2>3. call.live = TRUE
    BY <2>1 DEF NewCall
  <2>4. CASE /\ table.view.removes \in {"reload", "patch"}
             /\ SendAmong(calls, NewCall("remove", "all", r, "absent"))
    <3>1. CallsOfPage(<<call>>)
      BY <2>2, <2>4 DEF CallsOfPage
    <3> QED
      BY <1>9, <2>1, <2>2, <2>3, <2>4, <3>1, SendKeepsRest DEF RemoveRow
  <2>5. CASE FetchAmong(calls, query)
    BY <1>5, <1>9, <2>5 DEF RemoveRow
  <2> QED
    BY <1>9, <2>4, <2>5 DEF RemoveRow
<1>10. CASE ClearRows
  <2>1. PICK call \in TableCall : call = NewCall("clear", "all", "none", "absent")
    BY NewCallType DEF Queries, Statuses
  <2>2. call.op = "clear" /\ call.handled = FALSE
    BY <2>1 DEF NewCall
  <2>3. call.live = TRUE
    BY <2>1 DEF NewCall
  <2>4. CallsOfPage(<<call>>)
    BY <2>2 DEF CallsOfPage
  <2> QED
    BY <1>10, <2>1, <2>2, <2>3, <2>4, SendKeepsRest DEF ClearRows
<1>11. ASSUME NEW i \in DOMAIN calls, ArriveList(i) PROVE RestIInv'
  <2>1. ~Reloads(calls[i])
    BY <1>11 DEF ArriveList, Reloads
  <2>2. shown' = Shows(shown, calls[i])
    BY <1>11 DEF ArriveList, Shows
  <2> QED
    BY <1>11, <2>1, <2>2, TakeKeepsRest DEF ArriveList
<1>12. ASSUME NEW i \in DOMAIN calls, ArriveSwitch(i) PROVE RestIInv'
  <2>1. ~Reloads(calls[i])
    BY <1>12 DEF ArriveSwitch, Reloads
  <2>2. calls[i].row \in Rows /\ table.view.switches # "no"
    BY <1>1, <1>12 DEF ArriveSwitch, CallsOfPage
  <2>3. table.view.switches \in {"captured", "flip", "lookup"}
    BY <2>2, PageFacts DEF TablesTypeOK, ViewFacts
  <2>4. shown' = Shows(shown, calls[i])
    BY <1>1, <1>12, <2>2, <2>3 DEF ArriveSwitch, Shows, Switched
  <2> QED
    BY <1>12, <2>1, <2>4, TakeKeepsRest DEF ArriveSwitch
<1>13. ASSUME NEW i \in DOMAIN calls, ArrivePatch(i) PROVE RestIInv'
  <2>1. ~Reloads(calls[i])
    BY <1>13 DEF ArrivePatch, Reloads
  <2>2. shown' = Shows(shown, calls[i])
    BY <1>13 DEF ArrivePatch, Shows
  <2> QED
    BY <1>13, <2>1, <2>2, TakeKeepsRest DEF ArrivePatch
<1>14. ASSUME NEW i \in DOMAIN calls, ArriveReload(i) PROVE RestIInv'
  <2>1. PICK rest \in Seq(TableCall) : rest = RemoveAt(calls, i)
    BY TakenOutFacts
  <2>2. CallsOfPage(rest)
    BY <1>1, <2>1, RestOfPage
  <2>3. Trusted => \E h \in 0..Len(rest) : HandledUpto(rest, h)
    <3> SUFFICES ASSUME Trusted PROVE \E h \in 0..Len(rest) : HandledUpto(rest, h)
      OBVIOUS
    <3>1. PICK h \in 0..Len(calls) : HandledUpto(calls, h)
      BY <1>1
    <3>2. h - 1 \in 0..Len(rest) /\ HandledUpto(rest, h - 1)
      BY <1>1, <1>14, <2>1, <3>1, RestHandled DEF ArriveReload
    <3> QED
      BY <3>2
  <2>4. AsksForAll'
    BY <1>1, <1>14 DEF ArriveReload, AsksForAll
  <2> QED
    BY <1>1, <1>14, <2>1, <2>2, <2>3, <2>4, FetchKeepsRest DEF ArriveReload
<1>15. ASSUME NEW r \in Rows, NEW status \in Statuses, Elsewhere(r, status)
       PROVE  RestIInv'
  <2>1. CallsOfPage(calls)' /\ AsksForAll'
    BY <1>1, <1>15 DEF Elsewhere, CallsOfPage, AsksForAll
  <2>2. OneAtATime' /\ ~Trusted'
    BY <1>15 DEF Elsewhere, OneAtATime, Trusted
  <2> QED
    BY <2>1, <2>2 DEF RestIInv, ComesToAgree
<1> QED
  BY <1>2, <1>3, <1>4, <1>6, <1>7, <1>8, <1>9, <1>10, <1>11, <1>12, <1>13, <1>14, <1>15,
     HandleKeepsRest, FailKeepsRest DEF TablesNext, Settle

\* At rest no answer is to come: what the page will show is what it shows.
LEMMA RestShown ==
    ASSUME TablesTypeOK, RestIInv
    PROVE  RestShowsServer
<1> SUFFICES ASSUME calls = <<>>, Trusted PROVE Agrees(shown)
  BY DEF RestShowsServer, Trusted, Agrees
<1>1. Len(calls) = 0 /\ DOMAIN calls = {}
  OBVIOUS
<1>2. PICK h \in 0..0 : WillAgree(calls, h)
  BY <1>1 DEF RestIInv, ComesToAgree
<1>3. h = 0 /\ ~Renews(calls)
  BY <1>1, <1>2 DEF Renews
<1>4. PICK k \in 0..0 : \E rows \in [k..0 -> [Rows -> Statuses]] : Settles(calls, 0, k, rows)
  BY <1>2, <1>3 DEF WillAgree
<1>5. k = 0
  OBVIOUS
<1> QED
  BY <1>4, <1>5 DEF Settles

\* At rest a page shows what the server has, for any rows, however many calls
\* were under way, when they were handled and answered in order and, where the
\* clicked row object is updated, one at a time.
THEOREM TablesRestShowsServer == TablesSpec => []RestShowsServer
<1> DEFINE IInv == TablesIInv /\ RestIInv
<1>1. TablesInit => IInv
  BY TablesInitIInv, RestInit
<1>2. IInv /\ [TablesNext]_tablesVars => IInv'
  BY TablesStepIInv, RestStep DEF TablesIInv
<1>3. IInv => RestShowsServer
  BY RestShown DEF TablesIInv
<1> QED
  BY <1>1, <1>2, <1>3, PTL DEF TablesSpec

=============================================================================
