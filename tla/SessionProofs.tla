--------------------------- MODULE SessionProofs ---------------------------
(***************************************************************************)
(* Proofs about Session, for any tabs, calls in flight and tokens.  The    *)
(* inductive invariant is type correctness together with what the calls in *)
(* flight know: a token that was refused is never accepted again, because  *)
(* tokens are issued once and in order.                                    *)
(***************************************************************************)
EXTENDS Session, TLAPS

CallConsistent(call) ==
    /\ call.token <= issued
    /\ call.op = "data" /\ call.answer = "401" => call.token \notin valid
    /\ call.op = "login" /\ call.answer = "ok" => call.token \in Tokens

CallsConsistent == \A t \in Tabs, k \in Slots : CallConsistent(requests[t][k])

TokensConsistent == storage <= issued /\ \A token \in valid : token <= issued

SessionIInv == SessionTypeOK /\ CallsConsistent /\ TokensConsistent

Flying == [Tabs -> [Slots -> Call \cup {NoCall}]]

(* Changing one call leaves the others.                                    *)
LEMMA PutCall ==
    ASSUME requests \in Flying, NEW t \in Tabs, NEW k \in Slots,
           NEW call \in Call \cup {NoCall},
           requests' = [requests EXCEPT ![t][k] = call]
    PROVE  /\ requests' \in Flying
           /\ \A u \in Tabs, j \in Slots :
                 requests'[u][j] = IF u = t /\ j = k THEN call ELSE requests[u][j]
BY DEF Flying

LEMMA AnswerCall ==
    ASSUME requests \in Flying, NEW t \in Tabs, NEW k \in Slots,
           requests[t][k] \in Call, NEW answer \in {"none", "ok", "401"},
           requests' = [requests EXCEPT ![t][k].answer = answer]
    PROVE  /\ requests' \in Flying
           /\ \A u \in Tabs, j \in Slots :
                 u # t \/ j # k => requests'[u][j] = requests[u][j]
           /\ requests'[t][k].op = requests[t][k].op
           /\ requests'[t][k].token = requests[t][k].token
           /\ requests'[t][k].answer = answer
<1>1. requests' = [requests EXCEPT ![t][k] = [requests[t][k] EXCEPT !.answer = answer]]
  BY DEF Flying
<1>2. PICK call \in Call : call = [requests[t][k] EXCEPT !.answer = answer]
  BY DEF Call
<1>3. /\ requests' \in Flying
      /\ \A u \in Tabs, j \in Slots :
            requests'[u][j] = IF u = t /\ j = k THEN call ELSE requests[u][j]
  <2>1. call \in Call \cup {NoCall} /\ requests' = [requests EXCEPT ![t][k] = call]
    BY <1>1, <1>2
  <2> QED
    BY <2>1 DEF Flying
<1>4. requests'[t][k] = [requests[t][k] EXCEPT !.answer = answer]
  BY <1>2, <1>3
<1>5. /\ requests'[t][k].op = requests[t][k].op
      /\ requests'[t][k].token = requests[t][k].token
      /\ requests'[t][k].answer = answer
  BY <1>4 DEF Call
<1> QED
  BY <1>3, <1>5

(* A change that takes no token back keeps the calls consistent.           *)
LEMMA OneCallChanges ==
    ASSUME SessionTypeOK, CallsConsistent, NEW t \in Tabs, NEW k \in Slots,
           requests' \in Flying,
           \A u \in Tabs, j \in Slots :
              u # t \/ j # k => requests'[u][j] = requests[u][j],
           UNCHANGED <<valid, issued>>,
           CallConsistent(requests[t][k])'
    PROVE  CallsConsistent'
BY DEF CallsConsistent, CallConsistent

LEMMA SessionInitIInv == SessionInit => SessionIInv
<1> SUFFICES ASSUME SessionInit PROVE SessionIInv
  OBVIOUS
<1>1. SessionTypeOK
  BY SessionAssumption DEF SessionInit, SessionTypeOK, None, Tokens
<1>2. CallsConsistent
  BY DEF SessionInit, CallsConsistent, CallConsistent, NoCall, None
<1>3. TokensConsistent
  BY DEF SessionInit, TokensConsistent, None
<1> QED
  BY <1>1, <1>2, <1>3 DEF SessionIInv

-----------------------------------------------------------------------------
(* The invariant is inductive: one lemma for each group of actions.        *)

\* Going to a page, logging out and a new page send and change no call.
LEMMA TabSteps ==
    ASSUME SessionIInv, NEW t \in Tabs,
           \/ \E p \in {"login", "dashboard"} : Visit(t, p)
           \/ Logout(t)
           \/ LoadPage(t)
    PROVE  SessionIInv'
<1> USE DEF SessionIInv
<1>1. CASE \E p \in {"login", "dashboard"} : Visit(t, p)
  <2>1. SessionTypeOK'
    BY <1>1 DEF Visit, SessionTypeOK
  <2> QED
    BY <1>1, <2>1 DEF Visit, CallsConsistent, CallConsistent, TokensConsistent
<1>2. CASE Logout(t)
  <2>1. SessionTypeOK'
    BY <1>2 DEF Logout, ClearToken, SessionTypeOK
  <2>2. TokensConsistent'
    BY <1>2 DEF Logout, ClearToken, TokensConsistent, None, SessionTypeOK
  <2> QED
    BY <1>2, <2>1, <2>2 DEF Logout, CallsConsistent, CallConsistent
<1>3. CASE LoadPage(t)
  <2>1. [k \in Slots |-> NoCall] \in [Slots -> Call \cup {NoCall}]
    OBVIOUS
  <2>2. SessionTypeOK'
    BY <1>3, <2>1 DEF LoadPage, SessionTypeOK
  <2>3. CallConsistent(NoCall)
    BY DEF CallConsistent, NoCall, None, SessionTypeOK
  <2>4. \A u \in Tabs, k \in Slots :
           requests'[u][k] = NoCall \/ requests'[u][k] = requests[u][k]
    BY <1>3 DEF LoadPage, SessionTypeOK
  <2>5. CallsConsistent'
    BY <1>3, <2>3, <2>4 DEF LoadPage, CallsConsistent, CallConsistent
  <2>6. TokensConsistent'
    BY <1>3 DEF LoadPage, TokensConsistent
  <2> QED
    BY <2>2, <2>5, <2>6
<1> QED
  BY <1>1, <1>2, <1>3

LEMMA SendStep ==
    ASSUME SessionIInv, NEW t \in Tabs, NEW k \in Slots,
           NEW call \in Call, Send(t, k, call), CallConsistent(call)
    PROVE  SessionIInv'
<1> USE DEF SessionIInv
<1>1. requests' = [requests EXCEPT ![t][k] = call]
  BY DEF Send
<1>2. /\ requests' \in Flying
      /\ \A u \in Tabs, j \in Slots :
            requests'[u][j] = IF u = t /\ j = k THEN call ELSE requests[u][j]
  BY <1>1, PutCall DEF SessionTypeOK, Flying
<1>3. SessionTypeOK'
  BY <1>2 DEF Send, SessionTypeOK, Flying
<1>4. CallsConsistent' /\ TokensConsistent'
  BY <1>2 DEF Send, CallsConsistent, CallConsistent, TokensConsistent
<1> QED
  BY <1>3, <1>4

LEMMA SentTypes ==
    ASSUME SessionIInv
    PROVE  /\ \A more \in BOOLEAN : Sent(more) \in Call /\ CallConsistent(Sent(more))
           /\ SentLogin \in Call /\ CallConsistent(SentLogin)
<1>1. storage \in Tokens \cup {None} /\ storage <= issued /\ issued \in Nat
  BY DEF SessionIInv, SessionTypeOK, TokensConsistent
<1>2. \A more \in BOOLEAN : Sent(more) \in Call /\ CallConsistent(Sent(more))
  BY <1>1 DEF Sent, Call, CallConsistent
<1>3. SentLogin \in Call /\ CallConsistent(SentLogin)
  BY <1>1 DEF SentLogin, Call, CallConsistent, None
<1> QED
  BY <1>2, <1>3

LEMMA ServerSteps ==
    ASSUME SessionIInv, NEW t \in Tabs, NEW k \in Slots,
           AuthoriseData(t, k) \/ IssueToken(t, k) \/ RefuseLogin(t, k)
    PROVE  SessionIInv'
<1> USE DEF SessionIInv
<1>1. requests \in Flying /\ requests[t][k] \in Call
  BY DEF SessionTypeOK, Flying, AuthoriseData, IssueToken, RefuseLogin, NoCall
<1>2. CASE AuthoriseData(t, k) \/ RefuseLogin(t, k)
  <2>1. PICK answer \in {"ok", "401"} :
           /\ requests' = [requests EXCEPT ![t][k].answer = answer]
           /\ requests[t][k].op = "data" /\ answer = "401"
                 => requests[t][k].token \notin valid
           /\ requests[t][k].op = "login" => answer = "401"
    <3>1. CASE AuthoriseData(t, k) /\ requests[t][k].token \in valid
      BY <3>1 DEF AuthoriseData
    <3>2. CASE AuthoriseData(t, k) /\ requests[t][k].token \notin valid
      BY <3>2 DEF AuthoriseData
    <3>3. CASE RefuseLogin(t, k)
      BY <3>3 DEF RefuseLogin
    <3> QED
      BY <1>2, <3>1, <3>2, <3>3
  <2>2. /\ requests' \in Flying
        /\ \A u \in Tabs, j \in Slots :
              u # t \/ j # k => requests'[u][j] = requests[u][j]
        /\ requests'[t][k].op = requests[t][k].op
        /\ requests'[t][k].token = requests[t][k].token
        /\ requests'[t][k].answer = answer
    <3>1. answer \in {"none", "ok", "401"}
      OBVIOUS
    <3>2. requests' = [requests EXCEPT ![t][k].answer = answer]
      BY <2>1
    <3> QED
      BY <1>1, <3>1, <3>2, AnswerCall
  <2>3. UNCHANGED <<console, storage, memory, tabPage, leaving, valid, issued>>
    BY <1>2 DEF AuthoriseData, RefuseLogin
  <2>4. SessionTypeOK'
    BY <2>2, <2>3 DEF SessionTypeOK, Flying
  <2>5. CallConsistent(requests[t][k])'
    BY <2>1, <2>2, <2>3 DEF CallsConsistent, CallConsistent
  <2>6. CallsConsistent'
    BY <2>2, <2>3, <2>5, OneCallChanges
  <2> QED
    BY <2>3, <2>4, <2>6 DEF TokensConsistent
<1>3. CASE IssueToken(t, k)
  <2>1. issued + 1 \in Tokens /\ issued' = issued + 1 /\ issued \in Nat
    BY <1>3, SessionAssumption DEF IssueToken, SessionTypeOK, Tokens
  <2>2. PICK call \in Call :
           call = [requests[t][k] EXCEPT !.answer = "ok", !.token = issued + 1]
    BY <1>1, <2>1 DEF Call
  <2>3. requests' = [requests EXCEPT ![t][k] = call]
    BY <1>1, <1>3, <2>2 DEF IssueToken, Flying
  <2>4. call.op = "login" /\ call.token = issued + 1
    BY <1>1, <1>3, <2>2 DEF IssueToken, Call
  <2>5. /\ requests' \in Flying
        /\ \A u \in Tabs, j \in Slots :
              requests'[u][j] = IF u = t /\ j = k THEN call ELSE requests[u][j]
    <3>1. call \in Call \cup {NoCall}
      BY <2>2
    <3> QED
      BY <1>1, <2>3, <3>1, PutCall
  <2>6. valid' = valid \cup {issued + 1}
    BY <1>3, <2>1 DEF IssueToken
  <2>7. UNCHANGED <<console, storage, memory, tabPage, leaving>>
    BY <1>3 DEF IssueToken
  <2>8. SessionTypeOK'
    <3>1. valid' \in SUBSET Tokens /\ issued' \in 0..MaxTokens
      BY <2>1, <2>6 DEF SessionTypeOK, Tokens
    <3> QED
      BY <2>5, <2>7, <3>1 DEF SessionTypeOK, Flying
  <2>9. ASSUME NEW u \in Tabs, NEW j \in Slots
        PROVE  CallConsistent(requests[u][j])'
    <3>1. CASE u = t /\ j = k
      BY <2>1, <2>5, <2>4, <3>1 DEF CallConsistent
    <3>2. CASE ~(u = t /\ j = k)
      <4>1. requests'[u][j] = requests[u][j] /\ CallConsistent(requests[u][j])
        BY <2>5, <3>2 DEF CallsConsistent
      <4>2. requests[u][j].token \in Nat
        BY <1>1 DEF Flying, Call, NoCall, Tokens, None
      <4> QED
        BY <2>1, <2>6, <4>1, <4>2 DEF CallConsistent
    <3> QED
      BY <3>1, <3>2
  <2>10. TokensConsistent'
    BY <1>3, <2>1, <2>6 DEF IssueToken, TokensConsistent, SessionTypeOK, Tokens, None
  <2> QED
    BY <2>8, <2>9, <2>10 DEF CallsConsistent
<1> QED
  BY <1>2, <1>3

LEMMA AnswerSteps ==
    ASSUME SessionIInv, NEW t \in Tabs, NEW k \in Slots,
           Receive(t, k) \/ LoseRequest(t, k)
    PROVE  SessionIInv'
<1> USE DEF SessionIInv
<1>1. requests \in Flying
  BY DEF SessionTypeOK, Flying
<1>2. CallConsistent(NoCall)
  BY DEF CallConsistent, NoCall, None, SessionTypeOK
<1>3. PICK call \in Call \cup {NoCall} :
         requests' = [requests EXCEPT ![t][k] = call] /\ CallConsistent(call)
  <2>1. CASE ReceiveData(t, k)
    <3>1. requests[t][k].more \in BOOLEAN
      BY <1>1, <2>1 DEF ReceiveData, Flying, Call, NoCall
    <3>2. Sent(FALSE) \in Call /\ CallConsistent(Sent(FALSE))
      BY SentTypes
    <3>3. CASE requests[t][k].more
      BY <2>1, <3>2, <3>3 DEF ReceiveData
    <3>4. CASE ~requests[t][k].more
      BY <1>2, <2>1, <3>4 DEF ReceiveData
    <3> QED
      BY <3>3, <3>4
  <2>2. CASE Unauthorised(t, k) \/ ReceiveToken(t, k) \/ LoseRequest(t, k)
    BY <1>2, <2>2 DEF Unauthorised, ReceiveToken, LoseRequest
  <2> QED
    BY <2>1, <2>2 DEF Receive
<1>4. /\ requests' \in Flying
      /\ \A u \in Tabs, j \in Slots :
            requests'[u][j] = IF u = t /\ j = k THEN call ELSE requests[u][j]
  BY <1>1, <1>3, PutCall
<1>5. UNCHANGED <<console, valid, issued>>
  BY DEF Receive, Unauthorised, ReceiveData, ReceiveToken, LoseRequest
<1>6. CallsConsistent'
  BY <1>3, <1>4, <1>5 DEF CallsConsistent, CallConsistent
<1>7. ReceiveToken(t, k) =>
         requests[t][k].token \in Tokens /\ requests[t][k].token <= issued
  BY DEF ReceiveToken, CallsConsistent, CallConsistent
<1>8. /\ storage' \in Tokens \cup {None}
      /\ memory' \in [Tabs -> Tokens \cup {None}]
      /\ tabPage' \in [Tabs -> {"login", "dashboard"}]
      /\ leaving' \in [Tabs -> BOOLEAN]
      /\ storage' <= issued
  <2>1. CASE Unauthorised(t, k)
    BY <2>1 DEF Unauthorised, SessionTypeOK, None
  <2>2. CASE ReceiveToken(t, k)
    BY <1>7, <2>2 DEF ReceiveToken, SetToken, SessionTypeOK
  <2>3. CASE ReceiveData(t, k) \/ LoseRequest(t, k)
    BY <2>3 DEF ReceiveData, LoseRequest, SessionTypeOK, TokensConsistent
  <2> QED
    BY <2>1, <2>2, <2>3 DEF Receive
<1>9. SessionTypeOK'
  BY <1>4, <1>5, <1>8 DEF SessionTypeOK, Flying
<1> QED
  BY <1>5, <1>6, <1>8, <1>9 DEF TokensConsistent

LEMMA SessionStepIInv ==
    ASSUME SessionIInv, [SessionNext]_sessionVars
    PROVE  SessionIInv'
<1>1. CASE UNCHANGED sessionVars
  BY <1>1 DEF sessionVars, SessionIInv, SessionTypeOK, CallsConsistent,
              CallConsistent, TokensConsistent
<1>2. ASSUME NEW t \in Tabs, Poll(t)
      PROVE  SessionIInv'
  <2>1. PICK k \in Slots : Send(t, k, Sent(TRUE))
    BY <1>2 DEF Poll
  <2> QED
    BY <2>1, SentTypes, SendStep
<1>3. ASSUME NEW t \in Tabs, NEW k \in Slots, Request(t, k) \/ SubmitLogin(t, k)
      PROVE  SessionIInv'
  BY <1>3, SentTypes, SendStep DEF Request, SubmitLogin
<1>4. ASSUME NEW token \in Tokens, Expire(token)
      PROVE  SessionIInv'
  <2>1. SessionTypeOK'
    BY <1>4 DEF Expire, SessionIInv, SessionTypeOK
  <2>2. CallsConsistent' /\ TokensConsistent'
    BY <1>4 DEF Expire, SessionIInv, CallsConsistent, CallConsistent, TokensConsistent
  <2> QED
    BY <2>1, <2>2 DEF SessionIInv
<1> QED
  BY <1>1, <1>2, <1>3, <1>4, TabSteps, ServerSteps, AnswerSteps DEF SessionNext

\* What the variables hold.
THEOREM SessionTypeCorrect == SessionSpec => []SessionTypeOK
<1>1. SessionIInv /\ [SessionNext]_sessionVars => SessionIInv'
  BY SessionStepIInv
<1>2. SessionIInv => SessionTypeOK
  BY DEF SessionIInv
<1> QED
  BY <1>1, <1>2, SessionInitIInv, PTL DEF SessionSpec

-----------------------------------------------------------------------------
(* The safety of a fresh token.                                            *)

LEMMA RefusalIsLate ==
    ASSUME SessionIInv, NEW t \in Tabs, NEW k \in Slots, Unauthorised(t, k),
           storage \in valid
    PROVE  LateRefusal
<1>1. requests[t][k] \in Call \cup {NoCall} /\ requests[t][k].answer = "401"
  BY DEF SessionIInv, SessionTypeOK, Unauthorised
<1>2. requests[t][k].op \in {"login", "data"}
  BY <1>1 DEF Call, NoCall
<1>3. requests[t][k].op = "data" => requests[t][k].token # storage
  BY <1>1 DEF SessionIInv, CallsConsistent, CallConsistent
<1> QED
  BY <1>2, <1>3 DEF LateRefusal

LEMMA FreshTokenStep ==
    ASSUME SessionIInv, [SessionNext]_sessionVars,
           storage \in valid, storage' = None
    PROVE  (\E t \in Tabs : Logout(t)) \/ LateRefusal
<1>1. storage # storage'
  BY DEF SessionIInv, SessionTypeOK, Tokens, None
<1>2. ASSUME NEW t \in Tabs, NEW k \in Slots, ReceiveToken(t, k)
      PROVE  FALSE
  <2>1. requests[t][k].token \in Tokens
    BY <1>2 DEF ReceiveToken, SessionIInv, CallsConsistent, CallConsistent
  <2> QED
    BY <1>2, <2>1 DEF ReceiveToken, SetToken, Tokens, None
<1>3. \/ \E t \in Tabs : Logout(t)
      \/ \E t \in Tabs, k \in Slots : Unauthorised(t, k) \/ ReceiveToken(t, k)
  <2>1. ~UNCHANGED sessionVars /\ \A token \in Tokens : ~Expire(token)
    BY <1>1 DEF sessionVars, Expire
  <2>2. ASSUME NEW t \in Tabs
        PROVE  /\ \A p \in {"login", "dashboard"} : ~Visit(t, p)
               /\ ~Poll(t) /\ ~LoadPage(t)
    BY <1>1 DEF Visit, Poll, Send, LoadPage
  <2>3. ASSUME NEW t \in Tabs, NEW k \in Slots
        PROVE  /\ ~Request(t, k) /\ ~SubmitLogin(t, k)
               /\ ~AuthoriseData(t, k) /\ ~IssueToken(t, k) /\ ~RefuseLogin(t, k)
               /\ ~ReceiveData(t, k) /\ ~LoseRequest(t, k)
    BY <1>1 DEF Request, SubmitLogin, Send, AuthoriseData, IssueToken,
                RefuseLogin, ReceiveData, LoseRequest
  <2> QED
    BY <2>1, <2>2, <2>3 DEF SessionNext, Receive
<1> QED
  BY <1>2, <1>3, RefusalIsLate

\* A token that is still accepted is thrown away by logging out or by a
\* refusal that does not concern it, never by a failure.
THEOREM SessionFreshTokenSafe == SessionSpec => FreshTokenSafe
<1>1. SessionIInv /\ [SessionNext]_sessionVars => SessionIInv'
  BY SessionStepIInv
<1>2. SessionIInv /\ [SessionNext]_sessionVars =>
         [(storage \in valid /\ storage' = None) =>
             ((\E t \in Tabs : Logout(t)) \/ LateRefusal)]_sessionVars
  BY FreshTokenStep
<1> QED
  BY <1>1, <1>2, SessionInitIInv, PTL DEF SessionSpec, FreshTokenSafe
=============================================================================
