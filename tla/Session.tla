------------------------------- MODULE Session -------------------------------
(***************************************************************************)
(* The login session of the two browser consoles, src/frontend (v1) and    *)
(* src/src/frontend (v2): the token in the browser's local storage, which  *)
(* all tabs share, the copy each tab's store keeps, the router's guard,    *)
(* the interceptors of the HTTP client, the login page, logging out and    *)
(* the dashboard's timer.  The server knows which tokens have not expired. *)
(***************************************************************************)
EXTENDS Naturals, FiniteSets

CONSTANTS
    Tabs,      \* browser tabs
    Slots,     \* bound: calls of one tab in flight
    MaxTokens  \* bound: tokens the server can issue

ASSUME SessionAssumption == MaxTokens \in Nat

\* Tokens are numbered as they are issued.
None == 0
Tokens == 1..MaxTokens

VARIABLES
    console,   \* which console it is
    storage,   \* the token in local storage
    memory,    \* per tab, the token of the auth store
    tabPage,   \* per tab, the login page or a page behind it: the dashboard,
               \* from which the others differ in that they have no timer
    leaving,   \* per tab, location.href was set and the page is being left
    requests,  \* per tab, the calls in flight
    valid,     \* tokens the server accepts
    issued     \* how many tokens the server has given out

sessionVars ==
    <<console, storage, memory, tabPage, leaving, requests, valid, issued>>

\* The guard reads local storage, and the dashboard loads once.
V1Console == [guard |-> "storage", polls |-> FALSE]

\* The guard reads the store's isAuthenticated, and the dashboard polls.
V2Console == [guard |-> "memory", polls |-> TRUE]

NoCall == [op |-> "none", token |-> None, more |-> FALSE, answer |-> "none"]

\* A call for data: the request interceptor adds the stored token.
Sent(more) ==
    [op |-> "data", token |-> storage, more |-> more, answer |-> "none"]

\* A login; the token is that of its answer, the server asks for none.
SentLogin == [op |-> "login", token |-> None, more |-> FALSE, answer |-> "none"]

Call == [op: {"login", "data"}, token: Tokens \cup {None}, more: BOOLEAN,
         answer: {"none", "ok", "401"}]

SessionTypeOK ==
    /\ console \in {V1Console, V2Console}
    /\ storage \in Tokens \cup {None}
    /\ memory \in [Tabs -> Tokens \cup {None}]
    /\ tabPage \in [Tabs -> {"login", "dashboard"}]
    /\ leaving \in [Tabs -> BOOLEAN]
    /\ requests \in [Tabs -> [Slots -> Call \cup {NoCall}]]
    /\ valid \in SUBSET Tokens
    /\ issued \in 0..MaxTokens

SessionInit ==
    /\ console \in {V1Console, V2Console}
    /\ storage = None
    /\ memory = [t \in Tabs |-> None]
    /\ tabPage = [t \in Tabs |-> "login"]
    /\ leaving = [t \in Tabs |-> FALSE]
    /\ requests = [t \in Tabs |-> [k \in Slots |-> NoCall]]
    /\ valid = {}
    /\ issued = 0

-----------------------------------------------------------------------------
(* What the user and the timer do in a tab. *)

Admitted(t) ==
    IF console.guard = "storage" THEN storage # None ELSE memory[t] # None

\* The router goes to page p, or to the login page.
Visit(t, p) ==
    /\ tabPage[t] # p
    /\ tabPage' = [tabPage EXCEPT ![t] =
                      IF p = "login" \/ Admitted(t) THEN p ELSE "login"]
    /\ UNCHANGED <<console, storage, memory, leaving, requests, valid, issued>>

Send(t, k, call) ==
    /\ requests[t][k] = NoCall
    /\ requests' = [requests EXCEPT ![t][k] = call]
    /\ UNCHANGED <<console, storage, memory, tabPage, leaving, valid, issued>>

\* A page behind the login page fetches or changes something.
Request(t, k) ==
    /\ tabPage[t] # "login"
    /\ Send(t, k, Sent(FALSE))

\* The dashboard's timer: the statistics first, and then their history.
Poll(t) ==
    /\ console.polls
    /\ tabPage[t] = "dashboard"
    /\ \E k \in Slots : Send(t, k, Sent(TRUE))

\* The key event is not guarded by `loading`: a login may be sent twice.
SubmitLogin(t, k) ==
    /\ tabPage[t] = "login"
    /\ Send(t, k, SentLogin)

\* The store forgets the token, here and in local storage.
ClearToken(t) ==
    /\ storage' = None
    /\ memory' = [memory EXCEPT ![t] = None]

Logout(t) ==
    /\ tabPage[t] # "login"
    /\ ClearToken(t)
    /\ tabPage' = [tabPage EXCEPT ![t] = "login"]
    /\ UNCHANGED <<console, leaving, requests, valid, issued>>

\* The browser loads the page: the user asks for it, or location.href was set.
\* The store starts from local storage, and the old page's calls are gone.
LoadPage(t) ==
    /\ memory' = [memory EXCEPT ![t] = storage]
    /\ requests' = [requests EXCEPT ![t] = [k \in Slots |-> NoCall]]
    /\ leaving' = [leaving EXCEPT ![t] = FALSE]
    /\ tabPage' = [tabPage EXCEPT ![t] =
                      IF leaving[t] \/ storage = None THEN "login" ELSE @]
    /\ UNCHANGED <<console, storage, valid, issued>>

-----------------------------------------------------------------------------
(* The server. *)

\* A plausible bug: a token that is no longer valid is forbidden, not
\* unauthorised.
MutatedAuthoriseData(t, k) ==
    LET call == requests[t][k] IN
    /\ call.op = "data" /\ call.answer = "none"
    /\ requests' = [requests EXCEPT ![t][k].answer =
                        IF call.token \in valid THEN "ok" ELSE "403"]
    /\ UNCHANGED <<console, storage, memory, tabPage, leaving, valid, issued>>

\* A data call is served when its token is valid.
AuthoriseData(t, k) ==
    LET call == requests[t][k] IN
    /\ call.op = "data" /\ call.answer = "none"
    /\ requests' = [requests EXCEPT ![t][k].answer =
                        IF call.token \in valid THEN "ok" ELSE "401"]
    /\ UNCHANGED <<console, storage, memory, tabPage, leaving, valid, issued>>

\* The password is right, and a new token is issued.
IssueToken(t, k) ==
    /\ requests[t][k].op = "login" /\ requests[t][k].answer = "none"
    /\ issued < MaxTokens
    /\ issued' = issued + 1
    /\ valid' = valid \cup {issued'}
    /\ requests' = [requests EXCEPT ![t][k].answer = "ok", ![t][k].token = issued']
    /\ UNCHANGED <<console, storage, memory, tabPage, leaving>>

\* The password is wrong.
RefuseLogin(t, k) ==
    /\ requests[t][k].op = "login" /\ requests[t][k].answer = "none"
    /\ requests' = [requests EXCEPT ![t][k].answer = "401"]
    /\ UNCHANGED <<console, storage, memory, tabPage, leaving, valid, issued>>

Expire(token) ==
    /\ token \in valid
    /\ valid' = valid \ {token}
    /\ UNCHANGED <<console, storage, memory, tabPage, leaving, requests, issued>>

-----------------------------------------------------------------------------
(* What an answer does. *)

\* A plausible bug: the interceptor leaves the redirect to the router.
MutatedUnauthorised(t, k) ==
    /\ requests[t][k].answer = "401"
    /\ storage' = None
    /\ requests' = [requests EXCEPT ![t][k] = NoCall]
    /\ UNCHANGED <<console, memory, tabPage, leaving, valid, issued>>

\* The response interceptor on 401, whatever token the call carried.
Unauthorised(t, k) ==
    /\ requests[t][k].answer = "401"
    /\ storage' = None
    /\ leaving' = [leaving EXCEPT ![t] = TRUE]
    /\ requests' = [requests EXCEPT ![t][k] = NoCall]
    /\ UNCHANGED <<console, memory, tabPage, valid, issued>>

\* The dashboard's second call follows the first.
ReceiveData(t, k) ==
    LET call == requests[t][k] IN
    /\ call.op = "data" /\ call.answer = "ok"
    /\ requests' = [requests EXCEPT ![t][k] =
                        IF call.more THEN Sent(FALSE) ELSE NoCall]
    /\ UNCHANGED <<console, storage, memory, tabPage, leaving, valid, issued>>

\* The store keeps the token, here and in local storage.
SetToken(t, token) ==
    /\ storage' = token
    /\ memory' = [memory EXCEPT ![t] = token]

\* The login page hands the token to the store and goes to the dashboard.
ReceiveToken(t, k) ==
    LET call == requests[t][k] IN
    /\ call.op = "login" /\ call.answer = "ok"
    /\ SetToken(t, call.token)
    /\ tabPage' = [tabPage EXCEPT ![t] = "dashboard"]
    /\ requests' = [requests EXCEPT ![t][k] = NoCall]
    /\ UNCHANGED <<console, leaving, valid, issued>>

\* A plausible bug: the interceptor takes every failed call for a refused token.
MutatedLoseRequest(t, k) ==
    /\ requests[t][k] # NoCall
    /\ storage' = None
    /\ leaving' = [leaving EXCEPT ![t] = TRUE]
    /\ requests' = [requests EXCEPT ![t][k] = NoCall]
    /\ UNCHANGED <<console, memory, tabPage, valid, issued>>

\* The network fails, or the client's time limit passes.
LoseRequest(t, k) ==
    /\ requests[t][k] # NoCall
    /\ requests' = [requests EXCEPT ![t][k] = NoCall]
    /\ UNCHANGED <<console, storage, memory, tabPage, leaving, valid, issued>>

Receive(t, k) == Unauthorised(t, k) \/ ReceiveData(t, k) \/ ReceiveToken(t, k)

SessionNext ==
    \/ \E t \in Tabs :
          \/ \E p \in {"login", "dashboard"} : Visit(t, p)
          \/ Poll(t)
          \/ Logout(t)
          \/ LoadPage(t)
          \/ \E k \in Slots :
                \/ Request(t, k)
                \/ SubmitLogin(t, k)
                \/ AuthoriseData(t, k)
                \/ IssueToken(t, k)
                \/ RefuseLogin(t, k)
                \/ Receive(t, k)
                \/ LoseRequest(t, k)
    \/ \E token \in Tokens : Expire(token)

-----------------------------------------------------------------------------
(* Fairness: the timer fires, the browser loads the page it was sent to,   *)
(* and the network is not down for ever: a tab whose calls are answered    *)
(* again and again receives an answer.                                     *)

Served(t) ==
    \E k \in Slots :
        \/ AuthoriseData(t, k)
        \/ RefuseLogin(t, k)
        \/ IssueToken(t, k)
Received(t) == \E k \in Slots : Receive(t, k)
Redirected(t) == leaving[t] /\ LoadPage(t)

SessionFairness ==
    \A t \in Tabs :
        /\ WF_sessionVars(Poll(t))
        /\ SF_sessionVars(Served(t))
        /\ SF_sessionVars(Received(t))
        /\ WF_sessionVars(Redirected(t))

SessionSpec == SessionInit /\ [][SessionNext]_sessionVars /\ SessionFairness

-----------------------------------------------------------------------------
(* Properties. *)

LateRefusal ==
    \E t \in Tabs, k \in Slots :
        /\ Unauthorised(t, k)
        /\ requests[t][k].op = "login" \/ requests[t][k].token # storage

\* A token the server still accepts is thrown away by logging out, by a
\* mistyped password in another tab, or by the late refusal of a call that
\* carried another token; never because a call that carried it failed.  The
\* interceptor does not ask which token was refused.
FreshTokenSafe ==
    [][(storage \in valid /\ storage' = None) =>
          ((\E t \in Tabs : Logout(t)) \/ LateRefusal)]_sessionVars

\* A tab of v2 does not show the dashboard for ever on a session that has
\* ended, here or in another tab: the poll is refused and the tab goes to the
\* login page, although the guard looks only at the tab's own copy.
DeadSessionEnds ==
    \A t \in Tabs :
        (console.polls /\ tabPage[t] = "dashboard" /\ storage \notin valid)
            ~> (tabPage[t] # "dashboard" \/ storage \in valid)
=============================================================================
