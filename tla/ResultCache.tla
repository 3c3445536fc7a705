----------------------------- MODULE ResultCache ----------------------------
(***************************************************************************)
(* The result cache (src/src/cache/result_cache.py) of one camera and the  *)
(* coroutines that use it: the verify handler, which asks for one label of *)
(* a frame, and the agent, which asks for its prompt.  Either looks up,    *)
(* calls the LLM on a miss and stores the answer.  The keys live in Redis  *)
(* and every Redis command is a step of its own, so lookups and stores of  *)
(* other coroutines come in between.                                       *)
(***************************************************************************)
EXTENDS Naturals, Sequences, SequencesExt

CONSTANTS
    Callers,        \* coroutines
    Frames,         \* frame hashes
    Contexts,       \* context hashes: "verify:<label>", the prompt's digest
    Near,           \* Near[f]: hashes within the Hamming threshold of f
    TTL,            \* ttl, in ticks
    MaxCandidates,  \* max_candidates
    Requests,       \* the pairs of frame and context the callers ask for
    None

ASSUME CacheAssumption ==
    /\ Near \in [Frames -> SUBSET Frames]
    /\ \A f \in Frames : f \in Near[f]
    /\ \A f, g \in Frames : f \in Near[g] <=> g \in Near[f]
    /\ Requests \subseteq [frame : Frames, context : Contexts]
    /\ TTL \in Nat \ {0} /\ MaxCandidates \in Nat \ {0}

VARIABLES
    entry,    \* entry[f]: the value under cache:result:<camera>:<f>
    index,    \* the sorted set cache:camera:<camera>:hashes, by score; members
              \* out of the window of the last TTL are left out: none reads them
    left,     \* time until that key expires; TTL + 1 for no expiry
    caller    \* caller[c]: what coroutine c is doing

vars == <<entry, index, left, caller>>

(* An answer is known by the frame and the context it was given for; the   *)
(* members of the sorted set name just these.                              *)
Answers == [frame : Frames, context : Contexts]
Entries == [answer : Answers, left : 1..TTL]
Scored  == [member : Answers, age : 0..TTL]

(* "idle"; "scan" after the exact key missed; "probe" with the candidates  *)
(* to look at; "miss": the LLM is asked; "store", "add", "expire": the     *)
(* three commands of `set`.  hit is the answer the last lookup returned.   *)
Places == {"idle", "scan", "probe", "miss", "store", "add", "expire"}

CallerStates ==
    [at : Places, frame : Frames \cup {None}, context : Contexts \cup {None},
     todo : Seq(Answers), hit : Answers \cup {None}]

Idle == [at |-> "idle", frame |-> None, context |-> None, todo |-> <<>>, hit |-> None]

TypeOK ==
    /\ entry \in [Frames -> Entries \cup {None}]
    /\ index \in Seq(Scored)
    /\ \A i, j \in DOMAIN index :
          i < j => index[i].age >= index[j].age /\ index[i].member # index[j].member
    /\ left \in 0..TTL + 1
    /\ left = 0 => index = <<>>
    /\ caller \in [Callers -> CallerStates]
    /\ \A c \in Callers : /\ caller[c].at = "probe" <=> caller[c].todo # <<>>
                          /\ Len(caller[c].todo) <= MaxCandidates

Init ==
    /\ entry = [f \in Frames |-> None]
    /\ index = <<>> /\ left = 0
    /\ caller = [c \in Callers |-> Idle]

-----------------------------------------------------------------------------
(* get.                                                                    *)

At(c, place) == caller[c].at = place
Goto(c, place) == caller' = [caller EXCEPT ![c].at = place]

(* The lookup returns an answer.                                           *)
Return(c, f, x, answer) ==
    caller' = [caller EXCEPT ![c] =
                  [at |-> "idle", frame |-> f, context |-> x, todo |-> <<>>, hit |-> answer]]

(* The exact key; its entry counts if the context is the caller's.         *)
Get(c, f, x) ==
    /\ At(c, "idle")
    /\ IF entry[f] # None /\ entry[f].answer.context = x
       THEN Return(c, f, x, entry[f].answer)
       ELSE caller' = [caller EXCEPT ![c] =
                          [at |-> "scan", frame |-> f, context |-> x, todo |-> <<>>, hit |-> None]]
    /\ UNCHANGED <<entry, index, left>>

(* Mutated: the context of a candidate is not compared.                    *)
MatchesAnyContext(c, m) == m.frame \in Near[caller[c].frame]

(* Mutated: the Hamming distance is not compared.                          *)
MatchesAnyDistance(c, m) == m.context = caller[c].context

Matches(c, m) == m.context = caller[c].context /\ m.frame \in Near[caller[c].frame]

(* The loop over the candidates passes over those that do not match, and   *)
(* awaits the entry of the next that does; without one, the LLM is asked.  *)
GoOn(c, todo) ==
    \E n \in 1..Len(todo) + 1 :
        /\ \A i \in 1..(n - 1) : ~Matches(c, todo[i])
        /\ n <= Len(todo) => Matches(c, todo[n])
        /\ caller' = [caller EXCEPT ![c].at = IF n <= Len(todo) THEN "probe" ELSE "miss",
                                    ![c].todo = SubSeq(todo, n, Len(todo))]

(* ZRANGEBYSCORE over the last TTL, oldest first, cut at MaxCandidates.    *)
Scan(c) ==
    /\ At(c, "scan")
    /\ GoOn(c, [i \in 1..(IF Len(index) < MaxCandidates THEN Len(index) ELSE MaxCandidates)
                  |-> index[i].member])
    /\ UNCHANGED <<entry, index, left>>

(* The entry of the next candidate, whatever its context is by now.        *)
Probe(c) ==
    /\ At(c, "probe")
    /\ LET e == entry[Head(caller[c].todo).frame]
       IN  IF e # None
           THEN Return(c, caller[c].frame, caller[c].context, e.answer)
           ELSE GoOn(c, Tail(caller[c].todo))
    /\ UNCHANGED <<entry, index, left>>

(* A Redis error in `get` counts as a miss for both callers: at the first  *)
(* GET, or when the hit that was found cannot be counted,                  *)
GetFails(c, f, x) ==
    /\ At(c, "idle")
    /\ caller' = [caller EXCEPT ![c] =
                     [at |-> "miss", frame |-> f, context |-> x, todo |-> <<>>, hit |-> None]]
    /\ UNCHANGED <<entry, index, left>>

(* or later in the lookup, the count of a candidate's hit included.        *)
GetError(c) ==
    /\ caller[c].at \in {"scan", "probe"}
    /\ GoOn(c, <<>>)
    /\ UNCHANGED <<entry, index, left>>

(* The LLM answers, or the call fails and nothing is stored.               *)
Answer(c) ==
    /\ At(c, "miss")
    /\ \/ Goto(c, "store")
       \/ caller' = [caller EXCEPT ![c] = Idle]
    /\ UNCHANGED <<entry, index, left>>

-----------------------------------------------------------------------------
(* set.                                                                    *)

Mine(c) == [frame |-> caller[c].frame, context |-> caller[c].context]

(* SET with EX.                                                            *)
Store(c) ==
    /\ At(c, "store")
    /\ entry' = [entry EXCEPT ![caller[c].frame] = [answer |-> Mine(c), left |-> TTL]]
    /\ Goto(c, "add")
    /\ UNCHANGED <<index, left>>

(* Mutated: a member stored again is not moved to its new score.           *)
AddTwice(c) ==
    /\ At(c, "add")
    /\ index' = Append(index, [member |-> Mine(c), age |-> 0])
    /\ left' = IF left = 0 THEN TTL + 1 ELSE left
    /\ Goto(c, "expire")
    /\ UNCHANGED entry

(* ZADD: the member is new, or its score is brought up to now.  A key that *)
(* was not there has no expiry yet.                                        *)
Add(c) ==
    /\ At(c, "add")
    /\ LET old    == {i \in DOMAIN index : index[i].member = Mine(c)}
           others == IF old = {} THEN index ELSE RemoveAt(index, CHOOSE i \in old : TRUE)
       IN  index' = Append(others, [member |-> Mine(c), age |-> 0])
    /\ left' = IF left = 0 THEN TTL + 1 ELSE left
    /\ Goto(c, "expire")
    /\ UNCHANGED entry

(* EXPIRE, without effect when the key expired in the meantime.            *)
Expire(c) ==
    /\ At(c, "expire")
    /\ left' = IF left = 0 THEN 0 ELSE TTL
    /\ caller' = [caller EXCEPT ![c] = Idle]
    /\ UNCHANGED <<entry, index>>

(* A Redis error in `set` is logged; what was written stays.               *)
SetError(c) ==
    /\ caller[c].at \in {"store", "add", "expire"}
    /\ caller' = [caller EXCEPT ![c] = Idle]
    /\ UNCHANGED <<entry, index, left>>

(* The sorted set a tick later: n members have left the window.            *)
Aged(n) == [i \in 1..(Len(index) - n) |-> [index[i + n] EXCEPT !.age = @ + 1]]

(* Time passes and keys expire.                                            *)
Tick ==
    /\ entry' = [f \in Frames |->
                    IF entry[f] = None \/ entry[f].left = 1 THEN None
                    ELSE [entry[f] EXCEPT !.left = @ - 1]]
    /\ left' = IF left \in 1..TTL THEN left - 1 ELSE left
    /\ \E n \in 0..Len(index) :
          /\ \A i \in DOMAIN index : i <= n <=> index[i].age = TTL
          /\ index' = IF left' = 0 THEN <<>> ELSE Aged(n)
    /\ UNCHANGED caller

Work(c)  == Scan(c) \/ Probe(c) \/ Answer(c) \/ Store(c) \/ Add(c) \/ Expire(c)
Error(c) == GetError(c) \/ SetError(c)

Next ==
    \/ Tick
    \/ \E c \in Callers :
          \/ \E r \in Requests : Get(c, r.frame, r.context) \/ GetFails(c, r.frame, r.context)
          \/ Work(c) \/ Error(c)

Spec == Init /\ [][Next]_vars

-----------------------------------------------------------------------------
(* Properties.                                                             *)

(* A hit was computed for a frame within the threshold of the one asked    *)
(* for: neither the index, which forgets late, nor the entries, which      *)
(* others overwrite, lead a lookup to another picture.                     *)
HitsAreNear ==
    \A c \in Callers : caller[c].hit # None => caller[c].hit.frame \in Near[caller[c].frame]

(* A hit of another context than the caller's comes from overwriting only: *)
(* it is for a frame that is also asked for in the caller's context.  With *)
(* one context per frame no answer reaches the wrong caller.               *)
SlipsOnlyByOverwriting ==
    \A c \in Callers :
        LET hit == caller[c].hit
        IN  hit # None /\ hit.context # caller[c].context
              => [hit EXCEPT !.context = caller[c].context] \in Requests

-----------------------------------------------------------------------------
(* docs/superpowers/specs/2026-07-12-result-cache-design.md, on `get`: the *)
(* first candidate within the threshold "and whose context matches".       *)
HitsMatchContext ==
    \A c \in Callers : caller[c].hit # None => caller[c].hit.context = caller[c].context
=============================================================================
