--------------------------- MODULE RuleEvaluation ---------------------------
(***************************************************************************)
(* The rule half of the worker: _rule_worker takes one finished task at a  *)
(* time and _evaluate_rules_for_task (src/src/worker.py) runs the rule     *)
(* engine (src/src/pipeline/rule_engine.py) over its detections, inside    *)
(* one database session, while the admin API edits rules and bindings.     *)
(*                                                                         *)
(* A step ends where the code awaits the database.  A detection is a track *)
(* id and whether its centroid lies in the rule's polygon.  Engine and     *)
(* CameraRuleState are created anew for each task, so every detection of   *)
(* an evaluation happens at the same instant, over no earlier tracks.      *)
(***************************************************************************)
EXTENDS Naturals, Sequences, FiniteSets, SequencesExt

CONSTANTS
    Tasks,       \* results handed to the rule queue
    Rules,       \* rows of `rules`
    Bindings,    \* rows of `rule_bindings`
    Cameras,
    Tracks,      \* track ids
    NoTrack,     \* a detection without track_id
    Nothing,     \* "no task", "no binding"
    KindOf,      \* KindOf[r]: rule type and configuration
    RuleOf,      \* RuleOf[b]: rule_id
    ScopeOf,     \* ScopeOf[b]: a camera, "all", or "scene" for scene_type alone
    Overridden,  \* bindings with config_overrides
    MaxCount,    \* `max` of a "crowd" rule, `min` of an "empty" rule
    MaxFound,    \* bound of the model: detections in one result
    MaxEdits     \* bound of the model: edits by the admin

Kinds == {"enter", "exit", "loiter", "crowd", "empty", "broken"}

ASSUME RulesAssumption ==
    /\ KindOf \in [Rules -> Kinds]
    /\ RuleOf \in [Bindings -> Rules]
    /\ ScopeOf \in [Bindings -> Cameras \cup {"all", "scene"}]
    /\ Overridden \subseteq Bindings
    /\ NoTrack \notin Tracks
    /\ Nothing \notin Tasks \cup Bindings
    /\ MaxCount \in Nat /\ MaxFound \in Nat /\ MaxEdits \in Nat

Detections == [track : Tracks \cup {NoTrack}, inside : BOOLEAN]

(* A result is of the agent (the LLM's JSON, under "analysis") or of the   *)
(* fast path (the model outputs, under "results").  What the fast path     *)
(* found is never looked at, so one detection stands for all of it.        *)
Results ==
    [camera : Cameras, path : {"agent"}, found : BoundedSeq(Detections, MaxFound)]
    \cup [camera : Cameras, path : {"fast"}, found : {<<d>> : d \in Detections}]

VARIABLES
    ruleOn,     \* rules with enabled = true
    bindingOn,  \* bindings with enabled = true
    edits,      \* edits made so far
    done,       \* tasks whose evaluation has ended
    aborted,    \* those that ended in an exception
    task,       \* the task under evaluation
    result,     \* its result
    selected,   \* the enabled bindings that apply to its camera
    todo,       \* those the loop has still to look at
    checking,   \* the binding whose duplicate check is awaited
    added,      \* alerts in the session, not committed
    alerts,     \* rows of `alerts`
    alwaysOn,   \* rules that were enabled all through this evaluation
    onceOn      \* rules that were enabled at some time during it

dbVars   == <<ruleOn, bindingOn, edits>>
evalVars == <<task, result, selected, todo, checking, added, alwaysOn, onceOn>>
vars     == <<dbVars, evalVars, done, aborted, alerts>>

-----------------------------------------------------------------------------
(* The rule engine on one frame.                                           *)

(* _extract_detections looks for "all_detections" and for "detections" one *)
(* level below the top: it finds the LLM's, under "analysis"; the model    *)
(* outputs are a level deeper, under "results".                            *)
Extract(r) == IF r.path = "agent" THEN r.found ELSE <<>>

(* Mutated: a track that left the region is kept.                          *)
MovedKeepsTrack(tracks, d) ==
    IF d.track # NoTrack /\ d.inside THEN tracks \cup {d.track} ELSE tracks

(* What a detection does to `tracks`, the set of tracks inside, in both    *)
(* loops; they pass over a detection without a track id.                   *)
Moved(tracks, d) ==
    IF d.track = NoTrack THEN tracks
    ELSE IF d.inside THEN tracks \cup {d.track}
         ELSE tracks \ {d.track}

(* `tracks` after the first n detections, for every n.                     *)
TracksAfter(frame) ==
    LET after[n \in 0..Len(frame)] ==
            IF n = 0 THEN {} ELSE Moved(after[n - 1], frame[n])
    IN  after

(* _eval_region_intrusion appends a match for some detection.              *)
Intrusion(frame, alertOn) ==
    \E n \in DOMAIN frame :
        LET known == frame[n].track \in TracksAfter(frame)[n - 1]
        IN  /\ frame[n].track # NoTrack
            /\ \/ alertOn = "enter" /\ frame[n].inside /\ ~known
               \/ alertOn = "exit" /\ ~frame[n].inside /\ known

(* _eval_loitering does, with a duration of zero; with a longer one a stay *)
(* that begins in this frame never lasts long enough.                      *)
Loitering(frame) ==
    \E n \in DOMAIN frame :
        /\ frame[n].track # NoTrack /\ frame[n].inside
        /\ frame[n].track \in TracksAfter(frame)[n - 1]

(* _eval_count_threshold: "above" in a polygon, "below" in the full frame. *)
Crowd(frame) == Cardinality({n \in DOMAIN frame : frame[n].inside}) > MaxCount
Empty(frame) == Len(frame) < MaxCount

Triggered(rule, frame) ==
    CASE KindOf[rule] \in {"enter", "exit"} -> Intrusion(frame, KindOf[rule])
      [] KindOf[rule] = "loiter" -> Loitering(frame)
      [] KindOf[rule] = "crowd"  -> Crowd(frame)
      [] KindOf[rule] = "empty"  -> Empty(frame)
      [] KindOf[rule] = "broken" -> FALSE

(* evaluate raises on a configuration it cannot parse or that has no       *)
(* polygon, and on every override: the column is text, not a mapping.      *)
Raises(b) == KindOf[RuleOf[b]] = "broken" \/ b \in Overridden

(* A binding for a scene alone never applies: no result has a scene_type.  *)
Applies(b, camera) == ScopeOf[b] \in {camera, "all"}

-----------------------------------------------------------------------------
Alerts == [task : Tasks, rule : Rules, binding : Bindings]

TypeOK ==
    /\ ruleOn \subseteq Rules /\ bindingOn \subseteq Bindings
    /\ edits \in 0..MaxEdits
    /\ aborted \subseteq done /\ done \subseteq Tasks
    /\ task \in Tasks \cup {Nothing}
    /\ task # Nothing => result \in Results
    /\ todo \subseteq selected /\ selected \subseteq Bindings
    /\ checking \in Bindings \cup {Nothing}
    /\ added \subseteq Alerts /\ alerts \subseteq Alerts
    /\ alwaysOn \subseteq onceOn /\ onceOn \subseteq Rules

Init ==
    /\ ruleOn = Rules /\ bindingOn = Bindings /\ edits = 0
    /\ done = {} /\ aborted = {} /\ alerts = {}
    /\ task = Nothing /\ result = Nothing
    /\ selected = {} /\ todo = {} /\ checking = Nothing /\ added = {}
    /\ alwaysOn = {} /\ onceOn = {}

(* The admin API enables or disables a rule (deleting one disables it) or  *)
(* a binding.                                                              *)
Toggle(x, set) == IF x \in set THEN set \ {x} ELSE set \cup {x}

EditRule(r) ==
    /\ edits < MaxEdits /\ edits' = edits + 1
    /\ ruleOn' = Toggle(r, ruleOn)
    /\ alwaysOn' = alwaysOn \cap ruleOn'
    /\ onceOn' = IF task = Nothing THEN onceOn ELSE onceOn \cup ruleOn'
    /\ UNCHANGED <<bindingOn, done, aborted, alerts, task, result, selected, todo,
                   checking, added>>

EditBinding(b) ==
    /\ edits < MaxEdits /\ edits' = edits + 1
    /\ bindingOn' = Toggle(b, bindingOn)
    /\ UNCHANGED <<ruleOn, evalVars, done, aborted, alerts>>

(* Mutated: neither camera nor scene of a binding is compared.             *)
BeginIgnoresScope(t, r) ==
    /\ task = Nothing /\ t \notin done
    /\ task' = t /\ result' = r
    /\ selected' = {b \in bindingOn : Applies(b, r.camera)}
    /\ todo' = bindingOn
    /\ alwaysOn' = ruleOn /\ onceOn' = ruleOn
    /\ UNCHANGED <<dbVars, done, aborted, alerts, checking, added>>

(* _rule_worker takes the next entry; the bindings are read at once.  Of   *)
(* the loop's `continue`s, those that need no database come with it.       *)
Begin(t, r) ==
    /\ task = Nothing /\ t \notin done
    /\ task' = t /\ result' = r
    /\ selected' = {b \in bindingOn : Applies(b, r.camera)}
    /\ todo' = selected'
    /\ alwaysOn' = ruleOn /\ onceOn' = ruleOn
    /\ UNCHANGED <<dbVars, done, aborted, alerts, checking, added>>

(* The evaluation is over; _rule_worker asks for the next entry.           *)
End ==
    /\ done' = done \cup {task}
    /\ task' = Nothing /\ result' = Nothing
    /\ selected' = {} /\ todo' = {} /\ checking' = Nothing /\ added' = {}
    /\ alwaysOn' = {} /\ onceOn' = {}

(* session.get(Rule): the row as it is, or, from the session's identity    *)
(* map or the transaction's snapshot, as it was earlier in the evaluation. *)
SeesOn(r)  == r \in onceOn
SeesOff(r) == r \notin alwaysOn

(* Mutated: the loop ends with the first binding that triggers.            *)
LookStopsAtFirst(b) ==
    /\ task # Nothing /\ checking = Nothing /\ b \in todo /\ ~Raises(b)
    /\ IF SeesOn(RuleOf[b]) /\ Triggered(RuleOf[b], Extract(result))
       THEN todo' = {} /\ checking' = b
       ELSE todo' = todo \ {b} /\ UNCHANGED checking
    /\ UNCHANGED <<dbVars, done, aborted, alerts, task, result, selected, added,
                   alwaysOn, onceOn>>

(* The loop up to the duplicate check of one binding, in any order: the    *)
(* query has no ORDER BY.                                                  *)
Look(b) ==
    /\ task # Nothing /\ checking = Nothing /\ b \in todo
    /\ todo' = todo \ {b}
    /\ \/ SeesOff(RuleOf[b]) /\ UNCHANGED checking
       \/ /\ SeesOn(RuleOf[b]) /\ ~Raises(b)
          /\ checking' = IF Triggered(RuleOf[b], Extract(result)) THEN b ELSE Nothing
    /\ UNCHANGED <<dbVars, done, aborted, alerts, task, result, selected, added,
                   alwaysOn, onceOn>>

(* Mutated: the query does not see the alerts of the open session.         *)
CheckCommittedOnly ==
    /\ checking # Nothing
    /\ added' = IF \E a \in alerts : a.task = task /\ a.rule = RuleOf[checking]
                THEN added
                ELSE added \cup {[task |-> task, rule |-> RuleOf[checking], binding |-> checking]}
    /\ checking' = Nothing
    /\ UNCHANGED <<dbVars, done, aborted, alerts, task, result, selected, todo,
                   alwaysOn, onceOn>>

(* Mutated: each alert is committed as it is found.                        *)
CheckCommits ==
    /\ checking # Nothing
    /\ alerts' = IF \E a \in alerts : a.task = task /\ a.rule = RuleOf[checking]
                 THEN alerts
                 ELSE alerts \cup {[task |-> task, rule |-> RuleOf[checking], binding |-> checking]}
    /\ checking' = Nothing
    /\ UNCHANGED <<dbVars, done, aborted, added, task, result, selected, todo,
                   alwaysOn, onceOn>>

(* The duplicate check; the session flushes what it added before a query,  *)
(* so the alerts of this evaluation count.                                 *)
Check ==
    /\ checking # Nothing
    /\ added' = IF \E a \in alerts \cup added : a.task = task /\ a.rule = RuleOf[checking]
                THEN added
                ELSE added \cup {[task |-> task, rule |-> RuleOf[checking], binding |-> checking]}
    /\ checking' = Nothing
    /\ UNCHANGED <<dbVars, done, aborted, alerts, task, result, selected, todo,
                   alwaysOn, onceOn>>

(* The commit.  Reading alert_obj.id after it raises, since the session    *)
(* expired the object, so that no "ws:alert" event follows; the exception  *)
(* is logged and changes nothing.                                          *)
Commit ==
    /\ task # Nothing /\ checking = Nothing /\ todo = {}
    /\ alerts' = alerts \cup added
    /\ End
    /\ UNCHANGED <<dbVars, aborted>>

(* Mutated: the exception reaches the loop of _rule_worker and ends it.    *)
RaiseEndsWorker(b) == FALSE /\ b \in todo /\ UNCHANGED vars

(* evaluate raises: the session is closed without a commit, the exception  *)
(* logged.                                                                 *)
Raise(b) ==
    /\ task # Nothing /\ checking = Nothing /\ b \in todo
    /\ SeesOn(RuleOf[b]) /\ Raises(b)
    /\ aborted' = aborted \cup {task}
    /\ End
    /\ UNCHANGED <<dbVars, alerts>>

(* A database call raises, with the same effect.                           *)
DbError ==
    /\ task # Nothing
    /\ aborted' = aborted \cup {task}
    /\ End
    /\ UNCHANGED <<dbVars, alerts>>

Evaluate == Check \/ Commit \/ \E b \in Bindings : Look(b) \/ Raise(b)

Next ==
    \/ \E t \in Tasks, r \in Results : Begin(t, r)
    \/ Evaluate \/ DbError
    \/ \E r \in Rules : EditRule(r)
    \/ \E b \in Bindings : EditBinding(b)

(* The database answers, and the event loop resumes the coroutine.         *)
Spec == Init /\ [][Next]_vars /\ WF_vars(Evaluate)

-----------------------------------------------------------------------------
(* Properties.                                                             *)

(* One alert per task and rule, however many bindings of the rule trigger. *)
OneAlertPerRule ==
    \A a, b \in alerts \cup added : a.task = b.task /\ a.rule = b.rule => a = b

(* What an evaluation is about to commit is neither more nor less than is  *)
(* due, while the admin edits rules under it: an alert for every rule that *)
(* was enabled throughout and that some selected binding triggers, and     *)
(* none for a rule that was never enabled meanwhile or does not trigger.   *)
AddsWhatIsDue ==
    task # Nothing /\ todo = {} /\ checking = Nothing =>
        LET triggering == {RuleOf[b] : b \in {c \in selected :
                                                Triggered(RuleOf[c], Extract(result))}}
            alerting   == {a.rule : a \in added}
        IN  alwaysOn \cap triggering \subseteq alerting /\ alerting \subseteq onceOn \cap triggering

(* All or nothing: an evaluation that failed left no alert, also none of   *)
(* the bindings it had been through.                                       *)
FailureLeavesNothing == \A a \in alerts : a.task \in done \ aborted

(* The engine's loops agree with what they are to find in one frame: an    *)
(* "enter" rule, a track that is inside at some place; an "exit" rule, one *)
(* that is inside and outside further on; a "loiter" rule, one that is     *)
(* inside twice and never outside between.                                 *)
Inside(frame, i, k)  == frame[i].track = k /\ frame[i].inside
Outside(frame, i, k) == frame[i].track = k /\ ~frame[i].inside

Enters(frame) == \E k \in Tracks, i \in DOMAIN frame : Inside(frame, i, k)

Leaves(frame) ==
    \E k \in Tracks, i, j \in DOMAIN frame :
        i < j /\ Inside(frame, i, k) /\ Outside(frame, j, k)

Stays(frame) ==
    \E k \in Tracks, i, j \in DOMAIN frame :
        /\ i < j /\ Inside(frame, i, k) /\ Inside(frame, j, k)
        /\ \A n \in i..j : ~Outside(frame, n, k)

EngineFinds ==
    task # Nothing =>
        LET frame == Extract(result)
        IN  /\ Intrusion(frame, "enter") <=> Enters(frame)
            /\ Intrusion(frame, "exit") <=> Leaves(frame)
            /\ Loitering(frame) <=> Stays(frame)

(* A rule or a binding that raises costs its own task's alerts, not those  *)
(* of later tasks: every evaluation ends.                                  *)
EveryEvaluationEnds == \A t \in Tasks : task = t ~> t \in done

-----------------------------------------------------------------------------
(* worker.py:41: _extract_detections extracts the detections "from DAG     *)
(* execution results".                                                     *)
ModelOutputsAreEvaluated ==
    task # Nothing /\ result.path = "fast" => Extract(result) = result.found
=============================================================================
