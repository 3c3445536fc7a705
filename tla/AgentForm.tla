------------------------------ MODULE AgentForm ------------------------------
(***************************************************************************)
(* The agent's configuration page of the v1 console and its store.  The    *)
(* store outlives the page; the form does not.  The form starts blank and  *)
(* is filled when the load of its own visit returns; saving it replaces    *)
(* the whole configuration of the server.  The page shows the form when    *)
(* the store has a configuration, also one of an earlier visit.            *)
(***************************************************************************)
EXTENDS Naturals

CONSTANT Loads   \* bound: loads in flight

VARIABLES
    taken,      \* the form the server's configuration was last replaced by
    config,     \* the store has a configuration
    filled,     \* the form of this visit was filled from the server
    fetching,   \* the store's loading flag, which covers the page
    saving,     \* the store's saving flag, which disables the button
    loads,      \* loads in flight: "none", of this visit, of an earlier one
    post,       \* the save in flight and the form it carries
    visited,    \* the page was visited
    revisited,  \* and visited again
    lapsed      \* history: in this visit its load failed, or another load
                \* ended while it was on its way

agentVars == <<taken, config, filled, fetching, saving, loads, post, visited,
               revisited, lapsed>>

AgentFormTypeOK ==
    /\ {config, filled, fetching, saving, visited, revisited, lapsed}
          \subseteq BOOLEAN
    /\ loads \in [Loads -> {"none", "this", "earlier"}]
    /\ post \in [stage: {"none", "sent", "done"}, filled: BOOLEAN, lapsed: BOOLEAN]
    /\ taken \in [filled: BOOLEAN, lapsed: BOOLEAN]

NoSave == [stage |-> "none", filled |-> TRUE, lapsed |-> FALSE]

AgentFormInit ==
    /\ taken = [filled |-> TRUE, lapsed |-> FALSE]
    /\ config = FALSE
    /\ filled = FALSE
    /\ fetching = FALSE
    /\ saving = FALSE
    /\ loads = [k \in Loads |-> "none"]
    /\ post = NoSave
    /\ visited = FALSE
    /\ revisited = FALSE
    /\ lapsed = FALSE

\* The page is entered: a blank form, and the store loads.
EnterAgent(k) ==
    /\ loads[k] = "none"
    /\ filled' = FALSE
    /\ fetching' = TRUE
    /\ loads' = [j \in Loads |-> IF j = k THEN "this"
                                 ELSE IF loads[j] = "this" THEN "earlier"
                                 ELSE loads[j]]
    /\ visited' = TRUE
    /\ revisited' = visited
    /\ lapsed' = FALSE
    /\ UNCHANGED <<taken, config, saving, post>>

\* The store takes the answer; the visit that asked for it fills its form.
LoadArrives(k) ==
    /\ loads[k] # "none"
    /\ config' = TRUE
    /\ fetching' = FALSE
    /\ filled' = (filled \/ loads[k] = "this")
    /\ loads' = [loads EXCEPT ![k] = "none"]
    /\ lapsed' = (lapsed \/ \E j \in Loads \ {k} : loads[j] = "this")
    /\ UNCHANGED <<taken, saving, post, visited, revisited>>

\* Either of the two calls of a load fails.
LoadFails(k) ==
    /\ loads[k] # "none"
    /\ fetching' = FALSE
    /\ loads' = [loads EXCEPT ![k] = "none"]
    /\ lapsed' = (lapsed \/ \E j \in Loads : loads[j] = "this")
    /\ UNCHANGED <<taken, config, filled, saving, post, visited, revisited>>

\* A plausible bug: the form is not covered while it loads.
MutatedSaveForm ==
    /\ visited
    /\ config
    /\ ~saving
    /\ saving' = TRUE
    /\ post' = [stage |-> "sent", filled |-> filled, lapsed |-> lapsed]
    /\ UNCHANGED <<taken, config, filled, fetching, loads, visited, revisited,
                   lapsed>>

\* The form is on display when the store has a configuration, and can be
\* reached when it is not covered by the spinner.
SaveForm ==
    /\ visited
    /\ config
    /\ ~fetching
    /\ ~saving
    /\ saving' = TRUE
    /\ post' = [stage |-> "sent", filled |-> filled, lapsed |-> lapsed]
    /\ UNCHANGED <<taken, config, filled, fetching, loads, visited, revisited,
                   lapsed>>

\* The server forgets its configuration and takes the body.
ServeSave ==
    /\ post.stage = "sent"
    /\ taken' = [filled |-> post.filled, lapsed |-> post.lapsed]
    /\ post' = [post EXCEPT !.stage = "done"]
    /\ UNCHANGED <<config, filled, fetching, saving, loads, visited, revisited,
                   lapsed>>

SaveArrives ==
    /\ post.stage = "done"
    /\ config' = TRUE
    /\ saving' = FALSE
    /\ post' = NoSave
    /\ UNCHANGED <<taken, filled, fetching, loads, visited, revisited, lapsed>>

SaveFails ==
    /\ post.stage # "none"
    /\ saving' = FALSE
    /\ post' = NoSave
    /\ UNCHANGED <<taken, config, filled, fetching, loads, visited, revisited,
                   lapsed>>

AgentFormNext ==
    \/ \E k \in Loads : EnterAgent(k) \/ LoadArrives(k) \/ LoadFails(k)
    \/ SaveForm
    \/ ServeSave
    \/ SaveArrives
    \/ SaveFails

AgentFormSpec == AgentFormInit /\ [][AgentFormNext]_agentVars

-----------------------------------------------------------------------------
(* Properties. *)

\* The server's configuration is overwritten by a form that was never filled
\* only if the page had been visited before and the form's own visit went
\* wrong: its load failed, or a load of an earlier visit ended before it and
\* took the spinner away.  Then the blank form is shown over what the store
\* has, and can be saved.  What went wrong in other visits does no harm.
WipedOnlyByRevisit ==
    \A body \in {post, taken} : ~body.filled => revisited /\ body.lapsed
=============================================================================
