-------------------------- MODULE MCRuleEvaluation --------------------------
(* A rule with two bindings, one of them for every camera; a rule bound to *)
(* one camera; and a rule with an overridden binding for the other camera, *)
(* so that evaluations both fail and succeed, and one for a scene alone,   *)
(* which never applies.                                                    *)
EXTENDS RuleEvaluation

CONSTANTS t1, t2, cam1, cam2

MCKindOf   == [enterRule |-> "enter", crowdRule |-> "crowd", emptyRule |-> "empty"]
MCRules    == DOMAIN MCKindOf
MCRuleOf   == [b1 |-> "enterRule", b2 |-> "enterRule", b3 |-> "crowdRule",
               b4 |-> "emptyRule", b5 |-> "emptyRule"]
MCBindings == DOMAIN MCRuleOf
MCOverridden == {"b4"}
MCScopeOf  == [b1 |-> cam1, b2 |-> "all", b3 |-> cam1, b4 |-> cam2, b5 |-> "scene"]
=============================================================================
