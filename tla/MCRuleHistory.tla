----------------------------- MODULE MCRuleHistory ------------------------------
(* One rule of a few executions, refreshed by the walker of the page shown  *)
(* and by one that a page shown earlier has left behind.                    *)
EXTENDS RuleHistory

CONSTANTS shown, leftover

MCWalkers == {shown, leftover}
=============================================================================
