----------------------------- MODULE MCRuleCache -----------------------------
(* RuleCache with the constants of its .cfg: two creates, one admin. *)
EXTENDS RuleCache

CONSTANTS c1, c2, a1

MCCreator == {c1, c2}
MCAdmin == {a1}
==============================================================================
