----------------------------- MODULE MCCampaigns -----------------------------
(* Campaigns with the constants of its .cfg file. *)
EXTENDS Campaigns, TLC

Symmetry == Permutations(Request) \cup Permutations(Old) \cup Permutations(Link)
==============================================================================
