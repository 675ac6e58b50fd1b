----------------------------- MODULE MCRuleSets -----------------------------
(* Small instances of RuleSets for TLC: who acts does not matter. *)
EXTENDS RuleSets, TLC

ActorSymmetry == Permutations(Actors)
=============================================================================
