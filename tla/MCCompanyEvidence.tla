------------------------- MODULE MCCompanyEvidence -------------------------
(* Small instances of CompanyEvidence for TLC. *)
EXTENDS CompanyEvidence, TLC

WorkerSymmetry == Permutations(Workers)

\* What is settled after a miss is not claimed: behaviours are followed up to it.
NothingMissed == ~ missed
=============================================================================
