----------------------------- MODULE MCJobQueue -----------------------------
(* JobQueue on small instances: which jobs, which priorities. *)
EXTENDS JobQueue, TLC

\* two jobs of the same priority: either may be picked first
SamePriority == [j \in Jobs |-> 0]

WorkerSymmetry == Permutations(Workers)
BothSymmetry == Permutations(Workers) \cup Permutations(Jobs)
=============================================================================
