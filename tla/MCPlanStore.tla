---------------------------- MODULE MCPlanStore ----------------------------
(* PlanStore for TLC: two plans, two subjects, a small operation and one that *)
(* is larger than a subject's share.                                       *)
EXTENDS PlanStore, TLC

MCEncodedLen == [op \in Operations |-> IF op = "large" THEN 3 ELSE 1]

MCSymmetry == Permutations(PlanIDs) \cup Permutations(Subjects) \cup Permutations(Codes)

=============================================================================
