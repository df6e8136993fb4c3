---------------------------- MODULE MCPlanCommit ----------------------------
(* PlanCommit for TLC: requests race over one plan and one object name.    *)
EXTENDS PlanCommit, TLC

MCOperations == PlannedOps

MCRemoteOps == {op \in PlannedOps : op.kind = "remote"}

MCEncodedLen == [op \in PlannedOps |-> 1]

\* Everything but the introduction of "elevated" content is a safe change.
MCSafeChange ==
  {c \in (Contents \cup {Absent}) \X Contents : c[2] = "elevated" => c[1] = "elevated"}

MCSymmetry == Permutations(PlanIDs) \cup Permutations(Requests) \cup Permutations(Codes)

=============================================================================
