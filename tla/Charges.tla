------------------------------- MODULE Charges -------------------------------
(***************************************************************************)
(* What the entries of a map are charged for: the plan store and the       *)
(* schema cache both keep a running byte count of a map whose values have  *)
(* a size.                                                                 *)
(***************************************************************************)
EXTENDS Integers, FiniteSets

\* The bytes the entries ids of the map ps are charged for, as a set of cells.
Cells(ps, ids) == UNION {{id} \X (1 .. ps[id].size) : id \in ids}

Bytes(ps, ids) == Cardinality(Cells(ps, ids))

=============================================================================
