---------------------------- MODULE ChargesProofs ----------------------------
(***************************************************************************)
(* Lemmas about Charges: the bytes of a map are cardinalities of sets of   *)
(* cells, so adding and removing entries is union and difference of finite *)
(* sets.                                                                   *)
(***************************************************************************)
EXTENDS Charges, FiniteSetTheorems, TLAPS

\* The provers for leaves that name none, in the order they are tried.
USE SMTT(20), Z3T(30), Zenon

\* A set of entries whose sizes are natural numbers.
Sized(ps, ids) == IsFiniteSet(ids) /\ \A id \in ids : ps[id].size \in Nat

\* An initial segment of the positive numbers.
LEMMA IntervalSize ==
  \A n \in Nat : IsFiniteSet(1 .. n) /\ Cardinality(1 .. n) = n
<1> TAKE n \in Nat
<1>1. /\ IsFiniteSet(1 .. n)
      /\ Cardinality(1 .. n) = IF 1 > n THEN 0 ELSE n - 1 + 1
  BY FS_Interval
<1> QED
  BY <1>1

\* A cell is an entry's identifier with a number up to the entry's size.
LEMMA CellMember ==
  ASSUME NEW ps, NEW ids, NEW c
  PROVE  c \in Cells(ps, ids) <=> \E id \in ids : \E n \in 1 .. ps[id].size : c = <<id, n>>
BY DEF Cells

\* Finitely many entries are charged for finitely many bytes.
LEMMA CellsFinite ==
  ASSUME NEW ps, NEW ids, Sized(ps, ids)
  PROVE  /\ IsFiniteSet(Cells(ps, ids))
         /\ Bytes(ps, ids) \in Nat
<1> DEFINE f == [id \in ids |-> {id} \X (1 .. ps[id].size)]
           T == {{id} \X (1 .. ps[id].size) : id \in ids}
<1>1. f \in Surjection(ids, T)
  BY Zenon DEF Surjection
<1>2. IsFiniteSet(T)
  BY <1>1, FS_Surjection DEF Sized
<1>3. ASSUME NEW t \in T
      PROVE  IsFiniteSet(t)
  <2>1. PICK id \in ids : t = {id} \X (1 .. ps[id].size)
    OBVIOUS
  <2>2. IsFiniteSet({id}) /\ IsFiniteSet(1 .. ps[id].size)
    BY FS_Singleton, IntervalSize, Zenon DEF Sized
  <2> QED
    BY <2>1, <2>2, FS_Product, Zenon
<1>4. IsFiniteSet(UNION T)
  BY <1>2, <1>3, FS_UNION, Zenon
<1> QED
  BY <1>4, FS_CardinalityType DEF Cells, Bytes

\* Entries of the same sizes are charged for the same cells.
LEMMA CellsSame ==
  ASSUME NEW ps, NEW qs, NEW ids, \A id \in ids : ps[id].size = qs[id].size
  PROVE  Cells(ps, ids) = Cells(qs, ids) /\ Bytes(ps, ids) = Bytes(qs, ids)
BY Zenon DEF Cells, Bytes

\* Removing entries removes their bytes.
LEMMA BytesRemoved ==
  ASSUME NEW ps, NEW ids, NEW out, Sized(ps, ids)
  PROVE  Bytes(ps, ids \ out) = Bytes(ps, ids) - Bytes(ps, ids \cap out)
<1>1. Cells(ps, ids \ out) = Cells(ps, ids) \ Cells(ps, ids \cap out)
  BY CellMember
<1>2. Cells(ps, ids) \cap Cells(ps, ids \cap out) = Cells(ps, ids \cap out)
  BY CellMember
<1>3. IsFiniteSet(Cells(ps, ids))
  BY CellsFinite
<1>4. Cardinality(Cells(ps, ids) \ Cells(ps, ids \cap out))
        = Cardinality(Cells(ps, ids)) - Cardinality(Cells(ps, ids) \cap Cells(ps, ids \cap out))
  BY <1>3, FS_Difference, Zenon
<1> QED
  BY <1>1, <1>2, <1>4 DEF Bytes

\* The bytes of one entry are its size.
LEMMA BytesSingle ==
  ASSUME NEW ps, NEW id, ps[id].size \in Nat
  PROVE  Bytes(ps, {id}) = ps[id].size
<1>1. Cells(ps, {id}) = {id} \X (1 .. ps[id].size)
  BY DEF Cells
<1>2. IsFiniteSet({id}) /\ Cardinality({id}) = 1
  BY FS_Singleton
<1>3. IsFiniteSet(1 .. ps[id].size) /\ Cardinality(1 .. ps[id].size) = ps[id].size
  BY IntervalSize
<1>4. Cardinality({id} \X (1 .. ps[id].size)) = 1 * ps[id].size
  BY <1>2, <1>3, FS_Product
<1> QED
  BY <1>1, <1>4 DEF Bytes

\* Entries that are charged for at least a byte each are charged for nothing
\* only when there is none.
LEMMA BytesPositive ==
  ASSUME NEW ps, NEW ids, Sized(ps, ids), \A id \in ids : ps[id].size # 0
  PROVE  Bytes(ps, ids) > 0 <=> ids # {}
<1>1. Cells(ps, ids) = {} <=> ids = {}
  <2>1. ASSUME NEW id \in ids PROVE <<id, 1>> \in Cells(ps, ids)
    BY CellMember DEF Sized
  <2> QED
    BY <2>1, CellMember, Zenon
<1> QED
  BY <1>1, CellsFinite, FS_EmptySet DEF Bytes

=============================================================================
