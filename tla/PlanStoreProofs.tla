--------------------------- MODULE PlanStoreProofs ---------------------------
(***************************************************************************)
(* Proofs about PlanStore for every choice of its constants: the shape of  *)
(* the store, the exactness of its byte counters, its budgets, and what    *)
(* Consume hands out.                                                      *)
(*                                                                         *)
(* The byte counters are cardinalities of sets of cells, so adding and     *)
(* removing plans is union and difference of finite sets.                  *)
(***************************************************************************)
EXTENDS PlanStore, ChargesProofs

\* The provers for leaves that name none, in the order they are tried.
USE SMTT(20), Z3T(30), Zenon

-----------------------------------------------------------------------------
(* The store and its counters, as a property of a state of the three maps. *)

\* Plans, of the right shape.
PlansOK(ps) ==
  /\ DOMAIN ps \subseteq PlanIDs
  /\ IsFiniteSet(DOMAIN ps)
  /\ \A id \in DOMAIN ps : ps[id] \in StoredPlan

\* The counters are exact.
Balanced(ps, used, charges) ==
  /\ used = Bytes(ps, DOMAIN ps)
  /\ DOMAIN charges = {ps[id].subject : id \in DOMAIN ps}
  /\ \A s \in DOMAIN charges : charges[s] = Bytes(ps, OwnedBy(ps, s))

\* The budgets are kept.
InBudget(ps, used) ==
  /\ Cardinality(DOMAIN ps) <= Capacity
  /\ used <= MaxBytes
  /\ \A s \in Subjects :
       \/ Bytes(ps, OwnedBy(ps, s)) <= MaxSubjectBytes
       \/ Cardinality(OwnedBy(ps, s)) = 1

StoreOK(st) ==
  /\ PlansOK(st.plans)
  /\ Balanced(st.plans, st.used, st.charges)
  /\ InBudget(st.plans, st.used)

Current == [plans |-> plans, used |-> usedBytes, charges |-> subjectBytes]

\* Any selection of stored plans can be counted.
LEMMA StoredSized ==
  ASSUME NEW ps, PlansOK(ps), NEW ids, ids \subseteq DOMAIN ps
  PROVE  /\ Sized(ps, ids)
         /\ \A id \in ids : ps[id].size # 0
         /\ Bytes(ps, ids) \in Nat
<1>1. IsFiniteSet(ids)
  BY FS_Subset DEF PlansOK
<1>2. \A id \in ids : ps[id].size \in Nat /\ ps[id].size # 0
  BY DEF PlansOK, StoredPlan
<1> QED
  BY <1>1, <1>2, CellsFinite DEF Sized

\* delete(id, plan), for any number of plans: the counters stay exact although
\* they are only decremented, and no budget is exceeded.
LEMMA WithoutOK ==
  ASSUME StoreOK(Current), NEW ids, ids \subseteq DOMAIN plans
  PROVE  /\ StoreOK(Without(ids))
         /\ DOMAIN Without(ids).plans = DOMAIN plans \ ids
         /\ \A id \in DOMAIN plans \ ids : Without(ids).plans[id] = plans[id]
<1> DEFINE ps == [id \in DOMAIN plans \ ids |-> plans[id]]
           left(s) == subjectBytes[s] - Bytes(plans, OwnedBy(plans, s) \cap ids)
           charges == [s \in {s \in DOMAIN subjectBytes : left(s) > 0} |-> left(s)]
           used == usedBytes - Bytes(plans, ids)
<1>1. Without(ids) = [plans |-> ps, used |-> used, charges |-> charges]
  BY DEF Without
<1>2. PlansOK(plans) /\ Balanced(plans, usedBytes, subjectBytes) /\ InBudget(plans, usedBytes)
  BY DEF StoreOK, Current
<1>3. DOMAIN ps = DOMAIN plans \ ids /\ \A id \in DOMAIN plans \ ids : ps[id] = plans[id]
  OBVIOUS
<1>4. PlansOK(ps)
  BY <1>2, <1>3, FS_Subset DEF PlansOK
<1>5. \A S : S \subseteq DOMAIN ps => Bytes(ps, S) = Bytes(plans, S)
  BY <1>3, CellsSame
<1>6. \A s : OwnedBy(ps, s) = OwnedBy(plans, s) \ ids /\ OwnedBy(ps, s) \subseteq DOMAIN ps
  BY <1>3 DEF OwnedBy
<1>7. used = Bytes(ps, DOMAIN ps)
  <2>1. Sized(plans, DOMAIN plans)
    BY <1>2, StoredSized
  <2>2. Bytes(plans, DOMAIN plans \ ids)
          = Bytes(plans, DOMAIN plans) - Bytes(plans, DOMAIN plans \cap ids)
    BY <2>1, BytesRemoved
  <2>3. DOMAIN plans \cap ids = ids
    OBVIOUS
  <2> QED
    BY <2>2, <2>3, <1>2, <1>3, <1>5, ZenonT(30) DEF Balanced
<1>8. ASSUME NEW s \in DOMAIN subjectBytes
      PROVE  left(s) = Bytes(ps, OwnedBy(ps, s))
  <2>1. Sized(plans, OwnedBy(plans, s))
    BY <1>2, StoredSized DEF OwnedBy
  <2>2. Bytes(plans, OwnedBy(plans, s) \ ids)
          = Bytes(plans, OwnedBy(plans, s)) - Bytes(plans, OwnedBy(plans, s) \cap ids)
    BY <2>1, BytesRemoved
  <2>3. subjectBytes[s] = Bytes(plans, OwnedBy(plans, s))
    BY <1>2 DEF Balanced
  <2> QED
    BY <2>2, <2>3, <1>5, <1>6
<1>9. \A s : Bytes(ps, OwnedBy(ps, s)) > 0 <=> OwnedBy(ps, s) # {}
  BY <1>4, <1>6, StoredSized, BytesPositive, Zenon
<1>10. Balanced(ps, used, charges)
  <2>1. \A s \in DOMAIN subjectBytes : left(s) > 0 <=> OwnedBy(ps, s) # {}
    BY <1>8, <1>9, ZenonT(30)
  <2>2. DOMAIN subjectBytes = {plans[id].subject : id \in DOMAIN plans}
    BY <1>2 DEF Balanced
  <2>3. DOMAIN charges = {s \in DOMAIN subjectBytes : OwnedBy(ps, s) # {}}
    BY <2>1
  <2>4. DOMAIN charges = {ps[id].subject : id \in DOMAIN ps}
    BY <2>2, <2>3, <1>3, ZenonT(30) DEF OwnedBy
  <2>5. \A s \in DOMAIN charges : charges[s] = Bytes(ps, OwnedBy(ps, s))
    BY <1>8
  <2> QED
    BY <1>7, <2>4, <2>5, ZenonT(30) DEF Balanced
<1>11. InBudget(ps, used)
  <2>1. Cardinality(DOMAIN ps) <= Capacity
    <3>1. /\ Cardinality(DOMAIN ps) <= Cardinality(DOMAIN plans)
          /\ Cardinality(DOMAIN ps) \in Nat /\ Cardinality(DOMAIN plans) \in Nat
      BY <1>2, <1>3, <1>4, FS_Subset, FS_CardinalityType DEF PlansOK
    <3> QED
      BY <3>1, <1>2, StoreAssumption DEF InBudget
  <2>2. used <= MaxBytes
    <3>1. Bytes(plans, ids) \in Nat /\ Bytes(plans, DOMAIN plans) \in Nat
      BY <1>2, StoredSized
    <3>2. usedBytes = Bytes(plans, DOMAIN plans) /\ usedBytes <= MaxBytes
      BY <1>2 DEF Balanced, InBudget
    <3> QED
      BY <3>1, <3>2, StoreAssumption
  <2>3. ASSUME NEW s \in Subjects
        PROVE  \/ Bytes(ps, OwnedBy(ps, s)) <= MaxSubjectBytes
               \/ Cardinality(OwnedBy(ps, s)) = 1
    <3>1. CASE OwnedBy(ps, s) = {}
      <4>1. ~(Bytes(ps, OwnedBy(ps, s)) > 0) /\ Bytes(ps, OwnedBy(ps, s)) \in Nat
        BY <3>1, <1>9, <1>4, <1>6, StoredSized, ZenonT(30)
      <4> QED
        BY <4>1, StoreAssumption
    <3>2. CASE OwnedBy(ps, s) # {} /\ Cardinality(OwnedBy(plans, s)) = 1
      <4>1. IsFiniteSet(OwnedBy(plans, s))
        BY <1>2, StoredSized DEF OwnedBy, Sized
      <4>2. PICK id : OwnedBy(plans, s) = {id}
        BY <4>1, <3>2, FS_Singleton, ZenonT(30)
      <4>3. OwnedBy(ps, s) = {id}
        BY <4>2, <3>2, <1>6
      <4> QED
        BY <4>3, FS_Singleton, ZenonT(30)
    <3>3. CASE Bytes(plans, OwnedBy(plans, s)) <= MaxSubjectBytes
      <4>1. Bytes(ps, OwnedBy(ps, s))
              = Bytes(plans, OwnedBy(plans, s)) - Bytes(plans, OwnedBy(plans, s) \cap ids)
        <5>1. Sized(plans, OwnedBy(plans, s))
          BY <1>2, StoredSized DEF OwnedBy
        <5> QED
          BY <5>1, BytesRemoved, <1>5, <1>6
      <4>2. /\ Bytes(plans, OwnedBy(plans, s)) \in Nat
            /\ Bytes(plans, OwnedBy(plans, s) \cap ids) \in Nat
        BY <1>2, StoredSized DEF OwnedBy
      <4> QED
        BY <4>1, <4>2, <3>3, StoreAssumption
    <3> QED
      BY <3>1, <3>2, <3>3, <1>2 DEF InBudget
  <2> QED
    BY <2>1, <2>2, <2>3 DEF InBudget
<1> QED
  BY <1>1, <1>3, <1>4, <1>10, <1>11 DEF StoreOK

\* A subject's charge, present in the map or not, is the bytes of its plans.
LEMMA ChargedExact ==
  ASSUME NEW st, StoreOK(st), NEW s
  PROVE  ChargedTo(st.charges, s) = Bytes(st.plans, OwnedBy(st.plans, s))
<1> DEFINE ps == st.plans
<1>1. PlansOK(ps) /\ Balanced(ps, st.used, st.charges) /\ OwnedBy(ps, s) \subseteq DOMAIN ps
  BY DEF StoreOK, OwnedBy
<1>2. CASE s \in DOMAIN st.charges
  BY <1>1, <1>2 DEF ChargedTo, Balanced
<1>3. CASE s \notin DOMAIN st.charges
  <2>1. OwnedBy(ps, s) = {}
    BY <1>1, <1>3 DEF Balanced, OwnedBy
  <2>2. Sized(ps, OwnedBy(ps, s)) /\ \A x \in OwnedBy(ps, s) : ps[x].size # 0
    BY <1>1, StoredSized
  <2>3. Bytes(ps, OwnedBy(ps, s)) \in Nat /\ ~(Bytes(ps, OwnedBy(ps, s)) > 0)
    BY <2>1, <2>2, BytesPositive, CellsFinite
  <2> QED
    BY <2>3, <1>3 DEF ChargedTo
<1> QED
  BY <1>2, <1>3

\* The assignments at the end of Create: a plan that passed the three tests is
\* added, and the counters it raises stay exact and within the budgets.
LEMMA PutOK ==
  ASSUME NEW st, StoreOK(st), NEW s \in Subjects, NEW id \in PlanIDs \ DOMAIN st.plans,
         NEW plan \in StoredPlan, plan.subject = s, Fits(st, s, plan.size)
  PROVE  StoreOK([plans |-> Put(st.plans, id, plan),
                  used |-> st.used + plan.size,
                  charges |-> Put(st.charges, s, ChargedTo(st.charges, s) + plan.size)])
<1> DEFINE ps == st.plans
           qs == Put(ps, id, plan)
           used == st.used + plan.size
           charges == Put(st.charges, s, ChargedTo(st.charges, s) + plan.size)
<1>1. PlansOK(ps) /\ Balanced(ps, st.used, st.charges) /\ InBudget(ps, st.used)
  BY DEF StoreOK
<1>2. /\ DOMAIN qs = DOMAIN ps \cup {id}
      /\ qs[id] = plan
      /\ \A x \in DOMAIN ps : qs[x] = ps[x]
      /\ id \notin DOMAIN ps
  BY DEF Put
<1> HIDE DEF qs
<1>3. plan.size \in Nat /\ plan.size > 0
  BY DEF StoredPlan
<1>4. PlansOK(qs)
  <2>1. IsFiniteSet(DOMAIN qs)
    BY <1>1, <1>2, FS_AddElement DEF PlansOK
  <2> QED
    BY <1>1, <1>2, <2>1 DEF PlansOK
<1>5. \A S : S \subseteq DOMAIN ps =>
        Bytes(qs, S) = Bytes(ps, S) /\ Bytes(qs, S \cup {id}) = Bytes(ps, S) + plan.size
  <2> TAKE S
  <2> HAVE S \subseteq DOMAIN ps
  <2>1. Bytes(qs, S) = Bytes(ps, S)
    BY <1>2, CellsSame
  <2>2. Sized(qs, S \cup {id})
    BY <1>4, <1>2, StoredSized
  <2>3. Bytes(qs, (S \cup {id}) \ {id})
          = Bytes(qs, S \cup {id}) - Bytes(qs, (S \cup {id}) \cap {id})
    BY <2>2, BytesRemoved
  <2>4. (S \cup {id}) \ {id} = S /\ (S \cup {id}) \cap {id} = {id}
    BY <1>2
  <2>5. Bytes(qs, {id}) = plan.size
    BY <1>2, <1>3, BytesSingle
  <2>6. Bytes(qs, S \cup {id}) \in Nat
    BY <2>2, CellsFinite
  <2>7. Bytes(qs, S) = Bytes(qs, S \cup {id}) - Bytes(qs, {id})
    BY <2>3, <2>4
  <2> QED
    BY <2>1, <2>5, <2>6, <2>7, <1>3
<1>6. /\ OwnedBy(qs, s) = OwnedBy(ps, s) \cup {id}
      /\ \A t : t # s => OwnedBy(qs, t) = OwnedBy(ps, t)
      /\ \A t : OwnedBy(ps, t) \subseteq DOMAIN ps
  BY <1>2 DEF OwnedBy
<1>7. ChargedTo(st.charges, s) = Bytes(ps, OwnedBy(ps, s))
  BY ChargedExact
<1>8. Balanced(qs, used, charges)
  <2>1. used = Bytes(qs, DOMAIN qs)
    BY <1>1, <1>2, <1>5, Zenon DEF Balanced
  <2>2. DOMAIN charges = {qs[x].subject : x \in DOMAIN qs}
    <3>1. DOMAIN charges = {ps[x].subject : x \in DOMAIN ps} \cup {s}
      BY <1>1 DEF Balanced, Put
    <3>2. /\ \A x \in DOMAIN ps : qs[x].subject = ps[x].subject
          /\ qs[id].subject = s
          /\ DOMAIN qs = DOMAIN ps \cup {id}
      BY <1>2
    <3>3. {qs[x].subject : x \in DOMAIN qs} = {ps[x].subject : x \in DOMAIN ps} \cup {s}
      BY <3>2
    <3> QED
      BY <3>1, <3>3, ZenonT(30)
  <2>3. ASSUME NEW t \in DOMAIN charges
        PROVE  charges[t] = Bytes(qs, OwnedBy(qs, t))
    <3>1. CASE t = s
      BY <3>1, <1>5, <1>6, <1>7 DEF Put
    <3>2. CASE t # s
      <4>1. t \in DOMAIN st.charges /\ charges[t] = st.charges[t]
        BY <3>2 DEF Put
      <4> QED
        BY <4>1, <3>2, <1>1, <1>5, <1>6, ZenonT(30) DEF Balanced
    <3> QED
      BY <3>1, <3>2
  <2> QED
    BY <2>1, <2>2, <2>3 DEF Balanced
<1>9. InBudget(qs, used)
  <2>1. Cardinality(DOMAIN qs) <= Capacity
    <3>1. Cardinality(DOMAIN ps) < Capacity
      BY DEF Fits
    <3>2. Cardinality(DOMAIN qs) = Cardinality(DOMAIN ps) + 1 /\ Cardinality(DOMAIN ps) \in Nat
      BY <1>1, <1>2, FS_AddElement, FS_CardinalityType DEF PlansOK
    <3> QED
      BY <3>1, <3>2, StoreAssumption
  <2>2. used <= MaxBytes
    <3>1. st.used \in Nat
      BY <1>1, StoredSized DEF Balanced
    <3> QED
      BY <3>1, <1>3, StoreAssumption DEF Fits
  <2>3. ASSUME NEW t \in Subjects
        PROVE  \/ Bytes(qs, OwnedBy(qs, t)) <= MaxSubjectBytes
               \/ Cardinality(OwnedBy(qs, t)) = 1
    <3>1. CASE t # s
      <4>1. OwnedBy(qs, t) = OwnedBy(ps, t) /\ Bytes(qs, OwnedBy(ps, t)) = Bytes(ps, OwnedBy(ps, t))
        BY <3>1, <1>5, <1>6, ZenonT(30)
      <4> QED
        BY <4>1, <1>1 DEF InBudget
    <3>2. CASE t = s
      <4>1. /\ Bytes(ps, OwnedBy(ps, s)) <= MaxOf(MaxSubjectBytes, plan.size) - plan.size
            /\ Bytes(ps, OwnedBy(ps, s)) \in Nat
            /\ Bytes(qs, OwnedBy(qs, s)) = Bytes(ps, OwnedBy(ps, s)) + plan.size
        BY <1>1, <1>5, <1>6, <1>7, StoredSized, Zenon DEF Fits
      <4>2. CASE plan.size <= MaxSubjectBytes
        BY <4>1, <4>2, <3>2, <1>3, StoreAssumption DEF MaxOf
      <4>3. CASE plan.size > MaxSubjectBytes
        <5>1. ~(Bytes(ps, OwnedBy(ps, s)) > 0)
          BY <4>1, <4>3, <1>3, StoreAssumption DEF MaxOf
        <5>2. OwnedBy(ps, s) = {}
          BY <5>1, <1>1, <1>6, StoredSized, BytesPositive
        <5>3. OwnedBy(qs, t) = {id}
          BY <5>2, <3>2, <1>6
        <5> QED
          BY <5>3, FS_Singleton, ZenonT(30)
      <4> QED
        BY <4>2, <4>3, <1>3, StoreAssumption
    <3> QED
      BY <3>1, <3>2
  <2> QED
    BY <2>1, <2>2, <2>3 DEF InBudget
<1> QED
  BY <1>4, <1>8, <1>9 DEF StoreOK, qs

-----------------------------------------------------------------------------
(* The inductive invariant.                                                *)

Replies == [outcome : Outcomes, subject : Subjects, operation : Operations \cup {NoOp}]

\* The variables the store does not keep.
RecordsOK ==
  /\ now \in 0 .. MaxTime
  /\ reply \in Replies
  /\ DOMAIN planned \subseteq PlanIDs
  /\ \A id \in DOMAIN planned : planned[id] \in PlanRecord
  /\ wrong \in [PlanIDs -> Nat]
  /\ grants \in [PlanIDs -> Seq(GrantRecord)]

\* At most one grant per plan, and none for a plan locked by wrong codes.
Closed ==
  \A id \in PlanIDs :
    /\ Len(grants[id]) <= 1
    /\ wrong[id] <= MaxAttempts
    /\ wrong[id] = MaxAttempts => grants[id] = <<>>

\* None of HandedOutOnce, HandedOutAsPlanned and Lockout is inductive alone:
\* each needs the stored plan to agree with its history (StoredAsPlanned), and
\* Budgets needs the counters it tests to be exact.
StoreInv ==
  /\ StoreOK(Current)
  /\ RecordsOK
  /\ StoredAsPlanned
  /\ HandedOutAsPlanned
  /\ Closed

\* Saving a good state of the three maps leaves a good store.
LEMMA SaveOK ==
  ASSUME NEW st, StoreOK(st), Save(st)
  PROVE  StoreOK(Current)'
<1>1. plans' = st.plans /\ usedBytes' = st.used /\ subjectBytes' = st.charges
  BY DEF Save
<1>2. PlansOK(plans')
  BY <1>1 DEF StoreOK
<1>3. Balanced(plans', usedBytes', subjectBytes')
  BY <1>1 DEF StoreOK
<1>4. InBudget(plans', usedBytes')
  BY <1>1 DEF StoreOK
<1> QED
  BY <1>2, <1>3, <1>4 DEF StoreOK, Current

\* A call that only answers.
LEMMA QuietStep ==
  ASSUME StoreInv, reply' \in Replies, UNCHANGED <<store, now, history>>
  PROVE  StoreInv'
<1>1. StoreOK(Current)'
  BY DEF StoreInv, StoreOK, Current, PlansOK, Balanced, InBudget, Bytes, Cells, OwnedBy, store
<1>2. RecordsOK'
  BY DEF StoreInv, RecordsOK, history
<1>3. StoredAsPlanned'
  BY DEF StoreInv, StoredAsPlanned, history, store
<1>4. HandedOutAsPlanned'
  BY DEF StoreInv, HandedOutAsPlanned, history
<1>5. Closed'
  BY DEF StoreInv, Closed, history
<1> QED
  BY <1>1, <1>2, <1>3, <1>4, <1>5, Zenon DEF StoreInv

\* The clock.
LEMMA TickStep ==
  ASSUME StoreInv, Tick
  PROVE  StoreInv'
<1>1. StoreOK(Current)'
  BY DEF StoreInv, StoreOK, Current, PlansOK, Balanced, InBudget, Bytes, Cells, OwnedBy, store, Tick
<1>2. RecordsOK'
  BY StoreAssumption DEF StoreInv, RecordsOK, history, Tick
<1>3. StoredAsPlanned'
  BY DEF StoreInv, StoredAsPlanned, history, store, Tick
<1>4. HandedOutAsPlanned'
  BY DEF StoreInv, HandedOutAsPlanned, history, Tick
<1>5. Closed'
  BY DEF StoreInv, Closed, history, Tick
<1> QED
  BY <1>1, <1>2, <1>3, <1>4, <1>5, Zenon DEF StoreInv

\* A call that drops expired plans and answers.
LEMMA DropStep ==
  ASSUME StoreInv, NEW ids, ids \subseteq DOMAIN plans, Save(Without(ids)),
         reply' \in Replies, UNCHANGED <<now, history>>
  PROVE  StoreInv'
<1>1. /\ StoreOK(Without(ids))
      /\ DOMAIN Without(ids).plans = DOMAIN plans \ ids
      /\ \A id \in DOMAIN plans \ ids : Without(ids).plans[id] = plans[id]
  BY WithoutOK DEF StoreInv
<1>2. plans' = Without(ids).plans
  BY DEF Save
<1>3. StoreOK(Current)'
  BY <1>1, SaveOK
<1>4. RecordsOK'
  BY DEF StoreInv, RecordsOK, history
<1>5. StoredAsPlanned'
  BY <1>1, <1>2 DEF StoreInv, StoredAsPlanned, history
<1>6. HandedOutAsPlanned'
  BY DEF StoreInv, HandedOutAsPlanned, history
<1>7. Closed'
  BY DEF StoreInv, Closed, history
<1> QED
  BY <1>3, <1>4, <1>5, <1>6, <1>7 DEF StoreInv

\* Create, when the plan fits.
LEMMA CreateStep ==
  ASSUME StoreInv, NEW s \in Subjects, NEW op \in Operations, CreateStores(s, op)
  PROVE  StoreInv'
<1> DEFINE gone == {id \in DOMAIN plans : Expired(id)}
<1>1. /\ prune = Without(gone)
      /\ StoreOK(prune)
      /\ DOMAIN prune.plans = DOMAIN plans \ gone
      /\ \A id \in DOMAIN plans \ gone : prune.plans[id] = plans[id]
  BY WithoutOK, ZenonT(30) DEF StoreInv, prune
<1>2. PICK id \in PlanIDs \ DOMAIN planned, code \in Codes :
        LET plan == [operation |-> op, subject |-> s, expiresAt |-> now + PlanTTL,
                     size |-> SizeOf(op), hash |-> confirmationHash(id, code),
                     failures |-> 0]
        IN  /\ Save([plans |-> Put(prune.plans, id, plan),
                     used |-> prune.used + plan.size,
                     charges |-> Put(prune.charges, s,
                                     ChargedTo(prune.charges, s) + plan.size)])
            /\ planned' = Put(planned, id, [operation |-> op, subject |-> s, code |-> code,
                                            expiresAt |-> plan.expiresAt])
  BY DEF CreateStores
<1> DEFINE plan == [operation |-> op, subject |-> s, expiresAt |-> now + PlanTTL,
                    size |-> SizeOf(op), hash |-> confirmationHash(id, code),
                    failures |-> 0]
           entry == [operation |-> op, subject |-> s, code |-> code,
                     expiresAt |-> now + PlanTTL]
           st == [plans |-> Put(prune.plans, id, plan),
                  used |-> prune.used + plan.size,
                  charges |-> Put(prune.charges, s, ChargedTo(prune.charges, s) + plan.size)]
<1>3. SizeOf(op) \in Nat /\ SizeOf(op) > 0 /\ now \in Nat /\ now + PlanTTL \in Nat
  BY StoreAssumption DEF SizeOf, SizeSafetyFactor, StoreInv, RecordsOK
<1>4. plan \in StoredPlan /\ plan.subject = s /\ plan.size = SizeOf(op)
  BY <1>3, StoreAssumption DEF StoredPlan, confirmationHash
<1>5. id \in PlanIDs \ DOMAIN prune.plans
  BY <1>1, Zenon DEF StoreInv, StoredAsPlanned
<1>6. Fits(prune, s, plan.size)
  BY Zenon DEF CreateStores
<1>7. StoreOK(st)
  <2> HIDE DEF plan
  <2> QED
    BY <1>1, <1>4, <1>5, <1>6, PutOK, Zenon
<1>8. Save(st) /\ planned' = Put(planned, id, entry)
  BY <1>2
<1>9. /\ DOMAIN plans' = (DOMAIN plans \ gone) \cup {id}
      /\ plans'[id] = plan
      /\ \A x \in DOMAIN plans \ gone : x # id /\ plans'[x] = plans[x]
  BY <1>1, <1>5, <1>8, ZenonT(30) DEF Save, Put
<1>10. /\ DOMAIN planned' = DOMAIN planned \cup {id}
       /\ planned'[id] = entry
       /\ \A x \in DOMAIN planned : x # id /\ planned'[x] = planned[x]
  BY <1>8, ZenonT(30) DEF Put
<1>11. now' = now /\ wrong' = wrong /\ grants' = grants /\ reply' = Reply("planned", s, op)
  BY Zenon DEF CreateStores
<1>12. wrong[id] = 0 /\ grants[id] = <<>>
  BY DEF StoreInv, StoredAsPlanned
<1>13. StoreOK(Current)'
  <2> HIDE DEF st
  <2> QED
    BY <1>7, <1>8, SaveOK, Zenon
<1> HIDE DEF st, gone
<1>14. RecordsOK'
  <2>1. entry \in PlanRecord
    BY <1>3 DEF PlanRecord
  <2>2. reply' \in Replies
    BY <1>11 DEF Reply, Replies, Outcomes
  <2> HIDE DEF entry
  <2>3. /\ DOMAIN planned' \subseteq PlanIDs
        /\ \A x \in DOMAIN planned' : planned'[x] \in PlanRecord
    BY <2>1, <1>10, Zenon DEF StoreInv, RecordsOK
  <2> QED
    BY <2>2, <2>3, <1>11 DEF StoreInv, RecordsOK
<1>15. StoredAsPlanned'
  <2>1. ASSUME NEW x \in DOMAIN plans'
        PROVE  /\ x \in DOMAIN planned'
               /\ plans'[x].operation = planned'[x].operation
               /\ plans'[x].subject = planned'[x].subject
               /\ plans'[x].expiresAt = planned'[x].expiresAt
               /\ plans'[x].hash = confirmationHash(x, planned'[x].code)
               /\ plans'[x].failures = wrong'[x]
               /\ plans'[x].failures < MaxAttempts
               /\ grants'[x] = <<>>
    <3>1. CASE x = id
      <4>1. /\ plan.operation = entry.operation
            /\ plan.subject = entry.subject
            /\ plan.expiresAt = entry.expiresAt
            /\ plan.hash = confirmationHash(id, entry.code)
            /\ plan.failures = 0
        BY Zenon
      <4> HIDE DEF plan, entry
      <4>2. plans'[x] = plan /\ planned'[x] = entry /\ x \in DOMAIN planned'
        BY <3>1, <1>9, <1>10, Zenon
      <4>3. wrong'[x] = 0 /\ grants'[x] = <<>>
        BY <3>1, <1>11, <1>12
      <4>4. 0 < MaxAttempts
        BY StoreAssumption
      <4> QED
        BY <4>1, <4>2, <4>3, <4>4, <3>1, Zenon
    <3>2. CASE x # id
      <4> HIDE DEF plan, entry
      <4>1. x \in DOMAIN plans /\ plans'[x] = plans[x]
        BY <3>2, <1>9, Zenon
      <4>2. x \in DOMAIN planned /\ planned'[x] = planned[x]
        BY <4>1, <1>10, Zenon DEF StoreInv, StoredAsPlanned
      <4> QED
        BY <4>1, <4>2, <1>10, <1>11, ZenonT(30) DEF StoreInv, StoredAsPlanned
    <3> QED
      BY <3>1, <3>2
  <2>2. \A x \in PlanIDs \ DOMAIN planned' : wrong'[x] = 0 /\ grants'[x] = <<>>
    BY <1>10, <1>11, Zenon DEF StoreInv, StoredAsPlanned
  <2> QED
    BY <2>1, <2>2, Zenon DEF StoredAsPlanned
<1>16. HandedOutAsPlanned'
  <2> HIDE DEF plan, entry
  <2> SUFFICES ASSUME NEW x \in PlanIDs, NEW i \in DOMAIN grants[x]
               PROVE  /\ x \in DOMAIN planned'
                      /\ grants[x][i].operation = planned'[x].operation
                      /\ grants[x][i].subject = planned'[x].subject
                      /\ grants[x][i].code = planned'[x].code
                      /\ grants[x][i].at <= planned'[x].expiresAt
    BY <1>11, ZenonT(30) DEF HandedOutAsPlanned
  <2>1. /\ x \in DOMAIN planned
        /\ grants[x][i].operation = planned[x].operation
        /\ grants[x][i].subject = planned[x].subject
        /\ grants[x][i].code = planned[x].code
        /\ grants[x][i].at <= planned[x].expiresAt
    BY DEF StoreInv, HandedOutAsPlanned
  <2>2. x \in DOMAIN planned' /\ planned'[x] = planned[x]
    BY <2>1, <1>10, Zenon
  <2> QED
    BY <2>1, <2>2
<1>17. Closed'
  BY <1>11 DEF StoreInv, Closed
<1> QED
  BY <1>13, <1>14, <1>15, <1>16, <1>17 DEF StoreInv

\* Consume with the right code.
LEMMA GrantStep ==
  ASSUME StoreInv, NEW id \in PlanIDs, NEW s \in Subjects, NEW code \in Codes,
         Grant(id, s, code)
  PROVE  StoreInv'
<1> DEFINE g == [operation |-> plans[id].operation, subject |-> s, code |-> code, at |-> now]
<1>1. id \in DOMAIN plans /\ ~Expired(id) /\ plans[id].subject = s
  BY Zenon DEF Grant, Usable
<1>2. /\ StoreOK(Without({id}))
      /\ DOMAIN Without({id}).plans = DOMAIN plans \ {id}
      /\ \A x \in DOMAIN plans \ {id} : Without({id}).plans[x] = plans[x]
  BY <1>1, WithoutOK DEF StoreInv
<1>3. StoreOK(Current)'
  BY <1>2, SaveOK DEF Grant
<1>4. DOMAIN plans' = DOMAIN plans \ {id} /\ \A x \in DOMAIN plans \ {id} : plans'[x] = plans[x]
  BY <1>2, ZenonT(30) DEF Grant, Save
<1>5. now' = now /\ planned' = planned /\ wrong' = wrong
  BY DEF Grant
<1>6. plans[id] \in StoredPlan
  BY <1>1 DEF StoreInv, StoreOK, Current, PlansOK
<1>7. g \in GrantRecord /\ now \in Nat
  <2>1. now \in 0 .. MaxTime
    BY DEF StoreInv, RecordsOK
  <2>2. now \in Nat
    BY <2>1, StoreAssumption DEF StoreAssumption
  <2>3. plans[id].operation \in Operations
    BY <1>6, Zenon DEF StoredPlan
  <2> QED
    BY <2>2, <2>3 DEF GrantRecord
<1>8. grants \in [PlanIDs -> Seq(GrantRecord)] /\ grants[id] = <<>>
  BY <1>1 DEF StoreInv, RecordsOK, StoredAsPlanned
<1>9. grants' = [grants EXCEPT ![id] = Append(@, g)]
  BY Zenon DEF Grant
<1>10. /\ code = planned[id].code
       /\ plans[id].operation = planned[id].operation
       /\ s = planned[id].subject
       /\ now <= planned[id].expiresAt
       /\ id \in DOMAIN planned
       /\ wrong[id] < MaxAttempts
  <2>1. /\ id \in DOMAIN planned
        /\ plans[id].operation = planned[id].operation
        /\ plans[id].subject = planned[id].subject
        /\ plans[id].expiresAt = planned[id].expiresAt
        /\ plans[id].hash = <<id, planned[id].code>>
        /\ wrong[id] < MaxAttempts
    BY <1>1, Zenon DEF StoreInv, StoredAsPlanned, confirmationHash
  <2>2. plans[id].hash = <<id, code>>
    BY Zenon DEF Grant, confirmationHash
  <2>3. ~(now > plans[id].expiresAt) /\ plans[id].expiresAt \in Nat
    BY <1>1, <1>6 DEF Expired, StoredPlan
  <2> QED
    BY <2>1, <2>2, <2>3, <1>1, <1>7
<1>11. grants'[id] = <<g>> /\ \A x \in PlanIDs \ {id} : grants'[x] = grants[x]
  <2> HIDE DEF g
  <2> QED
    BY <1>7, <1>8, <1>9
<1>12. RecordsOK'
  <2>1. reply' \in Replies
    BY <1>6 DEF Grant, Reply, Replies, Outcomes, StoredPlan
  <2>2. grants' \in [PlanIDs -> Seq(GrantRecord)]
    <3> HIDE DEF g
    <3> QED
      BY <1>7, <1>8, <1>9
  <2> QED
    BY <2>1, <2>2, <1>5, Zenon DEF StoreInv, RecordsOK
<1>13. StoredAsPlanned'
  <2> HIDE DEF g
  <2>1. id \notin PlanIDs \ DOMAIN planned
    BY <1>10
  <2>2. DOMAIN plans \subseteq PlanIDs
    BY DEF StoreInv, StoreOK, Current, PlansOK
  <2>3. \A x \in DOMAIN plans' : x \in DOMAIN plans /\ x \in PlanIDs /\ x # id
    BY <2>2, <1>4, Zenon
  <2>4. \A x \in DOMAIN plans' : plans'[x] = plans[x] /\ grants'[x] = grants[x]
    BY <2>3, <1>4, <1>11, Zenon
  <2>5. \A x \in PlanIDs \ DOMAIN planned : grants'[x] = grants[x]
    BY <2>1, <1>11, Zenon
  <2> QED
    BY <2>3, <2>4, <2>5, <1>5 DEF StoreInv, StoredAsPlanned
<1>14. HandedOutAsPlanned'
  <2>1. ASSUME NEW x \in PlanIDs, NEW i \in DOMAIN grants'[x]
        PROVE  /\ x \in DOMAIN planned
               /\ grants'[x][i].operation = planned[x].operation
               /\ grants'[x][i].subject = planned[x].subject
               /\ grants'[x][i].code = planned[x].code
               /\ grants'[x][i].at <= planned[x].expiresAt
    <3>1. CASE x = id
      <4>1. grants'[x][i] = g
        <5> HIDE DEF g
        <5> QED
          BY <3>1, <1>11
      <4>2. /\ g.operation = plans[id].operation
            /\ g.subject = s
            /\ g.code = code
            /\ g.at = now
        BY Zenon
      <4> HIDE DEF g
      <4> QED
        BY <4>1, <4>2, <3>1, <1>10
    <3>2. CASE x # id
      BY <3>2, <1>11 DEF StoreInv, HandedOutAsPlanned
    <3> QED
      BY <3>1, <3>2, Zenon
  <2> QED
    BY <2>1, <1>5, Zenon DEF HandedOutAsPlanned
<1>15. Closed'
  <2>1. wrong[id] # MaxAttempts
    BY <1>10, StoreAssumption DEF StoreInv, RecordsOK
  <2>2. Len(grants'[id]) = 1
    BY <1>11
  <2>3. ASSUME NEW x \in PlanIDs
        PROVE  /\ Len(grants'[x]) <= 1
               /\ wrong'[x] <= MaxAttempts
               /\ wrong'[x] = MaxAttempts => grants'[x] = <<>>
    <3>1. CASE x = id
      BY <3>1, <2>1, <2>2, <1>5 DEF StoreInv, Closed
    <3>2. CASE x # id
      BY <3>2, <1>5, <1>11 DEF StoreInv, Closed
    <3> QED
      BY <3>1, <3>2
  <2> QED
    BY <2>3 DEF Closed
<1> QED
  BY <1>3, <1>12, <1>13, <1>14, <1>15 DEF StoreInv

\* Consume with a wrong code: the plan counts it, or is gone.
LEMMA WrongCodeStep ==
  ASSUME StoreInv, NEW id \in PlanIDs, NEW s \in Subjects, NEW code \in Codes,
         WrongCode(id, s, code)
  PROVE  StoreInv'
<1> DEFINE failures == plans[id].failures + 1
<1>1. id \in DOMAIN plans
  BY Zenon DEF WrongCode, Usable
<1>2. /\ id \in DOMAIN planned
      /\ plans[id].failures = wrong[id]
      /\ wrong[id] \in Nat
      /\ wrong[id] < MaxAttempts
      /\ grants[id] = <<>>
      /\ wrong \in [PlanIDs -> Nat]
  BY <1>1 DEF StoreInv, StoredAsPlanned, RecordsOK
<1>3. now' = now /\ planned' = planned /\ grants' = grants
  BY DEF WrongCode
<1>4. wrong'[id] = wrong[id] + 1 /\ \A x \in PlanIDs \ {id} : wrong'[x] = wrong[x]
  BY <1>2 DEF WrongCode
<1>5. \/ failures >= MaxAttempts /\ Save(Without({id}))
      \/ /\ failures < MaxAttempts
         /\ plans' = [plans EXCEPT ![id].failures = failures]
         /\ usedBytes' = usedBytes /\ subjectBytes' = subjectBytes
  BY DEF WrongCode
<1>6. RecordsOK'
  <2>1. reply' \in Replies
    BY DEF WrongCode, Reply, Replies, Outcomes
  <2>2. wrong' \in [PlanIDs -> Nat]
    BY <1>2 DEF WrongCode
  <2> QED
    BY <2>1, <2>2, <1>3 DEF StoreInv, RecordsOK
<1>7. HandedOutAsPlanned'
  BY <1>3, ZenonT(30) DEF StoreInv, HandedOutAsPlanned
<1>8. Closed'
  <2>1. ASSUME NEW x \in PlanIDs
        PROVE  /\ Len(grants'[x]) <= 1
               /\ wrong'[x] <= MaxAttempts
               /\ wrong'[x] = MaxAttempts => grants'[x] = <<>>
    <3>1. CASE x = id
      <4>1. wrong'[id] <= MaxAttempts
        BY <1>2, <1>4, StoreAssumption
      <4> QED
        BY <4>1, <3>1, <1>2, <1>3, Zenon DEF StoreInv, Closed
    <3>2. CASE x # id
      BY <3>2, <1>3, <1>4, Zenon DEF StoreInv, Closed
    <3> QED
      BY <3>1, <3>2, Zenon
  <2> QED
    BY <2>1, Zenon DEF Closed
<1>9. \A x \in PlanIDs \ DOMAIN planned' : wrong'[x] = 0 /\ grants'[x] = <<>>
  BY <1>2, <1>3, <1>4 DEF StoreInv, StoredAsPlanned
<1>10. CASE failures >= MaxAttempts /\ Save(Without({id}))
  <2>1. /\ StoreOK(Without({id}))
        /\ DOMAIN Without({id}).plans = DOMAIN plans \ {id}
        /\ \A x \in DOMAIN plans \ {id} : Without({id}).plans[x] = plans[x]
    BY <1>1, WithoutOK, Zenon DEF StoreInv
  <2>2. StoreOK(Current)'
    BY <2>1, <1>10, SaveOK, Zenon
  <2>3. /\ DOMAIN plans' = DOMAIN plans \ {id}
        /\ \A x \in DOMAIN plans \ {id} : plans'[x] = plans[x] /\ x \in PlanIDs
    BY <2>1, <1>10, Zenon DEF Save, StoreInv, StoreOK, Current, PlansOK
  <2>4. StoredAsPlanned'
    BY <2>3, <1>3, <1>4, <1>9, ZenonT(30) DEF StoreInv, StoredAsPlanned
  <2> QED
    BY <2>2, <2>4, <1>6, <1>7, <1>8, Zenon DEF StoreInv
<1>11. CASE /\ failures < MaxAttempts
            /\ plans' = [plans EXCEPT ![id].failures = failures]
            /\ usedBytes' = usedBytes /\ subjectBytes' = subjectBytes
  <2>1. PlansOK(plans) /\ Balanced(plans, usedBytes, subjectBytes) /\ InBudget(plans, usedBytes)
    BY DEF StoreInv, StoreOK, Current
  <2>2. plans[id] \in StoredPlan
    BY <1>1, <2>1 DEF PlansOK
  <2>3. /\ DOMAIN plans' = DOMAIN plans
        /\ \A x \in DOMAIN plans : x # id => plans'[x] = plans[x]
        /\ plans'[id] = [plans[id] EXCEPT !.failures = failures]
    BY <1>1, <1>11
  <2>4. plans'[id] \in StoredPlan
    BY <2>2, <2>3, <1>2 DEF StoredPlan
  <2>5. /\ plans'[id].operation = plans[id].operation
        /\ plans'[id].subject = plans[id].subject
        /\ plans'[id].expiresAt = plans[id].expiresAt
        /\ plans'[id].size = plans[id].size
        /\ plans'[id].hash = plans[id].hash
        /\ plans'[id].failures = failures
    BY <2>2, <2>3 DEF StoredPlan
  <2>6. /\ \A x \in DOMAIN plans : plans'[x].size = plans[x].size
        /\ \A x \in DOMAIN plans : plans'[x].subject = plans[x].subject
    BY <2>3, <2>5, ZenonT(30)
  <2>7. PlansOK(plans')
    BY <2>1, <2>3, <2>4 DEF PlansOK
  <2>8. \A S : S \subseteq DOMAIN plans => Bytes(plans', S) = Bytes(plans, S)
    BY <2>6, CellsSame
  <2>9. \A t : OwnedBy(plans', t) = OwnedBy(plans, t) /\ OwnedBy(plans, t) \subseteq DOMAIN plans
    BY <2>3, <2>6 DEF OwnedBy
  <2>10. Balanced(plans', usedBytes', subjectBytes')
    <3>1. {plans'[x].subject : x \in DOMAIN plans'} = {plans[x].subject : x \in DOMAIN plans}
      BY <2>3, <2>6
    <3>2. usedBytes = Bytes(plans', DOMAIN plans')
      BY <2>1, <2>3, <2>8 DEF Balanced
    <3>3. DOMAIN subjectBytes = {plans'[x].subject : x \in DOMAIN plans'}
      BY <3>1, <2>1, ZenonT(30) DEF Balanced
    <3>4. \A t \in DOMAIN subjectBytes : subjectBytes[t] = Bytes(plans', OwnedBy(plans', t))
      BY <2>1, <2>8, <2>9 DEF Balanced
    <3> QED
      BY <3>2, <3>3, <3>4, <1>11, ZenonT(30) DEF Balanced
  <2>11. InBudget(plans', usedBytes')
    BY <2>1, <2>3, <2>8, <2>9, <1>11, ZenonT(30) DEF InBudget
  <2>12. StoreOK(Current)'
    BY <2>7, <2>10, <2>11, Zenon DEF StoreOK, Current
  <2>13. StoredAsPlanned'
    <3>1. ASSUME NEW x \in DOMAIN plans'
          PROVE  /\ x \in DOMAIN planned'
                 /\ plans'[x].operation = planned'[x].operation
                 /\ plans'[x].subject = planned'[x].subject
                 /\ plans'[x].expiresAt = planned'[x].expiresAt
                 /\ plans'[x].hash = confirmationHash(x, planned'[x].code)
                 /\ plans'[x].failures = wrong'[x]
                 /\ plans'[x].failures < MaxAttempts
                 /\ grants'[x] = <<>>
      <4>1. CASE x = id
        BY <4>1, <1>1, <1>2, <1>3, <1>4, <1>11, <2>5 DEF StoreInv, StoredAsPlanned
      <4>2. CASE x # id
        <5>1. x \in DOMAIN plans /\ plans'[x] = plans[x] /\ x \in PlanIDs
          BY <4>2, <2>1, <2>3 DEF PlansOK
        <5> QED
          BY <5>1, <4>2, <1>3, <1>4, ZenonT(30) DEF StoreInv, StoredAsPlanned
      <4> QED
        BY <4>1, <4>2
    <3> QED
      BY <3>1, <1>9, Zenon DEF StoredAsPlanned, confirmationHash
  <2> QED
    BY <2>12, <2>13, <1>6, <1>7, <1>8 DEF StoreInv
<1> QED
  BY <1>5, <1>10, <1>11

\* The empty store NewPlanStore returns.
LEMMA InitInv == StoreInit => StoreInv
<1> SUFFICES ASSUME StoreInit PROVE StoreInv
  OBVIOUS
<1>1. DOMAIN plans = {} /\ DOMAIN subjectBytes = {} /\ usedBytes = 0 /\ DOMAIN planned = {}
  BY DEF StoreInit
<1>2. IsFiniteSet({}) /\ Cardinality({}) = 0
  BY FS_EmptySet
<1>3. Cells(plans, {}) = {} /\ Bytes(plans, {}) = 0
  BY <1>2 DEF Cells, Bytes
<1>4. \A s : OwnedBy(plans, s) = {}
  BY <1>1 DEF OwnedBy
<1>5. StoreOK(Current)
  <2>1. PlansOK(plans)
    BY <1>1, <1>2 DEF PlansOK
  <2>2. Balanced(plans, usedBytes, subjectBytes)
    BY <1>1, <1>3 DEF Balanced
  <2>3. InBudget(plans, usedBytes)
    <3>1. 0 <= Capacity /\ 0 <= MaxBytes /\ 0 <= MaxSubjectBytes
      BY StoreAssumption
    <3>2. \A s : Bytes(plans, OwnedBy(plans, s)) = 0
      BY <1>3, <1>4
    <3> QED
      BY <3>1, <3>2, <1>1, <1>2 DEF InBudget
  <2> QED
    BY <2>1, <2>2, <2>3 DEF StoreOK, Current
<1>6. RecordsOK
  BY <1>1, StoreAssumption DEF StoreInit, RecordsOK, Reply, Replies, Outcomes
<1>7. StoredAsPlanned
  BY <1>1 DEF StoreInit, StoredAsPlanned
<1>8. HandedOutAsPlanned
  BY DEF StoreInit, HandedOutAsPlanned
<1>9. Closed
  BY StoreAssumption DEF StoreInit, Closed
<1> QED
  BY <1>5, <1>6, <1>7, <1>8, <1>9 DEF StoreInv

\* A refusal answers with a well-formed reply.
LEMMA RefuseReply ==
  ASSUME NEW s \in Subjects, NEW outcome \in Outcomes, Refuse(s, outcome)
  PROVE  reply' \in Replies /\ UNCHANGED <<store, now, history>>
BY DEF Refuse, Reply, Replies

\* Create preserves the invariant, whatever it answers.
LEMMA CreateInv ==
  ASSUME StoreInv, NEW s \in Subjects, NEW op \in Operations, Create(s, op)
  PROVE  StoreInv'
<1>1. CASE CreateStores(s, op)
  BY <1>1, CreateStep
<1>2. CASE CreateRefused(s, op)
  <2> DEFINE gone == {id \in DOMAIN plans : Expired(id)}
  <2>1. Save(Without(gone)) /\ UNCHANGED <<now, history>> /\ gone \subseteq DOMAIN plans
    BY <1>2 DEF CreateRefused, prune
  <2>2. reply' \in Replies
    BY <1>2 DEF CreateRefused, Reply, Replies, Outcomes
  <2> HIDE DEF gone
  <2> QED
    BY <2>1, <2>2, DropStep
<1>3. CASE CreateFails(s)
  <2>1. reply' \in Replies /\ UNCHANGED <<store, now, history>>
    BY <1>3 DEF CreateFails, Reply, Replies, Outcomes
  <2> QED
    BY <2>1, QuietStep
<1> QED
  BY <1>1, <1>2, <1>3 DEF Create

\* Consume preserves the invariant, whatever it answers.
LEMMA ConsumeInv ==
  ASSUME StoreInv, NEW id \in PlanIDs, NEW s \in Subjects,
         NEW code \in Codes \cup {NoCode, BadCode}, Consume(id, s, code)
  PROVE  StoreInv'
<1>1. CASE RejectCode(s, code)
  BY <1>1, RefuseReply, QuietStep DEF RejectCode, Outcomes
<1>2. CASE RejectUnknown(id, s, code)
  BY <1>2, RefuseReply, QuietStep DEF RejectUnknown, Outcomes
<1>3. CASE DropExpired(id, s, code)
  <2>1. Save(Without({id})) /\ UNCHANGED <<now, history>> /\ {id} \subseteq DOMAIN plans
    BY <1>3 DEF DropExpired
  <2>2. reply' \in Replies
    BY <1>3 DEF DropExpired, Reply, Replies, Outcomes
  <2> QED
    BY <2>1, <2>2, DropStep
<1>4. CASE RejectSubject(id, s, code)
  BY <1>4, RefuseReply, QuietStep DEF RejectSubject, Outcomes
<1>5. CASE WrongCode(id, s, code)
  BY <1>5, WrongCodeStep, ZenonT(30) DEF WrongCode
<1>6. CASE Grant(id, s, code)
  BY <1>6, GrantStep, ZenonT(30) DEF Grant
<1> QED
  BY <1>1, <1>2, <1>3, <1>4, <1>5, <1>6 DEF Consume

\* Every step of the store preserves the invariant.
LEMMA NextInv == StoreInv /\ [StoreNext]_storeVars => StoreInv'
<1> SUFFICES ASSUME StoreInv, [StoreNext]_storeVars PROVE StoreInv'
  OBVIOUS
<1>1. CASE \E s \in Subjects, op \in Operations : Create(s, op)
  BY <1>1, CreateInv
<1>2. CASE \E id \in PlanIDs, s \in Subjects, code \in Codes \cup {NoCode, BadCode} :
             Consume(id, s, code)
  BY <1>2, ConsumeInv
<1>3. CASE Tick
  BY <1>3, TickStep
<1>4. CASE UNCHANGED storeVars
  <2>1. reply' \in Replies /\ UNCHANGED <<store, now, history>>
    BY <1>4 DEF storeVars, store, history, StoreInv, RecordsOK
  <2> QED
    BY <2>1, QuietStep
<1> QED
  BY <1>1, <1>2, <1>3, <1>4 DEF StoreNext

\* The inductive invariant holds in every reachable state.
THEOREM StoreInvariant == StoreSpec => []StoreInv
<1>1. StoreInit => StoreInv
  BY InitInv
<1>2. StoreInv /\ [StoreNext]_storeVars => StoreInv'
  BY NextInv
<1> QED
  BY <1>1, <1>2, PTL DEF StoreSpec

-----------------------------------------------------------------------------
(* What it means for the store.                                            *)

\* Every call leaves the store well formed: no plan under a foreign digest, no
\* negative counter, no subject with a charge of zero.
THEOREM TypeCorrect == StoreSpec => []StoreTypeOK
<1>1. StoreInv => StoreTypeOK
  <2> SUFFICES ASSUME StoreInv PROVE StoreTypeOK
    OBVIOUS
  <2>1. PlansOK(plans) /\ Balanced(plans, usedBytes, subjectBytes)
    BY DEF StoreInv, StoreOK, Current
  <2>2. usedBytes \in Nat
    BY <2>1, StoredSized DEF Balanced
  <2>3. DOMAIN subjectBytes \subseteq Subjects
    BY <2>1 DEF Balanced, PlansOK, StoredPlan
  <2>4. ASSUME NEW s \in DOMAIN subjectBytes
        PROVE  subjectBytes[s] \in Nat \ {0}
    <3>1. OwnedBy(plans, s) # {} /\ OwnedBy(plans, s) \subseteq DOMAIN plans
      BY <2>1 DEF Balanced, OwnedBy
    <3>2. subjectBytes[s] = Bytes(plans, OwnedBy(plans, s))
      BY <2>1, ZenonT(30) DEF Balanced
    <3>3. Bytes(plans, OwnedBy(plans, s)) \in Nat /\ Bytes(plans, OwnedBy(plans, s)) > 0
      BY <2>1, <3>1, StoredSized, BytesPositive
    <3> QED
      BY <3>2, <3>3
  <2> QED
    BY <2>1, <2>2, <2>3, <2>4 DEF StoreTypeOK, PlansOK, StoreInv, RecordsOK, Replies
<1> QED
  BY <1>1, StoreInvariant, PTL

\* usedBytes and subjectBytes are exact in every reachable state, for any
\* capacity, budgets and sizes, although Create and delete only add and
\* subtract.
THEOREM CountersExact == StoreSpec => []Accounting
<1>1. StoreInv => Accounting
  BY DEF StoreInv, StoreOK, Current, Balanced, Accounting
<1> QED
  BY <1>1, StoreInvariant, PTL

\* The entry and byte budgets Create enforces are never exceeded.
THEOREM WithinBudgets == StoreSpec => []Budgets
<1>1. StoreInv => Budgets
  BY DEF StoreInv, StoreOK, Current, InBudget, Budgets
<1> QED
  BY <1>1, StoreInvariant, PTL

\* Create and delete only add and subtract, and yet the store is well-formed, its
\* counters exact and its contents within the budgets.
THEOREM BytesAlwaysKept == StoreSpec => []BytesKept
BY TypeCorrect, CountersExact, WithinBudgets, PTL DEF BytesKept

\* Consume hands a plan out at most once, and only as it was planned: to its
\* own identity, against its own code, in time.
THEOREM HandedOut == StoreSpec => [](HandedOutOnce /\ HandedOutAsPlanned)
<1>1. StoreInv => HandedOutOnce /\ HandedOutAsPlanned
  <2> SUFFICES ASSUME StoreInv PROVE HandedOutOnce
    BY Zenon DEF StoreInv
  <2>1. \A id \in DOMAIN plans : Len(grants[id]) = 0
    BY DEF StoreInv, StoredAsPlanned
  <2> QED
    BY <2>1 DEF StoreInv, Closed, HandedOutOnce
<1> QED
  BY <1>1, StoreInvariant, PTL

\* What the store keeps under an ID is what was planned under it, not yet
\* handed out, with the wrong codes counted against it.
THEOREM StoreAgrees == StoreSpec => []StoredAsPlanned
<1>1. StoreInv => StoredAsPlanned
  BY DEF StoreInv
<1> QED
  BY <1>1, StoreInvariant, PTL

\* After confirmationMaxAttempts wrong codes a plan is gone and was never
\* handed out, for any number of attempts the constant allows.
THEOREM LockedOut == StoreSpec => []Lockout
<1>1. StoreInv => Lockout
  <2> SUFFICES ASSUME StoreInv PROVE Lockout
    BY Zenon
  <2>1. ASSUME NEW id \in DOMAIN plans PROVE wrong[id] # MaxAttempts
    <3>1. plans[id].failures = wrong[id] /\ plans[id].failures < MaxAttempts
      BY DEF StoreInv, StoredAsPlanned
    <3>2. wrong[id] < MaxAttempts /\ MaxAttempts \in Nat
      BY <3>1, StoreAssumption, Zenon
    <3>3. wrong[id] \in Nat
      BY <2>1 DEF StoreInv, RecordsOK, StoreOK, Current, PlansOK
    <3> QED
      BY <3>2, <3>3
  <2> QED
    BY <2>1 DEF StoreInv, Closed, Lockout
<1> QED
  BY <1>1, StoreInvariant, PTL

\* Whatever sequence of calls has run, Consume hands an operation out at most once,
\* as planned, and never after confirmationMaxAttempts wrong codes.
THEOREM OneTimeDelivery == StoreSpec => []Delivery
BY HandedOut, StoreAgrees, LockedOut, PTL DEF Delivery

-----------------------------------------------------------------------------
(* Steps.                                                                  *)

\* What a step may do to a stored plan (the body of OnlyOwnerOrTime).
KeptOrOwn ==
  \A id \in DOMAIN plans :
    \/ id \in DOMAIN plans' /\ plans'[id] = plans[id]
    \/ Expired(id)
    \/ reply'.subject = plans[id].subject
         /\ reply'.outcome \in {"granted", "confirmation_locked", "invalid_confirmation"}

\* Removing plans leaves the others as they are.
LEMMA OthersKept ==
  ASSUME StoreInv, NEW ids, ids \subseteq DOMAIN plans, Save(Without(ids))
  PROVE  \A id \in DOMAIN plans \ ids : id \in DOMAIN plans' /\ plans'[id] = plans[id]
BY WithoutOK DEF StoreInv, Save

\* An attempt to consume, or any other call, costs an owner neither the plan nor
\* an attempt unless the owner made it or the plan has expired.
THEOREM OwnersKeepPlans == StoreSpec => OnlyOwnerOrTime
<1>1. StoreInv /\ [StoreNext]_storeVars => [KeptOrOwn]_storeVars
  <2> SUFFICES ASSUME StoreInv, StoreNext PROVE KeptOrOwn
    OBVIOUS
  <2>1. ASSUME NEW s \in Subjects, NEW op \in Operations, Create(s, op)
        PROVE  KeptOrOwn
    <3> DEFINE gone == {id \in DOMAIN plans : Expired(id)}
    <3>1. prune = Without(gone) /\ gone \subseteq DOMAIN plans
      BY DEF prune
    <3>2. CASE CreateStores(s, op)
      <4>1. /\ DOMAIN prune.plans = DOMAIN plans \ gone
            /\ \A id \in DOMAIN plans \ gone : prune.plans[id] = plans[id]
        BY <3>1, WithoutOK DEF StoreInv
      <4>2. PICK new \in PlanIDs \ DOMAIN planned : \E plan : plans' = Put(prune.plans, new, plan)
        BY <3>2, ZenonT(30) DEF CreateStores, Save
      <4>3. new \notin DOMAIN plans
        BY DEF StoreInv, StoredAsPlanned
      <4>4. \A id \in DOMAIN plans \ gone : id \in DOMAIN plans' /\ plans'[id] = plans[id]
        BY <4>1, <4>2, <4>3, Zenon DEF Put
      <4> QED
        BY <4>4, Zenon DEF KeptOrOwn
    <3>3. CASE CreateRefused(s, op)
      BY <3>1, <3>3, OthersKept, Zenon DEF CreateRefused, KeptOrOwn
    <3>4. CASE CreateFails(s)
      BY <3>4 DEF CreateFails, KeptOrOwn, store
    <3> QED
      BY <2>1, <3>2, <3>3, <3>4 DEF Create
  <2>2. ASSUME NEW id \in PlanIDs, NEW s \in Subjects,
               NEW code \in Codes \cup {NoCode, BadCode}, Consume(id, s, code)
        PROVE  KeptOrOwn
    <3>1. CASE RejectCode(s, code)
      BY <3>1 DEF RejectCode, Refuse, store, KeptOrOwn
    <3>2. CASE RejectUnknown(id, s, code)
      BY <3>2, Zenon DEF RejectUnknown, Refuse, store, KeptOrOwn
    <3>3. CASE DropExpired(id, s, code)
      <4>1. id \in DOMAIN plans /\ Expired(id) /\ Save(Without({id}))
        BY <3>3 DEF DropExpired
      <4>2. \A x \in DOMAIN plans \ {id} : x \in DOMAIN plans' /\ plans'[x] = plans[x]
        BY <4>1, OthersKept, Zenon
      <4> QED
        BY <4>1, <4>2 DEF KeptOrOwn
    <3>4. CASE RejectSubject(id, s, code)
      BY <3>4 DEF RejectSubject, Refuse, store, KeptOrOwn
    <3>5. CASE WrongCode(id, s, code)
      <4>1. plans[id].subject = s /\ id \in DOMAIN plans
        BY <3>5 DEF WrongCode, Usable
      <4>2. \A x \in DOMAIN plans \ {id} : x \in DOMAIN plans' /\ plans'[x] = plans[x]
        BY <3>5, <4>1, OthersKept DEF WrongCode
      <4>3. /\ reply'.subject = s
            /\ reply'.outcome \in {"confirmation_locked", "invalid_confirmation"}
        BY <3>5 DEF WrongCode, Reply
      <4> QED
        BY <4>1, <4>2, <4>3 DEF KeptOrOwn
    <3>6. CASE Grant(id, s, code)
      <4>1. plans[id].subject = s /\ id \in DOMAIN plans
        BY <3>6, Zenon DEF Grant, Usable
      <4>2. \A x \in DOMAIN plans \ {id} : x \in DOMAIN plans' /\ plans'[x] = plans[x]
        BY <3>6, <4>1, OthersKept, Zenon DEF Grant
      <4>3. reply'.subject = s /\ reply'.outcome = "granted"
        BY <3>6 DEF Grant, Reply
      <4> QED
        BY <4>1, <4>2, <4>3, Zenon DEF KeptOrOwn
    <3> QED
      BY <2>2, <3>1, <3>2, <3>3, <3>4, <3>5, <3>6, Zenon DEF Consume
  <2>3. CASE Tick
    BY <2>3 DEF Tick, store, KeptOrOwn
  <2> QED
    BY <2>1, <2>2, <2>3 DEF StoreNext
<1>2. OnlyOwnerOrTime <=> [][KeptOrOwn]_storeVars
  BY DEF OnlyOwnerOrTime, KeptOrOwn
<1> QED
  BY <1>1, <1>2, StoreInvariant, PTL DEF StoreSpec

\* What a refusal for lack of room means (the body of RefusedOnlyWhenFull).
NoRoom ==
  reply' # reply /\ reply'.outcome = "plan_capacity" =>
    LET live == {id \in DOMAIN plans : ~Expired(id)}
        s == reply'.subject
        size == SizeOf(reply'.operation)
    IN  \/ Cardinality(live) >= Capacity
        \/ Bytes(plans, live) + size > MaxBytes
        \/ Bytes(plans, live \cap OwnedBy(plans, s)) + size > MaxOf(MaxSubjectBytes, size)

\* Create counts only plans that are still in time: what it refuses would exceed a
\* budget with those alone, for any capacity, budgets and sizes.
LEMMA RefusalFull ==
  ASSUME StoreInv, NEW s \in Subjects, NEW op \in Operations, CreateRefused(s, op)
  PROVE  NoRoom
<1> DEFINE live == {id \in DOMAIN plans : ~Expired(id)}
           gone == {id \in DOMAIN plans : Expired(id)}
           size == SizeOf(op)
<1>1. reply'.subject = s /\ reply'.operation = op /\ ~Fits(prune, s, size)
  BY ZenonT(30) DEF CreateRefused, Reply
<1>2. /\ StoreOK(prune)
      /\ DOMAIN prune.plans = live
      /\ \A id \in live : prune.plans[id] = plans[id]
  <2>1. DOMAIN plans \ gone = live
    OBVIOUS
  <2> QED
    BY <2>1, WithoutOK DEF StoreInv, prune
<1> HIDE DEF live, gone
<1>3. \A S : S \subseteq live => Bytes(prune.plans, S) = Bytes(plans, S)
  BY <1>2, CellsSame
<1>4. OwnedBy(prune.plans, s) = live \cap OwnedBy(plans, s)
  BY <1>2, Zenon DEF OwnedBy, live
<1>5. prune.used = Bytes(plans, live)
  BY <1>2, <1>3 DEF StoreOK, Balanced
<1>6. ChargedTo(prune.charges, s) = Bytes(plans, live \cap OwnedBy(plans, s))
  BY <1>2, <1>3, <1>4, ChargedExact
<1>7. /\ Bytes(plans, live) \in Nat /\ Bytes(plans, live \cap OwnedBy(plans, s)) \in Nat
      /\ Cardinality(live) \in Nat /\ size \in Nat
  <2>1. PlansOK(plans) /\ live \subseteq DOMAIN plans
    BY DEF StoreInv, StoreOK, Current, live
  <2>2. Bytes(plans, live) \in Nat /\ Bytes(plans, live \cap OwnedBy(plans, s)) \in Nat
    BY <2>1, StoredSized
  <2>3. Cardinality(live) \in Nat
    BY <2>1, FS_Subset, FS_CardinalityType, Zenon DEF PlansOK
  <2> QED
    BY <2>2, <2>3, StoreAssumption DEF SizeOf, SizeSafetyFactor
<1>8. \/ ~(Cardinality(live) < Capacity)
      \/ ~(size <= MaxBytes)
      \/ ~(Bytes(plans, live) <= MaxBytes - size)
      \/ ~(Bytes(plans, live \cap OwnedBy(plans, s)) <= MaxOf(MaxSubjectBytes, size) - size)
  BY <1>1, <1>2, <1>5, <1>6 DEF Fits
<1>9. MaxOf(MaxSubjectBytes, size) \in Nat
  BY <1>7, StoreAssumption DEF MaxOf
<1>10. \/ Cardinality(live) >= Capacity
       \/ Bytes(plans, live) + size > MaxBytes
       \/ Bytes(plans, live \cap OwnedBy(plans, s)) + size > MaxOf(MaxSubjectBytes, size)
  BY <1>7, <1>8, <1>9, StoreAssumption
<1> QED
  BY <1>1, <1>10 DEF NoRoom, live

\* No other call answers that there is no room, so expired plans that nobody
\* consumed never hold capacity.
THEOREM RefusalsOnlyWhenFull == StoreSpec => RefusedOnlyWhenFull
<1>1. StoreInv /\ [StoreNext]_storeVars => [NoRoom]_storeVars
  <2> SUFFICES ASSUME StoreInv, StoreNext PROVE NoRoom
    OBVIOUS
  <2>1. ASSUME NEW s \in Subjects, NEW op \in Operations, Create(s, op)
        PROVE  NoRoom
    <3>1. CASE CreateRefused(s, op)
      BY <3>1, RefusalFull, Zenon
    <3>2. CASE CreateStores(s, op)
      BY <3>2, Zenon DEF CreateStores, Reply, NoRoom
    <3>3. CASE CreateFails(s)
      BY <3>3 DEF CreateFails, Reply, NoRoom
    <3> QED
      BY <2>1, <3>1, <3>2, <3>3 DEF Create
  <2>2. ASSUME NEW id \in PlanIDs, NEW s \in Subjects,
               NEW code \in Codes \cup {NoCode, BadCode}, Consume(id, s, code)
        PROVE  NoRoom
    <3>1. reply'.outcome # "plan_capacity"
      BY <2>2 DEF Consume, RejectCode, RejectUnknown, DropExpired, RejectSubject, WrongCode,
                  Grant, Refuse, Reply
    <3> QED
      BY <3>1 DEF NoRoom
  <2>3. CASE Tick
    BY <2>3 DEF Tick, NoRoom
  <2> QED
    BY <2>1, <2>2, <2>3 DEF StoreNext
<1>2. RefusedOnlyWhenFull <=> [][NoRoom]_storeVars
  BY DEF RefusedOnlyWhenFull, NoRoom
<1> QED
  BY <1>1, <1>2, StoreInvariant, PTL DEF StoreSpec

-----------------------------------------------------------------------------
(* The store implements OneTimePlan.                                       *)

\* The abstract variables.
termsBar == [id \in DOMAIN planned |-> TermsOf(planned[id])]
deliveredBar == [id \in PlanIDs |-> [i \in DOMAIN grants[id] |-> TermsOf(grants[id][i])]]

\* Plans that go without being handed out lapse.
LEMMA LapseRefines ==
  ASSUME StoreInv, NEW ids, ids \subseteq DOMAIN plans, Save(Without(ids)),
         planned' = planned, grants' = grants
  PROVE  OneTime!Next
<1>1. DOMAIN plans' = DOMAIN plans \ ids
  BY WithoutOK, Zenon DEF StoreInv, Save
<1>2. termsBar' = termsBar /\ deliveredBar' = deliveredBar
  BY Zenon DEF termsBar, deliveredBar
<1>3. OneTime!Lapse(ids)
  BY <1>1, <1>2, Zenon DEF OneTime!Lapse, termsBar, deliveredBar
<1> QED
  BY <1>3, Zenon DEF OneTime!Next

\* A call that leaves the stored identifiers and the history alone.
LEMMA StutterRefines ==
  ASSUME DOMAIN plans' = DOMAIN plans, planned' = planned, grants' = grants
  PROVE  UNCHANGED OneTime!planVars
BY Zenon DEF OneTime!planVars

\* Create issues a fresh plan.
LEMMA IssueRefines ==
  ASSUME StoreInv, NEW s \in Subjects, NEW op \in Operations, CreateStores(s, op)
  PROVE  OneTime!Next
<1> DEFINE gone == {x \in DOMAIN plans : Expired(x)}
           t == [operation |-> op, subject |-> s]
<1>1. /\ DOMAIN prune.plans = DOMAIN plans \ gone
      /\ gone \subseteq DOMAIN plans
  BY WithoutOK DEF StoreInv, prune
<1>2. PICK id \in PlanIDs \ DOMAIN planned :
        /\ \E plan : plans' = Put(prune.plans, id, plan)
        /\ \E code, expires : planned' = Put(planned, id, [operation |-> op, subject |-> s,
                                               code |-> code, expiresAt |-> expires])
  BY ZenonT(30) DEF CreateStores, Save
<1>3. DOMAIN plans' = (DOMAIN plans \ gone) \cup {id}
  BY <1>1, <1>2, ZenonT(30) DEF Put
<1>4. /\ DOMAIN planned' = DOMAIN planned \cup {id}
      /\ TermsOf(planned'[id]) = t
      /\ \A x \in DOMAIN planned : planned'[x] = planned[x]
  <2>1. PICK code, expires :
          planned' = Put(planned, id, [operation |-> op, subject |-> s,
                                       code |-> code, expiresAt |-> expires])
    BY <1>2, ZenonT(30)
  <2> DEFINE p == [operation |-> op, subject |-> s, code |-> code, expiresAt |-> expires]
  <2>2. TermsOf(p) = t
    BY DEF TermsOf
  <2>3. planned' = Put(planned, id, p)
    BY <2>1
  <2> HIDE DEF p, t
  <2>4. DOMAIN planned' = DOMAIN planned \cup {id} /\ planned'[id] = p
    BY <2>3, Zenon DEF Put
  <2>5. \A x \in DOMAIN planned : planned'[x] = planned[x]
    BY <1>2, <2>3, Zenon DEF Put
  <2> QED
    BY <2>2, <2>4, <2>5
<1>5. termsBar' = [x \in DOMAIN termsBar \cup {id} |-> IF x = id THEN t ELSE termsBar[x]]
  BY <1>4, Zenon DEF termsBar
<1>6. deliveredBar' = deliveredBar
  BY ZenonT(30) DEF deliveredBar, CreateStores
<1>7. OneTime!Issue(id, t, gone)
  <2> HIDE DEF t, gone
  <2>1. id \in PlanIDs \ DOMAIN termsBar
    BY DEF termsBar
  <2> QED
    BY <2>1, <1>1, <1>3, <1>5, <1>6, Zenon DEF OneTime!Issue, termsBar, deliveredBar
<1>8. t \in [operation : Operations, subject : Subjects]
  OBVIOUS
<1> HIDE DEF t, gone
<1> QED
  BY <1>1, <1>7, <1>8, Zenon DEF OneTime!Next

\* Consume with the right code delivers.
LEMMA DeliverRefines ==
  ASSUME StoreInv, NEW id \in PlanIDs, NEW s \in Subjects, NEW code \in Codes,
         Grant(id, s, code)
  PROVE  OneTime!Next
<1> DEFINE g == [operation |-> plans[id].operation, subject |-> s, code |-> code, at |-> now]
<1>1. id \in DOMAIN plans /\ plans[id].subject = s
  BY Zenon DEF Grant, Usable
<1>2. DOMAIN plans' = DOMAIN plans \ {id}
  BY <1>1, WithoutOK, Zenon DEF StoreInv, Save, Grant
<1>3. /\ id \in DOMAIN planned
      /\ plans[id].operation = planned[id].operation
      /\ plans[id].subject = planned[id].subject
      /\ grants[id] = <<>>
      /\ grants \in [PlanIDs -> Seq(GrantRecord)]
  BY <1>1, Zenon DEF StoreInv, StoredAsPlanned, RecordsOK
<1>4. TermsOf(g) = TermsOf(planned[id])
  BY <1>1, <1>3, ZenonT(30) DEF TermsOf
<1>5. termsBar' = termsBar /\ termsBar[id] = TermsOf(planned[id])
  BY <1>3, ZenonT(30) DEF termsBar, Grant
<1>6. grants' = [grants EXCEPT ![id] = Append(@, g)]
  BY DEF Grant
<1> HIDE DEF g
<1>7. grants'[id] = <<g>> /\ \A x \in PlanIDs \ {id} : grants'[x] = grants[x]
  <2>1. grants'[id] = Append(grants[id], g) /\ \A x \in PlanIDs \ {id} : grants'[x] = grants[x]
    BY <1>3, <1>6
  <2>2. Append(<<>>, g) = <<g>>
    OBVIOUS
  <2> QED
    BY <1>3, <2>1, <2>2, ZenonT(30)
<1>8. deliveredBar[id] = <<>>
  BY <1>3 DEF deliveredBar
<1>9. deliveredBar' = [deliveredBar EXCEPT ![id] = <<TermsOf(g)>>]
  <2>1. deliveredBar'[id] = <<TermsOf(g)>>
    BY <1>7 DEF deliveredBar
  <2>2. \A x \in PlanIDs \ {id} : deliveredBar'[x] = deliveredBar[x]
    BY <1>7, Zenon DEF deliveredBar
  <2>3. /\ deliveredBar' = [x \in PlanIDs |-> deliveredBar'[x]]
        /\ deliveredBar = [x \in PlanIDs |-> deliveredBar[x]]
    BY DEF deliveredBar
  <2> HIDE DEF deliveredBar
  <2> QED
    BY <2>1, <2>2, <2>3, Zenon
<1>10. deliveredBar' = [deliveredBar EXCEPT ![id] = Append(@, termsBar[id])]
  <2>1. Append(deliveredBar[id], termsBar[id]) = <<TermsOf(g)>>
    BY <1>4, <1>5, <1>8
  <2> QED
    BY <2>1, <1>9
<1>11. OneTime!Deliver(id)
  BY <1>1, <1>2, <1>5, <1>10, ZenonT(30) DEF OneTime!Deliver, termsBar, deliveredBar
<1> QED
  BY <1>11, Zenon DEF OneTime!Next

\* Create and Consume implement the one-time plan: every step of the store is an
\* issue, a delivery or a lapse of plans, or changes nothing a client relies on.
THEOREM Refinement == StoreSpec => ImplementsOneTimePlan
<1>1. StoreInit => OneTime!Init
  <2> SUFFICES ASSUME StoreInit PROVE OneTime!Init
    OBVIOUS
  <2>1. DOMAIN plans = {} /\ DOMAIN planned = {} /\ grants = [id \in PlanIDs |-> <<>>]
    BY DEF StoreInit
  <2>2. termsBar = [id \in {} |-> {}]
    BY <2>1 DEF termsBar
  <2>3. deliveredBar = [id \in PlanIDs |-> <<>>]
    BY <2>1 DEF deliveredBar
  <2> QED
    BY <2>1, <2>2, <2>3 DEF OneTime!Init, termsBar, deliveredBar
<1>2. StoreInv /\ [StoreNext]_storeVars => [OneTime!Next]_OneTime!planVars
  <2> SUFFICES ASSUME StoreInv, [StoreNext]_storeVars
               PROVE  OneTime!Next \/ UNCHANGED OneTime!planVars
    OBVIOUS
  <2>1. ASSUME NEW s \in Subjects, NEW op \in Operations, Create(s, op)
        PROVE  OneTime!Next \/ UNCHANGED OneTime!planVars
    <3>1. CASE CreateStores(s, op)
      BY <3>1, IssueRefines
    <3>2. CASE CreateRefused(s, op)
      <4> DEFINE gone == {id \in DOMAIN plans : Expired(id)}
      <4>1. /\ Save(Without(gone)) /\ gone \subseteq DOMAIN plans
            /\ planned' = planned /\ grants' = grants
        BY <3>2 DEF CreateRefused, prune, history
      <4> HIDE DEF gone
      <4> QED
        BY <4>1, LapseRefines
    <3>3. CASE CreateFails(s)
      BY <3>3, StutterRefines, Zenon DEF CreateFails, store, history
    <3> QED
      BY <2>1, <3>1, <3>2, <3>3 DEF Create
  <2>2. ASSUME NEW id \in PlanIDs, NEW s \in Subjects,
               NEW code \in Codes \cup {NoCode, BadCode}, Consume(id, s, code)
        PROVE  OneTime!Next \/ UNCHANGED OneTime!planVars
    <3>1. CASE RejectCode(s, code)
      BY <3>1, StutterRefines DEF RejectCode, Refuse, store, history
    <3>2. CASE RejectUnknown(id, s, code)
      BY <3>2, StutterRefines DEF RejectUnknown, Refuse, store, history
    <3>3. CASE DropExpired(id, s, code)
      <4>1. /\ Save(Without({id})) /\ {id} \subseteq DOMAIN plans
            /\ planned' = planned /\ grants' = grants
        BY <3>3 DEF DropExpired, history
      <4> QED
        BY <4>1, LapseRefines
    <3>4. CASE RejectSubject(id, s, code)
      BY <3>4, StutterRefines DEF RejectSubject, Refuse, store, history
    <3>5. CASE WrongCode(id, s, code)
      <4>1. id \in DOMAIN plans /\ planned' = planned /\ grants' = grants
        BY <3>5 DEF WrongCode, Usable
      <4>2. CASE Save(Without({id}))
        BY <4>1, <4>2, LapseRefines
      <4>3. CASE plans' = [plans EXCEPT ![id].failures = plans[id].failures + 1]
        <5>1. DOMAIN plans' = DOMAIN plans
          BY <4>3
        <5> QED
          BY <5>1, <4>1, StutterRefines
      <4> QED
        BY <3>5, <4>2, <4>3 DEF WrongCode
    <3>6. CASE Grant(id, s, code)
      BY <3>6, DeliverRefines, ZenonT(30) DEF Grant
    <3> QED
      BY <2>2, <3>1, <3>2, <3>3, <3>4, <3>5, <3>6, Zenon DEF Consume
  <2>3. CASE Tick
    BY <2>3, StutterRefines DEF Tick, store, history
  <2>4. CASE UNCHANGED storeVars
    BY <2>4, StutterRefines DEF storeVars
  <2> QED
    BY <2>1, <2>2, <2>3, <2>4 DEF StoreNext
<1> QED
  BY <1>1, <1>2, StoreInvariant, PTL DEF StoreSpec, ImplementsOneTimePlan, OneTime!Spec

=============================================================================
