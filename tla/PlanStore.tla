------------------------------ MODULE PlanStore ------------------------------
(***************************************************************************)
(* The in-memory store of pending plans (internal/server/planstore.go).    *)
(*                                                                         *)
(* k8s.plan stores a reviewed operation and gets back a random plan ID and *)
(* a random six-digit confirmation code.  k8s.commit hands the ID and the  *)
(* code back and receives the operation, once.  Create and Consume run     *)
(* under the store's mutex, so each is one step here.  The clock advances  *)
(* between steps; Create reads it twice under the lock, which the model    *)
(* takes as one instant.                                                   *)
(***************************************************************************)
EXTENDS Charges, Sequences

CONSTANTS
  PlanIDs,          \* identifiers randomPlanID may draw
  Subjects,         \* values of Principal.SubjectKey
  Operations,       \* operations that can be planned
  RemoteOps,        \* those whose action is exec or attach
  NoOp,             \* the zero Operation an unsuccessful call returns
  EncodedLen,       \* EncodedLen[op]: bytes of the operation's JSON encoding
  Codes,            \* well-formed six-digit confirmation codes
  NoCode,           \* the empty confirmation code
  BadCode,          \* a code that is not six digits
  Capacity,         \* NewPlanStore's capacity
  MaxBytes,         \* planStoreMaxBytes
  MaxSubjectBytes,  \* planStoreSubjectMaxBytes
  PlanTTL,          \* planTTL
  MaxAttempts,      \* confirmationMaxAttempts
  MaxTime           \* bound: the clock stops here

ASSUME StoreAssumption ==
  /\ RemoteOps \subseteq Operations
  /\ NoOp \notin Operations
  /\ EncodedLen \in [Operations -> Nat \ {0}]
  /\ NoCode \notin Codes
  /\ BadCode \notin Codes
  /\ Capacity \in Nat
  /\ MaxBytes \in Nat
  /\ MaxSubjectBytes \in Nat
  /\ PlanTTL \in Nat
  /\ MaxAttempts \in Nat \ {0}
  /\ MaxTime \in Nat

VARIABLES
  plans,         \* PlanStore.plans: a function on the stored IDs
  usedBytes,     \* PlanStore.usedBytes
  subjectBytes,  \* PlanStore.subjectBytes: a function on the charged subjects
  now,           \* time.Now()
  reply,         \* what the last call returned to its caller
  planned,       \* history: every plan ever returned by Create, as created
  wrong,         \* history: wrong codes its owner offered for each plan
  grants         \* history: the calls to which Consume returned each plan's operation

store == <<plans, usedBytes, subjectBytes>>
history == <<planned, wrong, grants>>
storeVars == <<plans, usedBytes, subjectBytes, now, reply, planned, wrong, grants>>

-----------------------------------------------------------------------------
(* Types and pure helpers.                                                 *)

SizeSafetyFactor == 4

SizeOf(op) == EncodedLen[op] * SizeSafetyFactor

\* confirmationHash digests the ID and the code together; SHA-256 is taken to
\* be collision free, so the digest is the pair.
confirmationHash(id, code) == <<id, code>>

StoredPlan ==
  [operation : Operations, subject : Subjects, expiresAt : Nat, size : Nat \ {0},
   hash : PlanIDs \X Codes, failures : Nat]

PlanRecord == [operation : Operations, subject : Subjects, code : Codes, expiresAt : Nat]

GrantRecord == [operation : Operations, subject : Subjects, code : Codes, at : Nat]

Outcomes ==
  {"none", "planned", "plan_error", "plan_capacity", "confirmation_required",
   "invalid_confirmation", "invalid_plan", "expired_plan", "identity_mismatch",
   "confirmation_locked", "granted"}

Reply(outcome, s, op) == [outcome |-> outcome, subject |-> s, operation |-> op]

Put(f, k, v) == [x \in DOMAIN f \cup {k} |-> IF x = k THEN v ELSE f[x]]

MaxOf(a, b) == IF a >= b THEN a ELSE b

OwnedBy(ps, s) == {id \in DOMAIN ps : ps[id].subject = s}

ChargedTo(charges, s) == IF s \in DOMAIN charges THEN charges[s] ELSE 0

Expired(id) == now > plans[id].expiresAt

\* Faulty variant: the global byte count is not given back.
WithoutKeepsUsed(ids) ==
  LET left(s) == subjectBytes[s] - Bytes(plans, OwnedBy(plans, s) \cap ids)
      charged == {s \in DOMAIN subjectBytes : left(s) > 0}
  IN  [plans |-> [id \in DOMAIN plans \ ids |-> plans[id]],
       used |-> usedBytes,
       charges |-> [s \in charged |-> left(s)]]

\* The store after delete(id, plan) has run for every id of ids: a subject's
\* charge is dropped from the map when nothing is left of it.
Without(ids) ==
  LET left(s) == subjectBytes[s] - Bytes(plans, OwnedBy(plans, s) \cap ids)
      charged == {s \in DOMAIN subjectBytes : left(s) > 0}
  IN  [plans |-> [id \in DOMAIN plans \ ids |-> plans[id]],
       used |-> usedBytes - Bytes(plans, ids),
       charges |-> [s \in charged |-> left(s)]]

\* Faulty variant: Create does not prune.
pruneNothing == Without({})

prune == Without({id \in DOMAIN plans : Expired(id)})

\* Create's three admission tests, on the pruned store.
Fits(st, s, size) ==
  LET subjectLimit == MaxOf(MaxSubjectBytes, size)
  IN  /\ Cardinality(DOMAIN st.plans) < Capacity
      /\ size <= MaxBytes
      /\ st.used <= MaxBytes - size
      /\ ChargedTo(st.charges, s) <= subjectLimit - size

isRemote(id, s) ==
  /\ id \in DOMAIN plans
  /\ plans[id].subject = s
  /\ plans[id].operation \in RemoteOps

-----------------------------------------------------------------------------
(* Actions.                                                                *)

StoreInit ==
  /\ plans = [id \in {} |-> {}]
  /\ usedBytes = 0
  /\ subjectBytes = [s \in {} |-> 0]
  /\ now = 0
  /\ reply \in {Reply("none", s, NoOp) : s \in Subjects}
  /\ planned = [id \in {} |-> {}]
  /\ wrong = [id \in PlanIDs |-> 0]
  /\ grants = [id \in PlanIDs |-> <<>>]

Save(st) ==
  /\ plans' = st.plans
  /\ usedBytes' = st.used
  /\ subjectBytes' = st.charges

\* json.Marshal or the random source fails before the lock is taken.
CreateFails(s) ==
  /\ reply' = Reply("plan_error", s, NoOp)
  /\ UNCHANGED <<store, now, history>>

CreateStores(s, op) ==
  /\ Fits(prune, s, SizeOf(op))
  /\ \E id \in PlanIDs \ DOMAIN planned, code \in Codes :
       LET plan == [operation |-> op, subject |-> s, expiresAt |-> now + PlanTTL,
                    size |-> SizeOf(op), hash |-> confirmationHash(id, code),
                    failures |-> 0]
       IN  /\ Save([plans |-> Put(prune.plans, id, plan),
                    used |-> prune.used + plan.size,
                    charges |-> Put(prune.charges, s,
                                    ChargedTo(prune.charges, s) + plan.size)])
           /\ planned' = Put(planned, id, [operation |-> op, subject |-> s, code |-> code,
                                           expiresAt |-> plan.expiresAt])
  /\ reply' = Reply("planned", s, op)
  /\ UNCHANGED <<now, wrong, grants>>

CreateRefused(s, op) ==
  /\ ~Fits(prune, s, SizeOf(op))
  /\ Save(prune)
  /\ reply' = Reply("plan_capacity", s, op)
  /\ UNCHANGED <<now, history>>

Create(s, op) == CreateStores(s, op) \/ CreateRefused(s, op) \/ CreateFails(s)

Refuse(s, outcome) ==
  /\ reply' = Reply(outcome, s, NoOp)
  /\ UNCHANGED <<store, now, history>>

\* The two tests Consume makes before it takes the lock.
RejectCode(s, code) ==
  \/ code = NoCode /\ Refuse(s, "confirmation_required")
  \/ code = BadCode /\ Refuse(s, "invalid_confirmation")

RejectUnknown(id, s, code) ==
  /\ code \in Codes
  /\ id \notin DOMAIN plans
  /\ Refuse(s, "invalid_plan")

DropExpired(id, s, code) ==
  /\ code \in Codes
  /\ id \in DOMAIN plans
  /\ Expired(id)
  /\ Save(Without({id}))
  /\ reply' = Reply("expired_plan", s, NoOp)
  /\ UNCHANGED <<now, history>>

\* Faulty variant: a call by another identity burns the plan.
RejectSubjectBurns(id, s, code) ==
  /\ code \in Codes
  /\ id \in DOMAIN plans
  /\ ~Expired(id)
  /\ plans[id].subject # s
  /\ Save(Without({id}))
  /\ reply' = Reply("identity_mismatch", s, NoOp)
  /\ UNCHANGED <<now, history>>

RejectSubject(id, s, code) ==
  /\ code \in Codes
  /\ id \in DOMAIN plans
  /\ ~Expired(id)
  /\ plans[id].subject # s
  /\ Refuse(s, "identity_mismatch")

\* The plan exists, is in time and belongs to the caller: the code decides.
Usable(id, s) ==
  /\ id \in DOMAIN plans
  /\ ~Expired(id)
  /\ plans[id].subject = s

\* Faulty variant: the plan is locked one attempt too late.
WrongCodeOneMore(id, s, code) ==
  /\ code \in Codes
  /\ Usable(id, s)
  /\ plans[id].hash # confirmationHash(id, code)
  /\ LET failures == plans[id].failures + 1
     IN  \/ /\ failures > MaxAttempts
            /\ Save(Without({id}))
            /\ reply' = Reply("confirmation_locked", s, NoOp)
         \/ /\ failures <= MaxAttempts
            /\ plans' = [plans EXCEPT ![id].failures = failures]
            /\ UNCHANGED <<usedBytes, subjectBytes>>
            /\ reply' = Reply("invalid_confirmation", s, NoOp)
  /\ wrong' = [wrong EXCEPT ![id] = @ + 1]
  /\ UNCHANGED <<now, planned, grants>>

WrongCode(id, s, code) ==
  /\ code \in Codes
  /\ Usable(id, s)
  /\ plans[id].hash # confirmationHash(id, code)
  /\ LET failures == plans[id].failures + 1
     IN  \/ /\ failures >= MaxAttempts
            /\ Save(Without({id}))
            /\ reply' = Reply("confirmation_locked", s, NoOp)
         \/ /\ failures < MaxAttempts
            /\ plans' = [plans EXCEPT ![id].failures = failures]
            /\ UNCHANGED <<usedBytes, subjectBytes>>
            /\ reply' = Reply("invalid_confirmation", s, NoOp)
  /\ wrong' = [wrong EXCEPT ![id] = @ + 1]
  /\ UNCHANGED <<now, planned, grants>>

\* Faulty variant: the plan stays in the store after it was handed out.
GrantKeepsPlan(id, s, code) ==
  /\ code \in Codes
  /\ Usable(id, s)
  /\ plans[id].hash = confirmationHash(id, code)
  /\ UNCHANGED store
  /\ reply' = Reply("granted", s, plans[id].operation)
  /\ grants' = [grants EXCEPT ![id] =
                 Append(@, [operation |-> plans[id].operation, subject |-> s,
                            code |-> code, at |-> now])]
  /\ UNCHANGED <<now, planned, wrong>>

Grant(id, s, code) ==
  /\ code \in Codes
  /\ Usable(id, s)
  /\ plans[id].hash = confirmationHash(id, code)
  /\ Save(Without({id}))
  /\ reply' = Reply("granted", s, plans[id].operation)
  /\ grants' = [grants EXCEPT ![id] =
                 Append(@, [operation |-> plans[id].operation, subject |-> s,
                            code |-> code, at |-> now])]
  /\ UNCHANGED <<now, planned, wrong>>

Consume(id, s, code) ==
  \/ RejectCode(s, code)
  \/ RejectUnknown(id, s, code)
  \/ DropExpired(id, s, code)
  \/ RejectSubject(id, s, code)
  \/ WrongCode(id, s, code)
  \/ Grant(id, s, code)

Tick ==
  /\ now < MaxTime
  /\ now' = now + 1
  /\ UNCHANGED <<store, reply, history>>

StoreNext ==
  \/ \E s \in Subjects, op \in Operations : Create(s, op)
  \/ \E id \in PlanIDs, s \in Subjects, code \in Codes \cup {NoCode, BadCode} :
       Consume(id, s, code)
  \/ Tick

StoreSpec == StoreInit /\ [][StoreNext]_storeVars

-----------------------------------------------------------------------------
(* Properties.                                                             *)

\* The shape of the store (storedPlan, PlanStore): a plan's digest is for its
\* own ID, and a subject is in subjectBytes only with a positive charge.
StoreTypeOK ==
  /\ DOMAIN plans \subseteq PlanIDs
  /\ \A id \in DOMAIN plans : plans[id] \in StoredPlan
  /\ usedBytes \in Nat
  /\ DOMAIN subjectBytes \subseteq Subjects
  /\ \A s \in DOMAIN subjectBytes : subjectBytes[s] \in Nat \ {0}
  /\ now \in 0 .. MaxTime
  /\ reply \in [outcome : Outcomes, subject : Subjects, operation : Operations \cup {NoOp}]
  /\ DOMAIN planned \subseteq PlanIDs
  /\ \A id \in DOMAIN planned : planned[id] \in PlanRecord
  /\ wrong \in [PlanIDs -> Nat]
  /\ grants \in [PlanIDs -> Seq(GrantRecord)]

\* Whatever sequence of Create, Consume, lockout, expiry and pruning has run,
\* usedBytes is exactly the bytes of the stored plans and subjectBytes holds
\* exactly the subjects with stored plans, each with the bytes of its own
\* plans.  The counters are kept incrementally by Create and delete.
Accounting ==
  /\ usedBytes = Bytes(plans, DOMAIN plans)
  /\ DOMAIN subjectBytes = {plans[id].subject : id \in DOMAIN plans}
  /\ \A s \in DOMAIN subjectBytes : subjectBytes[s] = Bytes(plans, OwnedBy(plans, s))

\* The bounds Create enforces: entries and bytes overall, and bytes per
\* subject.  A subject is over its share only through one plan that is larger
\* than the share, and then has no other.
Budgets ==
  /\ Cardinality(DOMAIN plans) <= Capacity
  /\ usedBytes <= MaxBytes
  /\ \A s \in Subjects :
       \/ Bytes(plans, OwnedBy(plans, s)) <= MaxSubjectBytes
       \/ Cardinality(OwnedBy(plans, s)) = 1

\* The store is well-formed, and Create and delete keep its counters exact and
\* its contents within the budgets.
BytesKept == StoreTypeOK /\ Accounting /\ Budgets

\* A stored plan is still the one Create returned, has counted every wrong code
\* offered for it, can take at least one more, and was never handed out; an
\* identifier Create has not returned has no history.
StoredAsPlanned ==
  /\ \A id \in DOMAIN plans :
       /\ id \in DOMAIN planned
       /\ plans[id].operation = planned[id].operation
       /\ plans[id].subject = planned[id].subject
       /\ plans[id].expiresAt = planned[id].expiresAt
       /\ plans[id].hash = confirmationHash(id, planned[id].code)
       /\ plans[id].failures = wrong[id]
       /\ plans[id].failures < MaxAttempts
       /\ grants[id] = <<>>
  /\ \A id \in PlanIDs \ DOMAIN planned : wrong[id] = 0 /\ grants[id] = <<>>

\* Consume hands out an operation at most once, and a plan that was handed out
\* is no longer stored.
HandedOutOnce ==
  \A id \in PlanIDs :
    /\ Len(grants[id]) <= 1
    /\ Len(grants[id]) = 1 => id \notin DOMAIN plans

\* What Consume hands out is the operation that was planned under that ID, to
\* the identity that planned it, against the code Create returned with it, and
\* not after the plan's expiry.
HandedOutAsPlanned ==
  \A id \in PlanIDs : \A i \in DOMAIN grants[id] :
    /\ id \in DOMAIN planned
    /\ grants[id][i].operation = planned[id].operation
    /\ grants[id][i].subject = planned[id].subject
    /\ grants[id][i].code = planned[id].code
    /\ grants[id][i].at <= planned[id].expiresAt

\* confirmationMaxAttempts wrong codes end a plan: it is gone at the last one,
\* whatever calls are interleaved, and was never handed out.
Lockout ==
  \A id \in PlanIDs :
    /\ wrong[id] <= MaxAttempts
    /\ wrong[id] = MaxAttempts => id \notin DOMAIN plans /\ grants[id] = <<>>

\* What Consume promises: an operation comes out at most once, as planned, and
\* not after too many wrong codes.
Delivery == StoredAsPlanned /\ HandedOutOnce /\ HandedOutAsPlanned /\ Lockout

\* A stored plan changes or disappears only because its time is over or because
\* its own owner offered a code for it; calls by other identities, malformed
\* codes and refused Creates never cost an owner an attempt or the plan.
OnlyOwnerOrTime ==
  [][\A id \in DOMAIN plans :
       \/ id \in DOMAIN plans' /\ plans'[id] = plans[id]
       \/ Expired(id)
       \/ reply'.subject = plans[id].subject
            /\ reply'.outcome \in {"granted", "confirmation_locked", "invalid_confirmation"}]_storeVars

\* Create refuses only when the plans that are still in time leave no room:
\* expired plans that nobody consumed never hold capacity.
RefusedOnlyWhenFull ==
  [][reply' # reply /\ reply'.outcome = "plan_capacity" =>
       LET live == {id \in DOMAIN plans : ~Expired(id)}
           s == reply'.subject
           size == SizeOf(reply'.operation)
       IN  \/ Cardinality(live) >= Capacity
           \/ Bytes(plans, live) + size > MaxBytes
           \/ Bytes(plans, live \cap OwnedBy(plans, s)) + size > MaxOf(MaxSubjectBytes, size)]_storeVars

-----------------------------------------------------------------------------
(* The store implements OneTimePlan.                                       *)

TermsOf(p) == [operation |-> p.operation, subject |-> p.subject]

OneTime ==
  INSTANCE OneTimePlan
  WITH Terms <- [operation : Operations, subject : Subjects],
       pending <- DOMAIN plans,
       terms <- [id \in DOMAIN planned |-> TermsOf(planned[id])],
       delivered <- [id \in PlanIDs |->
                       [i \in DOMAIN grants[id] |-> TermsOf(grants[id][i])]]

\* Create and Consume implement the one-time plan: fresh identifiers, at most
\* one delivery, on the terms that were planned, and no plan ever revived.
ImplementsOneTimePlan == OneTime!Spec

=============================================================================
