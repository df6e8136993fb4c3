-------------------------- MODULE PlanCommitProofs --------------------------
(***************************************************************************)
(* Proofs about PlanCommit for every number of requests, subjects, plans,  *)
(* objects and configurations: what a committed plan does to the cluster,  *)
(* for whom, and with which stream slots.                                  *)
(***************************************************************************)
EXTENDS HandlerProofs, PlanStoreProofs

\* The provers for leaves that name none, in the order they are tried.
USE SMTT(20), Z3T(30), Zenon

-----------------------------------------------------------------------------
(* What a step of the plan store does for the handlers.                    *)

\* Create adds a plan under a new identifier, or none.
LEMMA CreateFrame ==
  ASSUME StoreInv, NEW s \in Subjects, NEW op \in Operations, Create(s, op)
  PROVE  /\ StoreInv' /\ StoreFrame
         /\ \A id \in DOMAIN planned' \ DOMAIN planned : planned'[id].operation = op
<1>1. StoreInv' /\ StoreFacts'
  BY CreateInv DEF StoreInv, RecordsOK, StoreFacts
<1> DEFINE gone == {id \in DOMAIN plans : Expired(id)}
<1>2. /\ DOMAIN prune.plans = DOMAIN plans \ gone
      /\ \A id \in DOMAIN plans \ gone : prune.plans[id] = plans[id]
  BY WithoutOK DEF StoreInv, prune
<1>3. CASE CreateStores(s, op)
  <2>1. PICK new \in PlanIDs \ DOMAIN planned : \E plan, entry :
          /\ plans' = Put(prune.plans, new, plan)
          /\ planned' = Put(planned, new, entry)
          /\ entry.operation = op
    BY <1>3 DEF CreateStores, Save
  <2>2. /\ DOMAIN planned' = DOMAIN planned \cup {new}
        /\ planned'[new].operation = op
        /\ \A id \in DOMAIN planned : id # new /\ planned'[id] = planned[id]
        /\ DOMAIN plans' = (DOMAIN plans \ gone) \cup {new}
    BY <2>1, <1>2 DEF Put
  <2>3. grants' = grants
    BY <1>3 DEF CreateStores
  <2> QED
    BY <1>1, <2>1, <2>2, <2>3, Zenon DEF StoreFrame
<1>4. CASE CreateRefused(s, op)
  <2>1. DOMAIN plans' = DOMAIN plans \ gone
    BY <1>2, <1>4 DEF CreateRefused, Save
  <2>2. planned' = planned /\ grants' = grants
    BY <1>4 DEF CreateRefused, history
  <2> QED
    BY <1>1, <2>1, <2>2 DEF StoreFrame
<1>5. CASE CreateFails(s)
  <2>1. plans' = plans /\ planned' = planned /\ grants' = grants
    BY <1>5 DEF CreateFails, history, store
  <2> QED
    BY <1>1, <2>1 DEF StoreFrame
<1> QED
  BY <1>3, <1>4, <1>5 DEF Create

\* Consume plans nothing, and answers "granted" only with a stored plan of the
\* caller that was never handed out before.
LEMMA ConsumeFrame ==
  ASSUME StoreInv, NEW id \in PlanIDs, NEW s \in Subjects,
         NEW code \in Codes \cup {NoCode, BadCode}, Consume(id, s, code)
  PROVE  /\ StoreInv' /\ StoreFrame
         /\ planned' = planned
         /\ reply'.outcome = "granted" =>
              /\ code \in Codes
              /\ id \in DOMAIN plans
              /\ plans[id].subject = s
              /\ grants[id] = <<>>
              /\ grants'[id] # <<>>
              /\ reply'.operation = planned[id].operation
<1>1. StoreInv' /\ StoreFacts'
  BY ConsumeInv DEF StoreInv, RecordsOK, StoreFacts
<1>2. CASE RejectCode(s, code) \/ RejectUnknown(id, s, code) \/ RejectSubject(id, s, code)
  <2>1. reply'.outcome # "granted"
    BY <1>2 DEF RejectCode, RejectUnknown, RejectSubject, Refuse, Reply
  <2>2. UNCHANGED <<store, history>>
    BY <1>2 DEF RejectCode, RejectUnknown, RejectSubject, Refuse
  <2> QED
    BY <1>1, <2>1, <2>2 DEF StoreFrame, store, history
<1>3. CASE DropExpired(id, s, code)
  <2>1. reply'.outcome # "granted" /\ UNCHANGED history
    BY <1>3, Zenon DEF DropExpired, Reply
  <2>2. DOMAIN plans' = DOMAIN plans \ {id}
    BY <1>3, WithoutOK DEF DropExpired, Save, StoreInv
  <2> QED
    BY <1>1, <2>1, <2>2, Zenon DEF StoreFrame, history
<1>4. CASE WrongCode(id, s, code)
  <2>1. reply'.outcome # "granted" /\ planned' = planned /\ grants' = grants
    BY <1>4 DEF WrongCode, Reply
  <2>2. id \in DOMAIN plans
    BY <1>4 DEF WrongCode, Usable
  <2>3. DOMAIN Without({id}).plans = DOMAIN plans \ {id}
    BY <2>2, WithoutOK DEF StoreInv
  <2>4. DOMAIN plans' \subseteq DOMAIN plans
    BY <1>4, <2>3 DEF WrongCode, Save
  <2> QED
    BY <1>1, <2>1, <2>4, Zenon DEF StoreFrame
<1>5. CASE Grant(id, s, code)
  <2>1. /\ code \in Codes /\ id \in DOMAIN plans /\ plans[id].subject = s
        /\ planned' = planned
        /\ reply'.operation = plans[id].operation
    BY <1>5 DEF Grant, Usable, Reply
  <2>2. grants[id] = <<>> /\ plans[id].operation = planned[id].operation
    BY <2>1 DEF StoreInv, StoredAsPlanned
  <2>3. DOMAIN plans' = DOMAIN plans \ {id}
    BY <1>5, <2>1, WithoutOK, ZenonT(30) DEF Grant, Save, StoreInv
  <2>4. PICK g : grants' = [grants EXCEPT ![id] = Append(@, g)]
    BY <1>5, Zenon DEF Grant
  <2>5. grants \in [PlanIDs -> Seq(GrantRecord)]
    BY DEF StoreInv, RecordsOK
  <2>6. grants'[id] = <<g>> /\ \A x \in PlanIDs : x # id => grants'[x] = grants[x]
    BY <2>2, <2>4, <2>5
  <2> QED
    BY <1>1, <2>1, <2>2, <2>3, <2>6 DEF StoreFrame
<1> QED
  BY <1>2, <1>3, <1>4, <1>5, Zenon DEF Consume

\* NewApp's empty store.
LEMMA RestartStore ==
  ASSUME StoreInv, Restart
  PROVE  StoreInv'
<1> DEFINE st == [plans |-> [id \in {} |-> {}], used |-> 0, charges |-> [s \in {} |-> 0]]
<1>1. IsFiniteSet({}) /\ Cardinality({}) = 0
  BY FS_EmptySet
<1>2. DOMAIN st.plans = {} /\ DOMAIN st.charges = {} /\ st.used = 0
  OBVIOUS
<1>3. Save(st) /\ UNCHANGED <<now, reply, history>>
  BY DEF Restart
<1> HIDE DEF st
<1>4. \A ps : Cells(ps, {}) = {}
  BY DEF Cells
<1>5. \A ps : Bytes(ps, {}) = 0
  BY <1>1, <1>4 DEF Bytes
<1>6. \A s : OwnedBy(st.plans, s) = {}
  BY <1>2 DEF OwnedBy
<1>7. PlansOK(st.plans)
  BY <1>1, <1>2 DEF PlansOK
<1>8. Balanced(st.plans, st.used, st.charges)
  BY <1>2, <1>5 DEF Balanced
<1>9. InBudget(st.plans, st.used)
  BY <1>1, <1>2, <1>5, <1>6, StoreAssumption DEF InBudget
<1>10. StoreOK(Current)'
  BY <1>3, <1>7, <1>8, <1>9, SaveOK, Zenon DEF StoreOK
<1>11. DOMAIN plans' = {} /\ planned' = planned /\ grants' = grants /\ wrong' = wrong
  BY <1>2, <1>3 DEF Save, history
<1>12. RecordsOK'
  BY <1>3, <1>11 DEF StoreInv, RecordsOK, history
<1>13. StoredAsPlanned'
  BY <1>11 DEF StoreInv, StoredAsPlanned
<1>14. HandedOutAsPlanned' /\ Closed'
  BY <1>11, ZenonT(30) DEF StoreInv, HandedOutAsPlanned, Closed
<1> QED
  BY <1>10, <1>12, <1>13, <1>14, Zenon DEF StoreInv

-----------------------------------------------------------------------------
(* The API server and the environment.                                     *)

\* Whoever writes to the cluster issues a new resourceVersion, so that no reviewed
\* operation comes to fit an object that was not reviewed.
LEMMA ClusterStep ==
  ASSUME CommitInv,
         revision' = revision \/ revision' = revision + 1,
         \A n \in Names : \/ cluster'[n] = cluster[n]
                          \/ cluster'[n] = Absent
                          \/ cluster'[n].rv = revision + 1 /\ revision' = revision + 1,
         UNCHANGED <<req, planned>>
  PROVE  Reviewed'
<1>1. revision \in Nat
  BY CommitAssumption DEF CommitInv, TypeOK
<1>2. ASSUME NEW op \in PlannedOps, OnTarget(op)
      PROVE  OnTarget(op)'
  <2>1. op.name \in Names
    BY DEF PlannedOps
  <2>2. CASE op.kind = "create"
    BY <1>2, <2>2 DEF OnTarget
  <2>3. CASE op.kind # "create"
    BY <1>1, <1>2, <2>1, <2>3 DEF OnTarget
  <2> QED
    BY <2>2, <2>3
<1>3. \A id \in DOMAIN planned : planned[id].operation \in PlannedOps
  BY CommitAssumption, Zenon DEF CommitInv, StoreFacts, PlanRecord
<1>4. \A r \in Requests : req[r].at = "store" => req[r].op \in PlannedOps
  BY CallShape, Zenon DEF CommitInv, PlanCalls
<1>5. \A n \in Names : cluster[n] # Absent => cluster[n].rv \in Nat
  <2>1. \A n \in Names : cluster[n] # Absent => cluster[n] \in Object
    BY Zenon DEF CommitInv, TypeOK
  <2> QED
    BY <2>1, CommitAssumption DEF Object
<1>6. \A n \in Names : cluster'[n] # Absent => cluster'[n].rv <= revision'
  BY <1>1, <1>5 DEF CommitInv, Reviewed
<1> QED
  BY <1>2, <1>3, <1>4, <1>6, Zenon DEF CommitInv, Reviewed

\* An accepted write hits the object its plan was reviewed on.
LEMMA HitsReviewed ==
  ASSUME CommitInv, NEW w \in inflight, Accepts(w, cluster[w.op.name])
  PROVE  LET op == planned[w.id].operation
             obj == cluster[w.op.name]
         IN  /\ w.op.name \in Names /\ w.op.kind = op.kind /\ w.op.kind \in Kinds
             /\ w.op.payload \in Contents
             /\ op.kind = "create" => obj = Absent
             /\ op.kind # "create" => obj # Absent
             /\ op.kind \in {"modify", "delete"} =>
                  obj.uid = op.uid /\ obj.rv = op.rv /\ ~obj.managed
             /\ Mode = "SafeWrite" => <<ContentOf(obj), op.payload>> \in SafeChange
<1> DEFINE op == planned[w.id].operation
           obj == cluster[w.op.name]
<1>1. w.id \in DOMAIN planned /\ w.op = Wire(op)
  BY DEF CommitInv, AsPlanned
<1>2. op \in PlannedOps /\ OnTarget(op)
  BY <1>1, CommitAssumption, Zenon DEF CommitInv, Reviewed, StoreFacts, PlanRecord
<1> HIDE DEF op
<1>3. /\ w.op.kind = op.kind /\ w.op.name = op.name /\ w.op.payload = op.payload
      /\ w.op.rv = SentVersion(op)
  BY <1>1, <1>2, WireShape
<1>4. op.kind \in Kinds /\ op.name \in Names /\ op.payload \in Contents
  BY <1>2 DEF PlannedOps
<1>5. (op.kind = "create") = (obj = Absent)
  BY <1>3, Zenon DEF Accepts
<1>6. ASSUME op.kind \in {"modify", "delete"}
      PROVE  /\ obj.uid = op.uid /\ obj.rv = op.rv /\ ~obj.managed
             /\ Mode = "SafeWrite" => <<obj.content, op.payload>> \in SafeChange
  <2>1. obj # Absent /\ w.op.rv \in {0, obj.rv}
    BY <1>5, <1>6, Zenon DEF Accepts
  <2>2. op.rv \in 1 .. revision /\ w.op.rv = op.rv
    BY <1>2, <1>3, <1>6 DEF OnTarget, SentVersion
  <2>3. revision \in Nat
    BY CommitAssumption DEF CommitInv, TypeOK
  <2>4. obj.rv = op.rv
    BY <2>1, <2>2, <2>3
  <2> QED
    BY <1>2, <1>3, <1>6, <2>1, <2>4, Zenon DEF OnTarget
<1>7. Mode = "SafeWrite" => <<ContentOf(obj), op.payload>> \in SafeChange
  <2>1. Mode = "SafeWrite" => op.kind \in {"create", "modify"}
    BY <1>4 DEF Kinds
  <2>2. CASE op.kind = "create"
    BY <1>2, <1>5, <2>2, Zenon DEF OnTarget, ContentOf
  <2>3. CASE op.kind = "modify"
    BY <1>5, <1>6, <2>3, Zenon DEF ContentOf
  <2> QED
    BY <2>1, <2>2, <2>3, Zenon
<1> QED
  BY <1>3, <1>4, <1>5, <1>6, <1>7, Zenon DEF op

\* The API server applies a write: the plan is spent for good.
LEMMA APIWriteInv ==
  ASSUME CommitInv, NEW w \in inflight, APIWrite(w)
  PROVE  CommitInv'
<1> DEFINE obj == cluster[w.op.name]
           op == planned[w.id].operation
           kind == w.op.kind
<1>1. /\ Accepts(w, obj)
      /\ kind = "remote" \/ revision < MaxRevision
      /\ cluster' = [cluster EXCEPT ![w.op.name] = Written(w, obj)]
      /\ revision' = IF kind = "remote" THEN revision ELSE revision + 1
      /\ inflight' = inflight \ {w}
      /\ applied' = [applied EXCEPT ![w.id] = Append(@, obj)]
      /\ UNCHANGED <<storeVars, streams, req, generation, allowed>>
  BY Zenon DEF APIWrite
<1>2. /\ w.op.name \in Names /\ kind = op.kind /\ kind \in Kinds /\ w.op.payload \in Contents
      /\ op.kind = "create" => obj = Absent
      /\ op.kind # "create" => obj # Absent
      /\ op.kind \in {"modify", "delete"} => obj.uid = op.uid /\ obj.rv = op.rv /\ ~obj.managed
      /\ Mode = "SafeWrite" => <<ContentOf(obj), op.payload>> \in SafeChange
  BY <1>1, HitsReviewed, Zenon
<1>3. /\ w.id \in PlanIDs /\ obj \in Object \cup {Absent}
      /\ cluster \in [Names -> Object \cup {Absent}] /\ revision \in 0 .. MaxRevision
      /\ applied \in [PlanIDs -> Seq(Object \cup {Absent})]
  BY <1>2, Zenon DEF CommitInv, TypeOK
<1>4. /\ grants[w.id] # <<>> /\ applied[w.id] = <<>>
      /\ \A v \in inflight : v.id = w.id => v = w
      /\ \A r \in Requests : req[r].at \in Holding => req[r].id # w.id
  BY DEF CommitInv, InOnePlace
<1>5. /\ plans' = plans /\ planned' = planned /\ grants' = grants /\ req' = req
      /\ streams' = streams /\ allowed' = allowed /\ generation' = generation
  BY <1>1 DEF storeVars
<1>6. StoreFrame
  BY <1>1, UnchangedFrame, Zenon
<1>7. /\ Written(w, obj) \in Object \cup {Absent}
      /\ \/ Written(w, obj) = Absent /\ kind # "remote"
         \/ Written(w, obj).rv = revision + 1 /\ kind # "remote"
         \/ Written(w, obj) = obj
  <2>1. kind \in {"create", "modify", "delete", "remote"} /\ MaxRevision \in Nat
    BY <1>2, CommitAssumption, ZenonT(30) DEF Kinds
  <2> HIDE DEF obj, kind
  <2>2. CASE kind = "create"
    <3>1. revision + 1 \in 1 .. MaxRevision
      BY <1>1, <1>3, <2>1, <2>2
    <3>2. Written(w, obj) = [uid |-> revision + 1, rv |-> revision + 1, managed |-> FALSE,
                             content |-> w.op.payload]
      BY <2>2 DEF Written, kind
    <3> QED
      BY <1>2, <2>2, <3>1, <3>2 DEF Object
  <2>3. CASE kind = "modify"
    <3>1. revision + 1 \in 1 .. MaxRevision /\ obj \in Object
      BY <1>1, <1>2, <1>3, <2>1, <2>3
    <3>2. Written(w, obj) = [obj EXCEPT !.rv = revision + 1, !.content = w.op.payload]
      BY <2>3 DEF Written, kind
    <3> QED
      BY <1>2, <2>3, <3>1, <3>2, ZenonT(30) DEF Object
  <2>4. CASE kind = "delete"
    BY <2>4 DEF Written, kind
  <2>5. CASE kind = "remote"
    BY <1>3, <2>5, Zenon DEF Written, kind
  <2> QED
    BY <2>1, <2>2, <2>3, <2>4, <2>5, Zenon
<1> HIDE DEF obj, op
<1>8. TypeOK'
  <2>1. cluster' \in [Names -> Object \cup {Absent}] /\ revision' \in 0 .. MaxRevision
    BY <1>1, <1>2, <1>3, <1>7, CommitAssumption
  <2>2. applied' \in [PlanIDs -> Seq(Object \cup {Absent})]
    BY <1>1, <1>3
  <2> QED
    BY <1>1, <1>5, <2>1, <2>2, ZenonT(30) DEF CommitInv, TypeOK
<1>9. Reviewed'
  <2>1. \A n \in Names : \/ cluster'[n] = cluster[n]
                         \/ cluster'[n] = Absent
                         \/ cluster'[n].rv = revision + 1 /\ revision' = revision + 1
    BY <1>1, <1>2, <1>3, <1>7, ZenonT(30) DEF obj
  <2> QED
    BY <1>1, <1>5, <2>1, ClusterStep, Zenon
<1>10. applied'[w.id] = <<obj>> /\ \A id \in PlanIDs : id # w.id => applied'[id] = applied[id]
  BY <1>1, <1>3, <1>4
<1>11. InOnePlace'
  BY <1>1, <1>4, <1>5, <1>10 DEF CommitInv, InOnePlace, Held
<1>12. AsPlanned'
  BY <1>1, <1>5, ZenonT(30) DEF CommitInv, AsPlanned, Committing
<1>13. HitAsReviewed'
  <2>1. ASSUME NEW id \in PlanIDs, NEW i \in DOMAIN applied'[id], id # w.id
        PROVE  i \in DOMAIN applied[id] /\ applied'[id][i] = applied[id][i]
    BY <1>10, <2>1
  <2>2. \A i \in DOMAIN applied'[w.id] : applied'[w.id][i] = obj
    BY <1>10
  <2> QED
    BY <1>2, <1>5, <2>1, <2>2 DEF CommitInv, HitAsReviewed, op
<1>14. Permitted' /\ SlotsHeld'
  BY <1>5 DEF CommitInv, Permitted, SlotsHeld, Committing, isRemote
<1> QED
  BY <1>6, <1>8, <1>9, <1>11, <1>12, <1>13, <1>14, ZenonT(30) DEF CommitInv, StoreFrame

\* The API server refuses a write.
LEMMA APIRejectInv ==
  ASSUME CommitInv, NEW w \in inflight, APIReject(w)
  PROVE  CommitInv'
<1>1. /\ inflight' = inflight \ {w}
      /\ UNCHANGED <<storeVars, streams, req, generation, clusterVars, applied>>
  BY DEF APIReject
<1>2. /\ plans' = plans /\ planned' = planned /\ grants' = grants /\ req' = req
      /\ streams' = streams /\ generation' = generation /\ applied' = applied
      /\ cluster' = cluster /\ revision' = revision /\ allowed' = allowed
  BY <1>1 DEF storeVars, clusterVars
<1>3. StoreFrame
  BY <1>1, UnchangedFrame, Zenon
<1>4. TypeOK'
  BY <1>1, <1>2, Zenon DEF CommitInv, TypeOK
<1>5. Reviewed'
  BY <1>2, ZenonT(30) DEF CommitInv, Reviewed, OnTarget
<1>6. InOnePlace'
  BY <1>1, <1>2, ZenonT(30) DEF CommitInv, InOnePlace, Held
<1>7. AsPlanned'
  BY <1>1, <1>2, Zenon DEF CommitInv, AsPlanned, Committing
<1>8. HitAsReviewed'
  BY <1>2, Zenon DEF CommitInv, HitAsReviewed
<1>9. Permitted' /\ SlotsHeld'
  BY <1>2, Zenon DEF CommitInv, Permitted, SlotsHeld, Committing, isRemote
<1> QED
  BY <1>3, <1>4, <1>5, <1>6, <1>7, <1>8, <1>9, ZenonT(30) DEF CommitInv, StoreFrame

\* Another client of the cluster writes or deletes an object.
LEMMA ExternalInv ==
  ASSUME CommitInv, NEW n \in Names, NEW managed \in BOOLEAN, NEW content \in Contents,
         ExternalWrite(n, managed, content) \/ ExternalDelete(n)
  PROVE  CommitInv'
<1> DEFINE obj == [uid |-> IF cluster[n] = Absent THEN revision + 1 ELSE cluster[n].uid,
                   rv |-> revision + 1, managed |-> managed, content |-> content]
<1>1. /\ revision < MaxRevision /\ revision' = revision + 1
      /\ \/ cluster' = [cluster EXCEPT ![n] = obj]
         \/ cluster' = [cluster EXCEPT ![n] = Absent]
      /\ UNCHANGED <<storeVars, streams, req, generation, allowed, inflight, applied>>
  BY Zenon DEF ExternalWrite, ExternalDelete, CommitInv, TypeOK
<1>2. cluster \in [Names -> Object \cup {Absent}] /\ revision \in 0 .. MaxRevision /\ MaxRevision \in Nat
  BY CommitAssumption, Zenon DEF CommitInv, TypeOK
<1>3. obj \in Object /\ obj.rv = revision + 1
  <2>1. revision + 1 \in 1 .. MaxRevision
    BY <1>1, <1>2
  <2>2. cluster[n] # Absent => cluster[n] \in Object
    BY <1>2
  <2> QED
    BY <2>1, <2>2, Zenon DEF Object
<1> HIDE DEF obj
<1>4. /\ plans' = plans /\ planned' = planned /\ grants' = grants /\ req' = req
      /\ streams' = streams /\ generation' = generation /\ applied' = applied
      /\ inflight' = inflight /\ allowed' = allowed
  BY <1>1 DEF storeVars
<1>5. StoreFrame
  BY <1>1, UnchangedFrame, Zenon
<1>6. TypeOK'
  <2>1. cluster' \in [Names -> Object \cup {Absent}] /\ revision' \in 0 .. MaxRevision
    BY <1>1, <1>2, <1>3
  <2> QED
    BY <1>4, <2>1 DEF CommitInv, TypeOK
<1>7. Reviewed'
  <2>1. \A m \in Names : \/ cluster'[m] = cluster[m]
                         \/ cluster'[m] = Absent
                         \/ cluster'[m].rv = revision + 1 /\ revision' = revision + 1
    BY <1>1, <1>2, <1>3, Zenon
  <2> QED
    BY <1>1, <1>4, <2>1, ClusterStep, Zenon
<1>8. InOnePlace'
  BY <1>4, Zenon DEF CommitInv, InOnePlace, Held
<1>9. AsPlanned'
  BY <1>4, Zenon DEF CommitInv, AsPlanned, Committing
<1>10. HitAsReviewed'
  BY <1>4, Zenon DEF CommitInv, HitAsReviewed
<1>11. Permitted' /\ SlotsHeld'
  BY <1>4, Zenon DEF CommitInv, Permitted, SlotsHeld, Committing, isRemote
<1> QED
  BY <1>5, <1>6, <1>7, <1>8, <1>9, <1>10, <1>11, ZenonT(30) DEF CommitInv, StoreFrame

\* Permission is withdrawn, or given: then the subject's commits count as permitted
\* once since they began.
LEMMA PermissionInv ==
  ASSUME CommitInv, NEW s \in Subjects, Revoke(s) \/ Permit(s)
  PROVE  CommitInv'
<1>1. /\ plans' = plans /\ planned' = planned /\ grants' = grants
      /\ streams' = streams /\ generation' = generation /\ applied' = applied
      /\ inflight' = inflight /\ cluster' = cluster /\ revision' = revision
      /\ UNCHANGED storeVars
  BY DEF storeVars, Revoke, Permit
<1>2. StoreFrame
  BY <1>1, UnchangedFrame
<1>3. /\ allowed' \subseteq Subjects
      /\ \A r \in Requests : \/ req'[r] = req[r]
                             \/ Committing(r) /\ req'[r] = [req[r] EXCEPT !.barred = FALSE]
      /\ \A r \in Requests : Committing(r) /\ req'[r].barred => req[r].subject \notin allowed'
      /\ DOMAIN req' = Requests /\ req' = [r \in Requests |-> req'[r]]
  <2>1. CASE Revoke(s)
    BY <2>1 DEF Revoke, CommitInv, TypeOK, Permitted
  <2>2. CASE Permit(s)
    <3>1. \A r \in Requests : Committing(r) => req[r] \in WaitingCalls \cup HoldingCalls
      BY CallShape DEF CommitInv, Committing, Holding
    <3>2. \A r \in Requests : Committing(r) /\ req[r].subject = s =>
            req'[r] = [req[r] EXCEPT !.barred = FALSE] /\ ~req'[r].barred
      BY <2>2, <3>1 DEF Permit, WaitingCalls, HoldingCalls
    <3>3. \A r \in Requests : ~(Committing(r) /\ req[r].subject = s) => req'[r] = req[r]
      BY <2>2 DEF Permit
    <3>4. allowed' = allowed \cup {s} /\ DOMAIN req' = Requests /\ req' = [r \in Requests |-> req'[r]]
      BY <2>2 DEF Permit
    <3>5. \A r \in Requests : Committing(r) /\ req[r].barred => req[r].subject \notin allowed
      BY DEF CommitInv, Permitted
    <3> QED
      BY <3>2, <3>3, <3>4, <3>5, ZenonT(30) DEF CommitInv, TypeOK
  <2> QED
    BY <2>1, <2>2
<1>4. ASSUME NEW r \in Requests
      PROVE  /\ req'[r].at = req[r].at
             /\ req[r].at \in {"preview", "store"} => req'[r] = req[r]
             /\ Committing(r) => req'[r].id = req[r].id /\ req'[r].subject = req[r].subject
                                 /\ req'[r].op = req[r].op
                                 /\ (req'[r].barred => req[r].barred)
             /\ req'[r] \in {Idle, [at |-> "streaming"]} \cup PlanCalls \cup WaitingCalls \cup HoldingCalls
  <2>1. CASE req'[r] = req[r]
    BY <2>1, ZenonT(30) DEF CommitInv, TypeOK
  <2>2. CASE Committing(r) /\ req'[r] = [req[r] EXCEPT !.barred = FALSE]
    <3>1. req[r] \in WaitingCalls \cup HoldingCalls /\ req[r].at \notin {"preview", "store"}
      BY <2>2, CallShape DEF CommitInv, Committing, Holding
    <3>2. CASE req[r] \in WaitingCalls
      BY <2>2, <3>1, <3>2, Zenon DEF WaitingCalls
    <3>3. CASE req[r] \in HoldingCalls
      BY <2>2, <3>1, <3>3, Zenon DEF HoldingCalls
    <3> QED
      BY <3>1, <3>2, <3>3
  <2> QED
    BY <1>3, <2>1, <2>2, Zenon
<1>5. TypeOK'
  <2>1. req' \in [Requests -> {Idle, [at |-> "streaming"]} \cup PlanCalls \cup WaitingCalls \cup HoldingCalls]
    BY <1>3, <1>4, Zenon
  <2> QED
    BY <1>1, <1>3, <2>1 DEF CommitInv, TypeOK
<1>6. Reviewed'
  <2>1. \A op : OnTarget(op)' <=> OnTarget(op)
    BY <1>1, Zenon DEF OnTarget
  <2>2. \A r \in Requests : req'[r].at \in {"preview", "store"} =>
          req'[r].op = req[r].op /\ req'[r].at = req[r].at
    BY <1>4, Zenon
  <2>3. \A id \in DOMAIN planned' : OnTarget(planned'[id].operation)
    BY <1>1, Zenon DEF CommitInv, Reviewed
  <2>4. \A r \in Requests : req'[r].at = "store" => OnTarget(req'[r].op)
    BY <2>2, Zenon DEF CommitInv, Reviewed
  <2>5. \A r \in Requests : req'[r].at = "preview" => req'[r].op.uid = 0 /\ req'[r].op.rv = 0
    BY <2>2, Zenon DEF CommitInv, Reviewed
  <2>6. \A n \in Names : cluster'[n] # Absent => cluster'[n].rv <= revision'
    BY <1>1, Zenon DEF CommitInv, Reviewed
  <2> QED
    BY <1>1, <2>3, <2>4, <2>5, <2>6, ZenonT(30) DEF Reviewed, OnTarget
<1>7. \A r \in Requests :
        /\ req'[r].at = req[r].at
        /\ req[r].at \in Holding \cup {"await"} => req'[r].id = req[r].id /\ req'[r].op = req[r].op
  BY <1>4, Zenon DEF Committing, Holding
<1>8. InOnePlace'
  <2>1. \A r \in Requests : req'[r].at \in Holding => req[r].at \in Holding /\ req'[r].id = req[r].id
    BY <1>7, Zenon
  <2>2. \A r \in Requests : req'[r].at \in Holding =>
          /\ grants'[req'[r].id] # <<>>
          /\ applied'[req'[r].id] = <<>>
          /\ \A q \in Requests : req'[q].at \in Holding /\ req'[q].id = req'[r].id => q = r
          /\ \A w \in inflight' : w.id # req'[r].id
    BY <1>1, <2>1 DEF CommitInv, InOnePlace, Held
  <2> QED
    BY <1>1, <2>2, Zenon DEF CommitInv, InOnePlace, Held
<1>9. AsPlanned'
  BY <1>1, <1>4, <1>7, ZenonT(30) DEF CommitInv, AsPlanned, Committing
<1>10. HitAsReviewed'
  BY <1>1, ZenonT(30) DEF CommitInv, HitAsReviewed
<1>11. Permitted'
  BY <1>3, <1>4, ZenonT(30) DEF CommitInv, Permitted, Committing
<1>12. SlotsHeld'
  BY <1>1, <1>4, <1>7 DEF CommitInv, SlotsHeld, Committing, isRemote
<1> QED
  BY <1>2, <1>5, <1>6, <1>8, <1>9, <1>10, <1>11, <1>12, ZenonT(30) DEF CommitInv, StoreFrame

\* The server restarts while writes are on their way.
LEMMA RestartInv ==
  ASSUME CommitInv, Restart
  PROVE  CommitInv'
<1>1. /\ req' = [r \in Requests |-> Idle] /\ streams' = {}
      /\ planned' = planned /\ grants' = grants
      /\ generation' \in generation .. MaxGeneration
      /\ UNCHANGED <<clusterVars, inflight, applied>>
  BY DEF Restart, history
<1>2. /\ cluster' = cluster /\ revision' = revision /\ allowed' = allowed
      /\ inflight' = inflight /\ applied' = applied
  BY <1>1, Zenon DEF clusterVars
<1>3. StoreFrame
  <2>1. DOMAIN plans' = {} /\ wrong' = wrong
    BY DEF Restart, Save, history
  <2> QED
    BY <1>1, <2>1, Zenon DEF CommitInv, StoreFacts, StoredAsPlanned, StoreFrame
<1>4. \A r \in Requests : req'[r] = Idle /\ req'[r].at = "idle"
  BY <1>1, Zenon DEF Idle
<1>5. TypeOK'
  <2>1. generation' \in 0 .. MaxGeneration
    BY <1>1, CommitAssumption DEF CommitInv, TypeOK
  <2> QED
    BY <1>1, <1>2, <2>1, Zenon DEF CommitInv, TypeOK
<1>6. Reviewed'
  BY <1>1, <1>2, <1>4, Zenon DEF CommitInv, Reviewed, OnTarget
<1>7. InOnePlace'
  BY <1>1, <1>2, <1>4, Zenon DEF CommitInv, InOnePlace, Held, Holding
<1>8. AsPlanned'
  BY <1>1, <1>2, <1>4, ZenonT(30) DEF CommitInv, AsPlanned, Committing, Holding
<1>9. HitAsReviewed'
  BY <1>1, <1>2 DEF CommitInv, HitAsReviewed
<1>10. Permitted'
  BY <1>4, Zenon DEF Permitted, Committing
<1>11. SlotsHeld'
  <2>1. IsFiniteSet(streams') /\ Cardinality(streams') <= StreamCap
    BY <1>1, FS_EmptySet, StreamsAssumption DEF StreamCap
  <2> QED
    BY <1>1, <1>4, <2>1, Zenon DEF SlotsHeld, Holding
<1> QED
  BY <1>3, <1>5, <1>6, <1>7, <1>8, <1>9, <1>10, <1>11, ZenonT(30) DEF CommitInv, StoreFrame

\* The clock, and steps that leave everything as it is.
LEMMA ClockInv ==
  ASSUME CommitInv, Clock \/ UNCHANGED vars
  PROVE  CommitInv'
<1>1. StoreFrame /\ plans' = plans /\ planned' = planned /\ grants' = grants
  <2>1. CASE Clock
    <3>1. UNCHANGED <<plans, planned, grants, wrong>>
      BY <2>1 DEF Clock, Tick, store, history
    <3> QED
      BY <3>1 DEF CommitInv, StoreFacts, StoredAsPlanned, StoreFrame
  <2>2. CASE UNCHANGED vars
    BY <2>2, UnchangedFrame DEF vars, storeVars
  <2> QED
    BY <2>1, <2>2, Zenon
<1>2. /\ req' = req /\ streams' = streams /\ generation' = generation /\ applied' = applied
      /\ inflight' = inflight /\ cluster' = cluster /\ revision' = revision /\ allowed' = allowed
  BY Zenon DEF Clock, vars, clusterVars
<1>3. TypeOK'
  BY <1>2, Zenon DEF CommitInv, TypeOK
<1>4. Reviewed'
  BY <1>1, <1>2, Zenon DEF CommitInv, Reviewed, OnTarget
<1>5. InOnePlace'
  BY <1>1, <1>2, Zenon DEF CommitInv, InOnePlace, Held
<1>6. AsPlanned'
  BY <1>1, <1>2, Zenon DEF CommitInv, AsPlanned, Committing
<1>7. HitAsReviewed'
  BY <1>1, <1>2, ZenonT(30) DEF CommitInv, HitAsReviewed
<1>8. Permitted' /\ SlotsHeld'
  BY <1>1, <1>2, Zenon DEF CommitInv, Permitted, SlotsHeld, Committing, isRemote
<1> QED
  BY <1>1, <1>3, <1>4, <1>5, <1>6, <1>7, <1>8, ZenonT(30) DEF CommitInv, StoreFrame

-----------------------------------------------------------------------------
(* The whole server.                                                       *)

ServerInv == StoreInv /\ CommitInv

\* The server starts with an empty store, no requests and no slots taken.
LEMMA CommitInit == Init => ServerInv
<1> SUFFICES ASSUME Init PROVE CommitInv
  BY InitInv, Zenon DEF Init, ServerInv
<1>1. StoreFacts
  BY DEF Init, StoreInit, StoreFacts, StoredAsPlanned
<1>2. \A r \in Requests : req[r] = Idle /\ req[r].at = "idle"
  BY DEF Init, Idle
<1>3. DOMAIN planned = {}
  BY DEF Init, StoreInit
<1>4. TypeOK
  BY CommitAssumption DEF Init, StreamsInit, TypeOK
<1>5. Reviewed
  BY <1>2, <1>3, Zenon DEF Init, Reviewed
<1>6. InOnePlace
  BY <1>2 DEF Init, InOnePlace, Holding
<1>7. AsPlanned
  BY <1>2, Zenon DEF Init, AsPlanned, Committing, Holding
<1>8. HitAsReviewed
  BY DEF Init, HitAsReviewed
<1>9. Permitted
  BY <1>2, Zenon DEF Permitted, Committing
<1>10. SlotsHeld
  <2>1. streams = {}
    BY DEF Init, StreamsInit
  <2>2. IsFiniteSet(streams) /\ Cardinality(streams) <= StreamCap
    BY <2>1, FS_EmptySet, StreamsAssumption DEF StreamCap
  <2> QED
    BY <1>2, <2>1, <2>2, Zenon DEF SlotsHeld, Holding
<1> QED
  BY <1>1, <1>4, <1>5, <1>6, <1>7, <1>8, <1>9, <1>10, ZenonT(30) DEF CommitInv

\* k8s.plan stores its operation.
LEMMA PlanStoredStep ==
  ASSUME ServerInv, NEW r \in Requests, PlanStored(r)
  PROVE  ServerInv'
<1>1. req[r].at = "store" /\ Create(req[r].subject, req[r].op)
  BY Zenon DEF PlanStored
<1>2. req[r] \in PlanCalls
  BY <1>1, CallShape, Zenon DEF ServerInv, CommitInv
<1>3. req[r].subject \in Subjects /\ req[r].op \in Operations
  BY <1>2, CommitAssumption, Zenon DEF PlanCalls
<1>4. /\ StoreInv' /\ StoreFrame
      /\ \A id \in DOMAIN planned' \ DOMAIN planned : planned'[id].operation = req[r].op
  BY <1>1, <1>3, CreateFrame, Zenon DEF ServerInv
<1> QED
  BY <1>4, PlanStoredInv, Zenon DEF ServerInv

\* k8s.commit consumes its plan.
LEMMA CommitConsumeStep ==
  ASSUME ServerInv, NEW r \in Requests, CommitConsume(r)
  PROVE  ServerInv'
<1>1. req[r].at = "consume" /\ Consume(req[r].id, req[r].subject, req[r].code)
  BY Zenon DEF CommitConsume
<1>2. req[r] \in WaitingCalls
  BY <1>1, CallShape, Zenon DEF ServerInv, CommitInv
<1>3. /\ req[r].id \in PlanIDs /\ req[r].subject \in Subjects
      /\ req[r].code \in Codes \cup {NoCode, BadCode}
  BY <1>2, Zenon DEF WaitingCalls
<1>4. StoreInv' /\ StoreFrame /\ Handed(r)
  BY <1>1, <1>3, ConsumeFrame, ZenonT(30) DEF ServerInv, Handed
<1> QED
  BY <1>4, CommitConsumeInv DEF ServerInv

\* Every other step of a request leaves the plan store alone.
LEMMA OtherStep ==
  ASSUME ServerInv, NEW r \in Requests, Handler(r) \/ Client(r),
         ~PlanStored(r), ~CommitConsume(r)
  PROVE  ServerInv'
<1>1. UNCHANGED storeVars
  BY DEF Handler, Client, PlanPreview, CommitStream, CommitAuthorize, CommitPrecheck,
         CommitRevalidate, CommitSend, Return, PlanBegin, CommitBegin, ReadStream,
         ReadStreamEnds
<1>2. StoreInv'
  BY <1>1, NextInv, Zenon DEF ServerInv
<1>3. CASE Handler(r)
  BY <1>2, <1>3, PlanPreviewInv, CommitStreamInv, CommitChecksInv, CommitSendInv, ReturnInv, ZenonT(30)
     DEF Handler, ServerInv
<1>4. CASE Client(r)
  BY <1>2, <1>4, PlanBeginInv, CommitBeginInv, ReadStreamInv, Zenon DEF Client, ServerInv
<1> QED
  BY <1>3, <1>4, Zenon

\* The API server, the other clients of the cluster and the clock.
LEMMA EnvironmentStep ==
  ASSUME ServerInv, Environment
  PROVE  ServerInv'
<1>1. CommitInv /\ StoreInv
  BY DEF ServerInv
<1>2. StoreInv'
  <2>1. CASE Clock
    BY <1>1, <2>1, TickStep DEF Clock
  <2>2. CASE UNCHANGED storeVars
    BY <1>1, <2>2, NextInv, Zenon
  <2> QED
    BY <2>1, <2>2 DEF Environment, APIWrite, APIReject, ExternalWrite, ExternalDelete, Revoke,
                      Permit
<1>3. CASE \E w \in inflight : APIWrite(w) \/ APIReject(w)
  BY <1>1, <1>2, <1>3, APIWriteInv, APIRejectInv, ZenonT(30) DEF ServerInv
<1>4. CASE \E n \in Names, managed \in BOOLEAN, content \in Contents :
             ExternalWrite(n, managed, content)
  BY <1>1, <1>2, <1>4, ExternalInv DEF ServerInv
<1>5. CASE \E n \in Names : ExternalDelete(n)
  <2>1. PICK n \in Names : ExternalDelete(n)
    BY <1>5
  <2>2. PICK content : content \in Contents
    <3>1. cluster[n] \in Object
      BY <1>1, <2>1 DEF ExternalDelete, CommitInv, TypeOK
    <3> QED
      BY <3>1, Zenon DEF Object
  <2> QED
    BY <1>1, <1>2, <2>1, <2>2, ExternalInv, ZenonT(30) DEF ServerInv
<1>6. CASE \E s \in Subjects : Revoke(s) \/ Permit(s)
  BY <1>1, <1>2, <1>6, PermissionInv, Zenon DEF ServerInv
<1>7. CASE Clock
  BY <1>1, <1>2, <1>7, ClockInv, ZenonT(30) DEF ServerInv
<1> QED
  BY <1>3, <1>4, <1>5, <1>6, <1>7, ZenonT(30) DEF Environment

\* Every step of the server, the API server and the other clients.
LEMMA CommitNext == ServerInv /\ [Next]_vars => ServerInv'
<1> SUFFICES ASSUME ServerInv, [Next]_vars PROVE ServerInv'
  OBVIOUS
<1>1. ASSUME NEW r \in Requests, Handler(r) \/ Client(r) PROVE ServerInv'
  BY <1>1, PlanStoredStep, CommitConsumeStep, OtherStep, Zenon
<1>2. CASE Restart
  BY <1>2, RestartStore, RestartInv, Zenon DEF ServerInv
<1>3. CASE UNCHANGED vars
  BY <1>3, ClockInv, NextInv DEF ServerInv, vars
<1> QED
  BY <1>1, <1>2, <1>3, EnvironmentStep, ZenonT(30) DEF Next

\* The inductive invariant of plan and commit holds in every reachable state.
THEOREM CommitInvariant == Spec => []ServerInv
BY CommitInit, CommitNext, PTL DEF Spec

-----------------------------------------------------------------------------
(* What it means for plan and commit.                                      *)

\* A reviewed change takes effect at most once, for any number of racing commits,
\* timeouts, repeated calls and restarts.
THEOREM ChangesApplyOnce == Spec => []AppliedOnce
<1>1. ServerInv => AppliedOnce
  BY DEF ServerInv, CommitInv, InOnePlace, AppliedOnce
<1> QED
  BY <1>1, CommitInvariant, PTL

\* A change takes effect only on the object, and the version of it, that its plan
\* was previewed on, whatever other clients write in between.
THEOREM ChangesHitTheReviewed == Spec => []AppliedAsReviewed
<1>1. ServerInv => AppliedAsReviewed
  BY ZenonT(30) DEF ServerInv, CommitInv, HitAsReviewed, AppliedAsReviewed
<1> QED
  BY <1>1, CommitInvariant, PTL

\* No committed write changes an object that has become the operator's own.
THEOREM ManagedStayUntouched == Spec => []ManagedUntouched
<1>1. ServerInv => ManagedUntouched
  BY ZenonT(30) DEF ServerInv, CommitInv, HitAsReviewed, ManagedUntouched
<1> QED
  BY <1>1, CommitInvariant, PTL

\* In SafeWrite mode every change that takes effect was validated against the very
\* content it replaces.
THEOREM SafeWritesStayReviewed == Spec => []SafeWriteAsReviewed
<1>1. ServerInv => SafeWriteAsReviewed
  BY ZenonT(30) DEF ServerInv, CommitInv, HitAsReviewed, SafeWriteAsReviewed, AppliedAsReviewed, SafeWriteValidated
<1> QED
  BY <1>1, CommitInvariant, PTL

\* A write leaves only for a subject that was authorized after its commit began.
THEOREM CommitsStayAuthorized == Spec => []AuthorizedAtCommit
<1>1. ServerInv => AuthorizedAtCommit
  BY DEF ServerInv, CommitInv, Permitted, AuthorizedAtCommit, Committing
<1> QED
  BY <1>1, CommitInvariant, PTL

\* Stream slots: never more than the cap, always one for a remote operation, and
\* none left behind by any way out of the handlers.
THEOREM SlotsStayHeld == Spec => []StreamSlots
<1>1. ServerInv => StreamSlots
  BY DEF ServerInv, CommitInv, SlotsHeld, StreamSlots, Holding
<1> QED
  BY <1>1, CommitInvariant, PTL

\* The promises of the plan store hold in the whole server too, restarts included:
\* exact counters within the budgets, and an operation handed out at most once.
THEOREM StoreKeepsItsPromises == Spec => [](Accounting /\ Budgets /\ HandedOutOnce /\ HandedOutAsPlanned)
<1>1. ServerInv => Accounting /\ Budgets /\ HandedOutOnce /\ HandedOutAsPlanned
  <2> SUFFICES ASSUME StoreInv PROVE Accounting /\ Budgets /\ HandedOutOnce /\ HandedOutAsPlanned
    BY Zenon DEF ServerInv
  <2>1. Accounting /\ Budgets
    BY Zenon DEF StoreInv, StoreOK, Current, Balanced, InBudget, Accounting, Budgets
  <2>2. \A id \in DOMAIN plans : Len(grants[id]) # 1
    BY DEF StoreInv, StoredAsPlanned
  <2>3. HandedOutOnce
    BY <2>2 DEF StoreInv, Closed, HandedOutOnce
  <2> QED
    BY <2>1, <2>3 DEF StoreInv
<1> QED
  BY <1>1, CommitInvariant, PTL

=============================================================================
