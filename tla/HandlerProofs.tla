---------------------------- MODULE HandlerProofs ----------------------------
(***************************************************************************)
(* The inductive invariant of PlanCommit, for every number of requests,    *)
(* subjects, plans, objects and configurations, and its preservation by    *)
(* every handler.  What a step of Create and Consume does to the plan      *)
(* store is an assumption here: PlanCommitProofs discharges it, and does   *)
(* the steps of the API server and of the cluster's other clients.         *)
(***************************************************************************)
EXTENDS PlanCommit, FiniteSetTheorems, TLAPS

\* The provers for leaves that name none, in the order they are tried.
USE SMTT(20), Z3T(30), Zenon

-----------------------------------------------------------------------------
(* The inductive invariant.                                                *)

\* A reviewed operation that needs an existing object names a version the API
\* server has issued, and as long as the object is at that version it is the
\* object that was reviewed: no writer reuses a resourceVersion.
OnTarget(op) ==
  IF op.kind = "create"
  THEN /\ op.uid = 0 /\ op.rv = 0
       /\ Mode = "SafeWrite" => <<Absent, op.payload>> \in SafeChange
  ELSE /\ op.rv \in 1 .. revision
       /\ cluster[op.name] # Absent /\ cluster[op.name].rv = op.rv =>
            /\ cluster[op.name].uid = op.uid
            /\ ~cluster[op.name].managed
            /\ Mode = "SafeWrite" => <<cluster[op.name].content, op.payload>> \in SafeChange

Reviewed ==
  /\ \A n \in Names : cluster[n] # Absent => cluster[n].rv <= revision
  /\ \A r \in Requests : req[r].at = "preview" => req[r].op.uid = 0 /\ req[r].op.rv = 0
  /\ \A r \in Requests : req[r].at = "store" => OnTarget(req[r].op)
  /\ \A id \in DOMAIN planned : OnTarget(planned[id].operation)

\* An identifier that was handed out is in one place at most: with a commit that
\* has not sent its write, in a write on its way, or in what has taken effect.
Held(r, id) == req[r].at \in Holding /\ req[r].id = id

InOnePlace ==
  /\ \A id \in PlanIDs : Len(applied[id]) <= 1
  /\ \A r \in Requests : req[r].at \in Holding =>
       /\ grants[req[r].id] # <<>>
       /\ applied[req[r].id] = <<>>
       /\ \A q \in Requests : Held(q, req[r].id) => q = r
       /\ \A w \in inflight : w.id # req[r].id
  /\ \A w \in inflight :
       /\ grants[w.id] # <<>>
       /\ applied[w.id] = <<>>
       /\ \A v \in inflight : v.id = w.id => v = w
  /\ \A id \in PlanIDs : applied[id] # <<>> => grants[id] # <<>>

\* What a commit holds or has sent is what was planned under its identifier.
AsPlanned ==
  /\ \A r \in Requests : Committing(r) => req[r].id \in DOMAIN planned
  /\ \A r \in Requests : req[r].at \in Holding \cup {"await"} =>
       req[r].op = planned[req[r].id].operation
  /\ \A w \in inflight : w.id \in DOMAIN planned /\ w.op = Wire(planned[w.id].operation)

\* What a write hit was the object its plan was reviewed on.
HitAsReviewed ==
  \A id \in PlanIDs : \A i \in DOMAIN applied[id] :
    LET op == planned[id].operation
        obj == applied[id][i]
    IN  /\ op.kind = "create" => obj = Absent
        /\ op.kind \in {"modify", "delete"} =>
             obj # Absent /\ obj.uid = op.uid /\ obj.rv = op.rv /\ ~obj.managed
        /\ Mode = "SafeWrite" => <<ContentOf(obj), op.payload>> \in SafeChange

\* A commit that is barred has had no permission since it began, and one past its
\* authorization is not barred.
Permitted ==
  \A r \in Requests : Committing(r) =>
    /\ req[r].barred => req[r].subject \notin allowed
    /\ req[r].at \in {"precheck", "revalidate", "send", "await"} => ~req[r].barred

\* A commit that waits to consume without a slot cannot get a remote operation.
SlotsHeld ==
  /\ IsFiniteSet(streams) /\ Cardinality(streams) <= StreamCap
  /\ \A r \in Requests :
       /\ req[r].at = "consume" /\ r \notin streams => ~isRemote(req[r].id, req[r].subject)
       /\ req[r].at \in Holding \cup {"await"} /\ req[r].op.kind = "remote" => r \in streams
       /\ r \in streams => req[r].at = "streaming" \/ Committing(r)

\* What the handlers rely on in the plan store: identifiers and operations of the
\* right kind, and stored plans that agree with what was planned.
StoreFacts ==
  /\ DOMAIN planned \subseteq PlanIDs
  /\ \A id \in DOMAIN planned : planned[id] \in PlanRecord
  /\ StoredAsPlanned

CommitInv ==
  /\ StoreFacts
  /\ TypeOK
  /\ Reviewed
  /\ InOnePlace
  /\ AsPlanned
  /\ HitAsReviewed
  /\ Permitted
  /\ SlotsHeld

-----------------------------------------------------------------------------
(* What the rest of the invariant has to know of a step of the store.      *)

\* Plans keep their terms, an identifier that was ever returned is not stored
\* again once it is gone, and a plan that was handed out stays handed out.
StoreFrame ==
  /\ StoreFacts'
  /\ \A id \in DOMAIN planned : id \in DOMAIN planned' /\ planned'[id] = planned[id]
  /\ \A id \in DOMAIN planned : id \in DOMAIN plans' => id \in DOMAIN plans
  /\ \A id \in PlanIDs : grants[id] # <<>> => grants'[id] # <<>>

\* A step that leaves the plan store alone.
LEMMA UnchangedFrame ==
  ASSUME CommitInv, UNCHANGED storeVars
  PROVE  StoreFrame
<1>1. UNCHANGED <<plans, planned, grants, wrong>>
  BY DEF storeVars
<1> QED
  BY <1>1 DEF CommitInv, StoreFacts, StoredAsPlanned, StoreFrame

-----------------------------------------------------------------------------
(* One step of a handler.                                                  *)

\* What a call carries, by the place it stands at.
LEMMA CallShape ==
  ASSUME TypeOK, NEW r \in Requests
  PROVE  /\ req[r].at = "idle" => req[r] = Idle
         /\ req[r].at \in {"preview", "store"} => req[r] \in PlanCalls
         /\ req[r].at \in {"stream", "consume"} => req[r] \in WaitingCalls
         /\ req[r].at \in Holding \cup {"await"} => req[r] \in HoldingCalls
         /\ req[r].at \in {"idle", "streaming", "preview", "store", "stream", "consume", "await"} \cup Holding
BY DEF TypeOK, Idle, PlanCalls, WaitingCalls, HoldingCalls, Holding

\* The places of a commit.
CommitPlaces == {"stream", "consume", "await"} \cup Holding

\* What the new call of request r must satisfy: it is well formed, and it holds
\* only an operation that is its own.
CallOK(r, call) ==
  /\ call \in {Idle, [at |-> "streaming"]} \cup PlanCalls \cup WaitingCalls \cup HoldingCalls
  /\ call.at = "preview" => call.op.uid = 0 /\ call.op.rv = 0
  /\ call.at = "store" => OnTarget(call.op)
  /\ call.at \in CommitPlaces =>
       /\ call.id \in DOMAIN planned
       /\ call.barred => call.subject \notin allowed
       /\ call.at \in {"precheck", "revalidate", "send", "await"} => ~call.barred
  /\ call.at \in Holding \cup {"await"} => call.op = planned[call.id].operation
  /\ call.at \in Holding =>
       /\ applied[call.id] = <<>>
       /\ \A q \in Requests : Held(q, call.id) => q = r
       /\ \A w \in inflight : w.id # call.id

\* What the slots must satisfy after the step.
SlotOK(r, call) ==
  /\ streams' \subseteq Requests
  /\ IsFiniteSet(streams') /\ Cardinality(streams') <= StreamCap
  /\ \A q \in Requests : q # r => (q \in streams' <=> q \in streams)
  /\ call.at = "consume" /\ r \notin streams' => ~isRemote(call.id, call.subject)
  /\ call.at \in Holding \cup {"await"} /\ call.op.kind = "remote" => r \in streams'
  /\ r \in streams' => call.at = "streaming" \/ call.at \in CommitPlaces

\* A handler step replaces the call of its request: nothing else has to be shown
\* of it than that the new call and the slots are in order.
LEMMA CallStep ==
  ASSUME CommitInv, NEW r \in Requests, NEW call,
         req' = [req EXCEPT ![r] = call],
         StoreFrame, CallOK(r, call), SlotOK(r, call),
         call.at \in Holding => grants'[call.id] # <<>>,
         \A id \in DOMAIN planned' \ DOMAIN planned : OnTarget(planned'[id].operation),
         UNCHANGED <<generation, clusterVars, inflight, applied>>
  PROVE  CommitInv'
<1>1. /\ DOMAIN req = Requests /\ DOMAIN req' = Requests
      /\ req'[r] = call
      /\ \A q \in Requests : q # r => req'[q] = req[q]
  BY DEF CommitInv, TypeOK
<1>2. /\ cluster' = cluster /\ revision' = revision /\ allowed' = allowed
      /\ generation' = generation /\ inflight' = inflight /\ applied' = applied
  BY DEF clusterVars
<1>3. StoreFacts' /\ StoreFacts /\ TypeOK
  BY DEF StoreFrame, CommitInv
<1>4. TypeOK'
  <2>1. req' \in [Requests -> {Idle, [at |-> "streaming"]} \cup PlanCalls \cup WaitingCalls \cup HoldingCalls]
    BY <1>3 DEF TypeOK, CallOK
  <2> QED
    BY <2>1, <1>2, <1>3 DEF TypeOK, SlotOK
<1>5. Reviewed'
  <2>1. \A op : OnTarget(op)' <=> OnTarget(op)
    BY <1>2 DEF OnTarget
  <2>2. \A id \in DOMAIN planned' : OnTarget(planned'[id].operation)
    BY DEF StoreFrame, CommitInv, Reviewed
  <2> QED
    BY <1>1, <1>2, <2>2, ZenonT(30) DEF CommitInv, Reviewed, CallOK, OnTarget
<1>6. InOnePlace'
  <2>1. \A q \in Requests : req'[q].at \in Holding =>
          /\ grants'[req'[q].id] # <<>>
          /\ applied[req'[q].id] = <<>>
          /\ \A w \in inflight : w.id # req'[q].id
    <3>1. \A q \in Requests : req[q].at \in Holding => req[q].id \in PlanIDs
      BY <1>3, CallShape, Zenon DEF HoldingCalls
    <3>2. \A q \in Requests : req[q].at \in Holding =>
            /\ grants'[req[q].id] # <<>>
            /\ applied[req[q].id] = <<>>
            /\ \A w \in inflight : w.id # req[q].id
      BY <3>1, Zenon DEF CommitInv, InOnePlace, StoreFrame
    <3> QED
      BY <1>1, <3>2 DEF CallOK
  <2>2. \A q, p \in Requests :
          req'[q].at \in Holding /\ req'[p].at \in Holding /\ req'[q].id = req'[p].id => q = p
    BY <1>1, Zenon DEF CommitInv, InOnePlace, CallOK, Held
  <2>3. \A w \in inflight : w.id \in PlanIDs
    BY <1>3, Zenon DEF TypeOK
  <2>4. \A id \in PlanIDs : grants[id] # <<>> => grants'[id] # <<>>
    BY Zenon DEF StoreFrame
  <2>5. /\ \A id \in PlanIDs : Len(applied[id]) <= 1 /\ (applied[id] # <<>> => grants'[id] # <<>>)
        /\ \A w \in inflight :
             /\ grants'[w.id] # <<>> /\ applied[w.id] = <<>>
             /\ \A v \in inflight : v.id = w.id => v = w
    BY <2>3, <2>4, Zenon DEF CommitInv, InOnePlace
  <2> QED
    BY <1>2, <2>1, <2>2, <2>5 DEF InOnePlace, Held
<1>7. AsPlanned'
  <2>1. \A q \in Requests : Committing(q)' => req'[q].id \in DOMAIN planned
    BY <1>1, Zenon DEF Committing, CallOK, CommitPlaces, Holding, CommitInv, AsPlanned
  <2>2. \A q \in Requests : req'[q].at \in Holding \cup {"await"} =>
          req'[q].op = planned[req'[q].id].operation
    BY <1>1 DEF CallOK, CommitInv, AsPlanned
  <2>3. \A q \in Requests : req'[q].at \in Holding \cup {"await"} => req'[q].id \in DOMAIN planned
    BY <2>1, Zenon DEF Committing, Holding
  <2> QED
    BY <1>2, <2>1, <2>2, <2>3, Zenon DEF CommitInv, AsPlanned, StoreFrame
<1>8. HitAsReviewed'
  <2>1. \A id \in PlanIDs : applied[id] # <<>> => id \in DOMAIN planned
    BY <1>3, ZenonT(30) DEF CommitInv, InOnePlace, StoreFacts, StoredAsPlanned
  <2>2. \A id \in PlanIDs : \A i \in DOMAIN applied[id] : planned'[id] = planned[id]
    BY <2>1 DEF StoreFrame
  <2> QED
    BY <1>2, <2>2 DEF CommitInv, HitAsReviewed
<1>9. Permitted'
  BY <1>1, <1>2, Zenon DEF CommitInv, Permitted, Committing, CallOK, CommitPlaces, Holding
<1>10. SlotsHeld'
  <2>1. \A q \in Requests : req'[q].at = "consume" /\ q \notin streams' =>
          ~isRemote(req'[q].id, req'[q].subject) /\ req'[q].id \in DOMAIN planned
    BY <1>1, ZenonT(30) DEF CommitInv, SlotsHeld, SlotOK, CallOK, CommitPlaces, AsPlanned, Committing
  <2>2. \A s : \A id \in DOMAIN planned : isRemote(id, s)' => isRemote(id, s)
    BY <1>3 DEF StoreFrame, StoreFacts, StoredAsPlanned, isRemote
  <2>3. \A q \in Requests :
          /\ req'[q].at \in Holding \cup {"await"} /\ req'[q].op.kind = "remote" => q \in streams'
          /\ q \in streams' => req'[q].at = "streaming" \/ Committing(q)'
    BY <1>1 DEF CommitInv, SlotsHeld, SlotOK, Committing, CommitPlaces, Holding
  <2> QED
    BY <2>1, <2>2, <2>3, Zenon DEF SlotsHeld, SlotOK
<1> QED
  BY <1>3, <1>4, <1>5, <1>6, <1>7, <1>8, <1>9, <1>10 DEF CommitInv

\* Taking a slot that is free, giving one back, or neither.
LEMMA SlotsStep ==
  ASSUME CommitInv, NEW r \in Requests,
         acquireStream(r) \/ releaseStream(r) \/ UNCHANGED streams
  PROVE  /\ streams' \subseteq Requests
         /\ IsFiniteSet(streams') /\ Cardinality(streams') <= StreamCap
         /\ \A q \in Requests : q # r => (q \in streams' <=> q \in streams)
<1>1. /\ streams \subseteq Requests /\ IsFiniteSet(streams)
      /\ Cardinality(streams) \in Nat /\ Cardinality(streams) <= StreamCap
      /\ StreamCap \in Nat
  BY FS_CardinalityType, StreamsAssumption DEF CommitInv, TypeOK, SlotsHeld, StreamCap
<1>2. CASE acquireStream(r)
  <2>1. Cardinality(streams) < StreamCap /\ streams' = streams \cup {r}
    BY <1>2 DEF acquireStream, CanStream
  <2>2. IsFiniteSet(streams') /\ Cardinality(streams') <= Cardinality(streams) + 1
    BY <1>1, <2>1, FS_AddElement
  <2>3. Cardinality(streams') \in Nat
    BY <2>2, FS_CardinalityType
  <2> QED
    BY <1>1, <2>1, <2>2, <2>3
<1>3. CASE releaseStream(r)
  <2>1. streams' = streams \ {r}
    BY <1>3 DEF releaseStream
  <2>2. IsFiniteSet(streams') /\ Cardinality(streams') <= Cardinality(streams)
    BY <1>1, <2>1, FS_Subset
  <2>3. Cardinality(streams') \in Nat
    BY <2>2, FS_CardinalityType
  <2> QED
    BY <1>1, <2>1, <2>2, <2>3
<1>4. CASE UNCHANGED streams
  BY <1>1, <1>4
<1> QED
  BY <1>2, <1>3, <1>4

\* A handler returns: its call is over and its slot is free.
LEMMA FinishStep ==
  ASSUME CommitInv, NEW r \in Requests, Finish(r), StoreFrame,
         \A id \in DOMAIN planned' \ DOMAIN planned : OnTarget(planned'[id].operation),
         UNCHANGED <<generation, clusterVars, inflight, applied>>
  PROVE  CommitInv'
<1>1. req' = [req EXCEPT ![r] = Idle] /\ r \notin streams'
  BY DEF Finish, releaseStream
<1>2. Idle.at = "idle"
  BY DEF Idle
<1>3. CallOK(r, Idle)
  BY <1>2 DEF CallOK, CommitPlaces, Holding
<1>4. SlotOK(r, Idle)
  BY <1>1, <1>2, SlotsStep DEF Finish, SlotOK, Holding
<1>5. Idle.at \notin Holding
  BY <1>2 DEF Holding
<1> QED
  BY <1>1, <1>3, <1>4, <1>5, CallStep, Zenon

\* A commit that holds its operation moves on to one of the later checks.
LEMMA MoveStep ==
  ASSUME CommitInv, NEW r \in Requests, NEW place \in {"precheck", "revalidate", "send"},
         req[r].at \in Holding, ~req[r].barred, At(r, place),
         UNCHANGED <<storeVars, streams, generation, clusterVars, inflight, applied>>
  PROVE  CommitInv'
<1> DEFINE call == [req[r] EXCEPT !.at = place]
<1>1. req[r] \in HoldingCalls
  BY CallShape DEF CommitInv
<1>2. /\ call \in HoldingCalls
      /\ call.at = place /\ call.op = req[r].op /\ call.id = req[r].id
      /\ call.subject = req[r].subject /\ call.barred = req[r].barred
  BY <1>1 DEF HoldingCalls, Holding
<1>3. req' = [req EXCEPT ![r] = call]
  BY DEF At, CommitInv, TypeOK
<1> HIDE DEF call
<1>4. req[r].id \in DOMAIN planned /\ place \in Holding
  BY Zenon DEF CommitInv, AsPlanned, Committing, Holding
<1>5. CallOK(r, call)
  <2>1. call.op = planned[call.id].operation
    BY <1>2, Zenon DEF CommitInv, AsPlanned
  <2>2. /\ applied[call.id] = <<>>
        /\ \A q \in Requests : Held(q, call.id) => q = r
        /\ \A w \in inflight : w.id # call.id
    BY <1>2 DEF CommitInv, InOnePlace
  <2> QED
    BY <1>2, <1>4, <2>1, <2>2, Zenon DEF CallOK
<1>6. SlotOK(r, call)
  <2>1. call.op.kind = "remote" => r \in streams
    BY <1>2, Zenon DEF CommitInv, SlotsHeld
  <2> QED
    BY <1>2, <1>4, <2>1, SlotsStep, Zenon DEF SlotOK, CommitPlaces
<1>7. grants'[call.id] # <<>>
  BY <1>2 DEF CommitInv, InOnePlace, storeVars
<1>8. StoreFrame /\ planned' = planned
  BY UnchangedFrame DEF storeVars
<1> QED
  BY <1>3, <1>5, <1>6, <1>7, <1>8, CallStep, Zenon

\* k8s.plan begins.
LEMMA PlanBeginInv ==
  ASSUME CommitInv, NEW r \in Requests, NEW s \in Subjects, NEW kind \in Kinds, NEW n \in Names,
         NEW payload \in Contents, PlanBegin(r, s, kind, n, payload)
  PROVE  CommitInv'
<1> DEFINE op == [kind |-> kind, name |-> n, payload |-> payload, uid |-> 0,
                  rv |-> 0, generation |-> generation]
           call == [at |-> "preview", subject |-> s, op |-> op]
<1>1. /\ req[r] = Idle
      /\ req' = [req EXCEPT ![r] = call]
      /\ UNCHANGED <<storeVars, streams, generation, clusterVars, inflight, applied>>
  BY Zenon DEF PlanBegin
<1>2. op \in PlannedOps /\ call \in PlanCalls
  BY CommitAssumption DEF PlannedOps, PlanCalls, CommitInv, TypeOK
<1>3. call.at = "preview" /\ call.op = op /\ op.uid = 0 /\ op.rv = 0
  OBVIOUS
<1> HIDE DEF op, call
<1>4. CallOK(r, call)
  BY <1>2, <1>3, Zenon DEF CallOK, CommitPlaces, Holding
<1>5. SlotOK(r, call)
  <2>1. r \notin streams
    BY <1>1 DEF CommitInv, SlotsHeld, Committing, Idle
  <2> QED
    BY <1>1, <1>3, <2>1, SlotsStep, ZenonT(30) DEF SlotOK, Holding
<1>6. StoreFrame /\ planned' = planned
  BY <1>1, UnchangedFrame DEF storeVars
<1> QED
  BY <1>1, <1>3, <1>4, <1>5, <1>6, CallStep, Zenon DEF Holding

\* previewOperation binds the operation to the object it read.
LEMMA PlanPreviewInv ==
  ASSUME CommitInv, NEW r \in Requests, PlanPreview(r)
  PROVE  CommitInv'
<1> DEFINE op == req[r].op
           obj == cluster[op.name]
           new == Previewed(op, obj)
           call == [req[r] EXCEPT !.at = "store", !.op = new]
<1>1. /\ req[r].at = "preview" /\ Previewable(op, obj)
      /\ req' = [req EXCEPT ![r].at = "store", ![r].op = new]
      /\ UNCHANGED <<storeVars, streams, generation, clusterVars, inflight, applied>>
  BY DEF PlanPreview
<1>2. req[r] \in PlanCalls /\ op \in PlannedOps
  BY <1>1, CallShape, ZenonT(30) DEF CommitInv, PlanCalls
<1>3. obj \in Object \cup {Absent} /\ (obj # Absent => obj.rv \in 1 .. revision)
  <2>1. op.name \in Names
    BY <1>2 DEF PlannedOps
  <2>2. cluster[op.name] \in Object \cup {Absent} /\ revision \in Nat
    BY <2>1, CommitAssumption DEF CommitInv, TypeOK
  <2>3. cluster[op.name] # Absent => cluster[op.name].rv <= revision
    BY <2>1 DEF CommitInv, Reviewed
  <2> QED
    BY <2>2, <2>3 DEF Object
<1>4. /\ new \in PlannedOps /\ new.kind = op.kind /\ new.name = op.name /\ new.payload = op.payload
      /\ obj = Absent => new = op
      /\ obj # Absent => new.uid = obj.uid /\ new.rv = obj.rv
  <2>1. CASE obj = Absent
    BY <1>2, <2>1 DEF Previewed
  <2>2. CASE obj # Absent
    <3>1. obj.uid \in 0 .. MaxRevision /\ obj.rv \in 0 .. MaxRevision
      <4>1. MaxRevision \in Nat
        BY CommitAssumption
      <4> QED
        BY <1>3, <2>2, <4>1 DEF Object
    <3>2. new = [op EXCEPT !.uid = obj.uid, !.rv = obj.rv]
      BY <2>2 DEF Previewed
    <3> HIDE DEF new, obj
    <3> QED
      BY <1>2, <2>2, <3>1, <3>2, ZenonT(30) DEF PlannedOps
  <2> QED
    BY <2>1, <2>2, Zenon
<1>5. OnTarget(new)
  <2>1. CASE op.kind = "create"
    <3>1. op.uid = 0 /\ op.rv = 0
      BY <1>1 DEF CommitInv, Reviewed
    <3> QED
      BY <1>1, <1>4, <2>1, <3>1 DEF OnTarget, Previewable, ContentOf
  <2>2. CASE op.kind # "create"
    BY <1>1, <1>3, <1>4, <2>2, Zenon DEF OnTarget, Previewable, ContentOf
  <2> QED
    BY <2>1, <2>2, ZenonT(30)
<1> HIDE DEF new
<1>6. call \in PlanCalls /\ call.at = "store" /\ call.op = new
  BY <1>2, <1>4, Zenon DEF PlanCalls
<1>7. req' = [req EXCEPT ![r] = call]
  BY <1>1, <1>2, Zenon DEF CommitInv, TypeOK, PlanCalls
<1> HIDE DEF call
<1>8. CallOK(r, call)
  BY <1>5, <1>6 DEF CallOK, CommitPlaces, Holding
<1>9. SlotOK(r, call)
  <2>1. r \notin streams
    BY <1>1 DEF CommitInv, SlotsHeld, Committing
  <2> QED
    BY <1>1, <1>6, <2>1, SlotsStep DEF SlotOK, Holding
<1>10. StoreFrame /\ planned' = planned
  BY <1>1, UnchangedFrame DEF storeVars
<1> QED
  BY <1>1, <1>6, <1>7, <1>8, <1>9, <1>10, CallStep, Zenon DEF Holding

\* The reviewed operation goes into the plan store, or is refused there.
LEMMA PlanStoredInv ==
  ASSUME CommitInv, NEW r \in Requests, PlanStored(r), StoreFrame,
         \A id \in DOMAIN planned' \ DOMAIN planned : planned'[id].operation = req[r].op
  PROVE  CommitInv'
<1>1. /\ req[r].at = "store" /\ Create(req[r].subject, req[r].op) /\ Finish(r)
      /\ UNCHANGED <<generation, clusterVars, inflight, applied>>
  BY DEF PlanStored
<1>2. OnTarget(req[r].op)
  BY <1>1 DEF CommitInv, Reviewed
<1>3. \A id \in DOMAIN planned' \ DOMAIN planned : OnTarget(planned'[id].operation)
  BY <1>2
<1> QED
  BY <1>1, <1>3, FinishStep, Zenon

\* k8s.commit begins; a remote plan of the caller makes it ask for a slot first.
LEMMA CommitBeginInv ==
  ASSUME CommitInv, NEW r \in Requests, NEW s \in Subjects, NEW id \in DOMAIN planned,
         NEW code \in Codes \cup {NoCode, BadCode}, CommitBegin(r, s, id, code)
  PROVE  CommitInv'
<1> DEFINE call == [at |-> IF isRemote(id, s) THEN "stream" ELSE "consume",
                    subject |-> s, id |-> id, code |-> code, op |-> NoOp,
                    barred |-> s \notin allowed]
<1>1. /\ req[r] = Idle /\ req' = [req EXCEPT ![r] = call]
      /\ UNCHANGED <<storeVars, streams, generation, clusterVars, inflight, applied>>
  BY DEF CommitBegin
<1>2. id \in PlanIDs
  BY DEF CommitInv, StoreFacts
<1>3. (s \notin allowed) \in BOOLEAN
  OBVIOUS
<1>4. call \in WaitingCalls
  BY <1>2, <1>3, Zenon DEF WaitingCalls
<1>5. /\ call.at \in {"stream", "consume"} /\ call.id = id /\ call.subject = s
      /\ call.at = "consume" => ~isRemote(id, s)
  OBVIOUS
<1>6. call.barred => s \notin allowed
  BY Zenon
<1> HIDE DEF call
<1>7. CallOK(r, call)
  BY <1>4, <1>5, <1>6, Zenon DEF CallOK, Holding
<1>8. SlotOK(r, call)
  <2>1. r \notin streams
    BY <1>1 DEF CommitInv, SlotsHeld, Committing, Idle
  <2> QED
    BY <1>1, <1>5, <2>1, SlotsStep, Zenon DEF SlotOK, Holding
<1>9. StoreFrame /\ planned' = planned
  BY <1>1, UnchangedFrame, Zenon DEF storeVars
<1> QED
  BY <1>1, <1>5, <1>7, <1>8, <1>9, CallStep, ZenonT(30) DEF Holding

\* The slot of a remote command, or the refusal.
LEMMA CommitStreamInv ==
  ASSUME CommitInv, NEW r \in Requests, CommitStream(r)
  PROVE  CommitInv'
<1> DEFINE call == [req[r] EXCEPT !.at = "consume"]
<1>1. /\ req[r].at = "stream"
      /\ UNCHANGED <<storeVars, generation, clusterVars, inflight, applied>>
  BY Zenon DEF CommitStream
<1>2. StoreFrame /\ planned' = planned
  BY <1>1, UnchangedFrame, Zenon DEF storeVars
<1>3. CASE Finish(r)
  BY <1>1, <1>2, <1>3, FinishStep
<1>4. CASE acquireStream(r) /\ At(r, "consume")
  <2>1. req[r] \in WaitingCalls
    BY <1>1, CallShape DEF CommitInv
  <2>2. /\ call \in WaitingCalls /\ call.at = "consume" /\ call.id = req[r].id
        /\ call.barred = req[r].barred /\ call.subject = req[r].subject
    BY <2>1 DEF WaitingCalls
  <2>3. req' = [req EXCEPT ![r] = call]
    BY <1>4, Zenon DEF At, CommitInv, TypeOK
  <2> HIDE DEF call
  <2>4. CallOK(r, call)
    BY <1>1, <2>2, Zenon DEF CallOK, CommitPlaces, Holding, CommitInv, AsPlanned, Permitted, Committing
  <2>5. SlotOK(r, call)
    BY <1>4, <2>2, SlotsStep DEF SlotOK, Holding, acquireStream, CommitPlaces
  <2> QED
    BY <1>1, <1>2, <2>2, <2>3, <2>4, <2>5, CallStep, Zenon DEF Holding
<1> QED
  BY <1>3, <1>4, Zenon DEF CommitStream

\* What a step of Consume does for the commit that made it: a plan is handed over
\* only to its subject, and for the first time.
Handed(r) ==
  LET id == req[r].id
  IN  /\ planned' = planned
      /\ reply'.outcome = "granted" =>
           /\ req[r].code \in Codes
           /\ id \in DOMAIN plans
           /\ plans[id].subject = req[r].subject
           /\ grants[id] = <<>>
           /\ grants'[id] # <<>>
           /\ reply'.operation = planned[id].operation

\* Consume hands the operation to a commit that is then its only holder, and that
\* has a slot if the operation is a remote one.
LEMMA CommitConsumeInv ==
  ASSUME CommitInv, NEW r \in Requests, CommitConsume(r), StoreFrame, Handed(r)
  PROVE  CommitInv'
<1> DEFINE id == req[r].id
           s == req[r].subject
           op == planned[id].operation
           call == [req[r] EXCEPT !.at = "authorize", !.op = op]
<1>1. /\ req[r].at = "consume" /\ Consume(id, s, req[r].code)
      /\ UNCHANGED <<generation, clusterVars, inflight, applied>>
  BY Zenon DEF CommitConsume
<1>2. req[r] \in WaitingCalls /\ id \in PlanIDs /\ s \in Subjects
  BY <1>1, CallShape, Zenon DEF CommitInv, WaitingCalls
<1>3. /\ StoreFrame /\ planned' = planned
      /\ reply'.outcome = "granted" =>
           /\ req[r].code \in Codes /\ id \in DOMAIN plans /\ plans[id].subject = s
           /\ grants[id] = <<>> /\ grants'[id] # <<>> /\ reply'.operation = op
  BY Zenon DEF Handed
<1>4. CASE reply'.outcome # "granted" /\ Finish(r)
  BY <1>1, <1>3, <1>4, FinishStep
<1>5. CASE /\ reply'.outcome = "granted"
           /\ req' = [req EXCEPT ![r].at = "authorize", ![r].op = reply'.operation]
           /\ UNCHANGED streams
  <2>1. id \in DOMAIN planned /\ plans[id].operation = op /\ op \in PlannedOps
    <3>1. id \in DOMAIN planned /\ plans[id].operation = op
      BY <1>3, <1>5, Zenon DEF CommitInv, StoreFacts, StoredAsPlanned
    <3>2. planned[id] \in PlanRecord
      BY <3>1, Zenon DEF CommitInv, StoreFacts
    <3>3. op \in Operations
      BY <3>2 DEF PlanRecord
    <3> QED
      BY <3>1, <3>3, CommitAssumption, Zenon
  <2> HIDE DEF op
  <2>2. /\ call \in HoldingCalls /\ call.at = "authorize" /\ call.op = op /\ call.id = id
        /\ call.subject = s /\ call.barred = req[r].barred
    BY <1>2, <1>3, <1>5, <2>1, Zenon DEF WaitingCalls, HoldingCalls, Holding
  <2>3. req' = [req EXCEPT ![r] = call]
    BY <1>2, <1>3, <1>5, Zenon DEF CommitInv, TypeOK, WaitingCalls
  <2> HIDE DEF call, s
  <2>4. CallOK(r, call)
    <3>1. call.barred => call.subject \notin allowed
      BY <1>1, <2>2, Zenon DEF CommitInv, Permitted, Committing, s
    <3>2. applied[id] = <<>> /\ \A q \in Requests : ~Held(q, id)
      BY <1>2, <1>3, <1>5 DEF CommitInv, InOnePlace, Held
    <3>3. \A w \in inflight : w.id # id
      BY <1>3, <1>5 DEF CommitInv, InOnePlace
    <3> HIDE DEF id
    <3> QED
      BY <2>1, <2>2, <3>1, <3>2, <3>3 DEF CallOK, op
  <2>5. SlotOK(r, call)
    <3>1. op.kind = "remote" => isRemote(id, s)
      <4>1. op.kind = "remote" => op \in RemoteOps
        BY <2>1, CommitAssumption, Zenon
      <4> QED
        BY <1>3, <1>5, <2>1, <4>1, Zenon DEF isRemote
    <3>2. op.kind = "remote" => r \in streams
      BY <1>1, <3>1 DEF CommitInv, SlotsHeld, s
    <3> QED
      BY <1>5, <2>2, <3>2, SlotsStep DEF SlotOK, CommitPlaces, Holding
  <2> HIDE DEF id
  <2> QED
    BY <1>1, <1>3, <1>5, <2>2, <2>3, <2>4, <2>5, CallStep, Zenon
<1> QED
  BY <1>4, <1>5 DEF CommitConsume

\* The generation test, CheckAndAuthorizeOperation, the preconditions and the
\* second validation only let a commit pass.
LEMMA CommitChecksInv ==
  ASSUME CommitInv, NEW r \in Requests,
         CommitAuthorize(r) \/ CommitPrecheck(r) \/ CommitRevalidate(r)
  PROVE  CommitInv'
<1>1. CASE CommitAuthorize(r)
  <2>1. ~req[r].barred /\ req[r].at \in Holding
    BY <1>1, Zenon DEF CommitAuthorize, CommitInv, Permitted, Committing, Holding
  <2> QED
    BY <1>1, <2>1, MoveStep, Zenon DEF CommitAuthorize
<1>2. CASE CommitPrecheck(r)
  <2>1. ~req[r].barred /\ req[r].at \in Holding
    BY <1>2, Zenon DEF CommitPrecheck, CommitInv, Permitted, Committing, Holding
  <2>2. PICK place \in {"revalidate", "send"} : At(r, place)
    BY <1>2, Zenon DEF CommitPrecheck
  <2> QED
    BY <1>2, <2>1, <2>2, MoveStep, Zenon DEF CommitPrecheck
<1>3. CASE CommitRevalidate(r)
  <2>1. ~req[r].barred /\ req[r].at \in Holding
    BY <1>3 DEF CommitRevalidate, CommitInv, Permitted, Committing, Holding
  <2> QED
    BY <1>3, <2>1, MoveStep, ZenonT(30) DEF CommitRevalidate
<1> QED
  BY <1>1, <1>2, <1>3, Zenon

\* Every way out of the handlers, and the streams of k8s.read.
LEMMA ReturnInv ==
  ASSUME CommitInv, NEW r \in Requests, Return(r) \/ ReadStreamEnds(r)
  PROVE  CommitInv'
<1>1. Finish(r) /\ UNCHANGED <<storeVars, generation, clusterVars, inflight, applied>>
  BY DEF Return, ReadStreamEnds
<1>2. StoreFrame /\ planned' = planned
  BY <1>1, UnchangedFrame DEF storeVars
<1> QED
  BY <1>1, <1>2, FinishStep, Zenon

\* k8s.read with watch or followed logs takes a slot.
LEMMA ReadStreamInv ==
  ASSUME CommitInv, NEW r \in Requests, ReadStream(r)
  PROVE  CommitInv'
<1> DEFINE call == [at |-> "streaming"]
<1>1. /\ acquireStream(r) /\ req' = [req EXCEPT ![r] = call]
      /\ UNCHANGED <<storeVars, generation, clusterVars, inflight, applied>>
  BY DEF ReadStream
<1>2. StoreFrame /\ planned' = planned
  BY <1>1, UnchangedFrame DEF storeVars
<1>3. call.at = "streaming"
  OBVIOUS
<1>4. CallOK(r, call)
  BY <1>3, Zenon DEF CallOK, CommitPlaces, Holding
<1>5. SlotOK(r, call)
  BY <1>1, <1>3, SlotsStep DEF SlotOK, Holding
<1> QED
  BY <1>1, <1>2, <1>3, <1>4, <1>5, CallStep, Zenon DEF Holding

\* What goes over the wire is an operation again.
LEMMA WireShape ==
  ASSUME NEW op \in PlannedOps
  PROVE  /\ Wire(op) \in PlannedOps
         /\ Wire(op).kind = op.kind /\ Wire(op).name = op.name /\ Wire(op).payload = op.payload
         /\ Wire(op).rv = SentVersion(op)
<1>1. SentUID(op) \in 0 .. MaxRevision /\ SentVersion(op) \in 0 .. MaxRevision
  <2>1. MaxRevision \in Nat
    BY CommitAssumption, Zenon
  <2> QED
    BY <2>1 DEF PlannedOps, SentUID, SentVersion
<1> QED
  BY <1>1, Zenon DEF Wire, PlannedOps

\* executeOperation: the operation passes from its holder to the write.
LEMMA CommitSendInv ==
  ASSUME CommitInv, NEW r \in Requests, CommitSend(r)
  PROVE  CommitInv'
<1> DEFINE call == [req[r] EXCEPT !.at = "await"]
           w == [id |-> req[r].id, subject |-> req[r].subject, op |-> Wire(req[r].op)]
<1>1. /\ req[r].at = "send" /\ inflight' = inflight \cup {w} /\ At(r, "await")
      /\ UNCHANGED <<storeVars, streams, generation, clusterVars, applied>>
  BY Zenon DEF CommitSend
<1>2. req[r] \in HoldingCalls /\ req[r].at \in Holding
  BY <1>1, CallShape DEF CommitInv, Holding
<1>3. /\ call \in HoldingCalls /\ call.at = "await" /\ call.op = req[r].op
      /\ call.id = req[r].id /\ call.subject = req[r].subject /\ call.barred = req[r].barred
  BY <1>2, Zenon DEF HoldingCalls
<1>4. w.id = req[r].id /\ w.op = Wire(req[r].op)
  BY Zenon
<1>5. w \in [id : PlanIDs, subject : Subjects, op : PlannedOps]
  BY <1>2, WireShape, Zenon DEF HoldingCalls
<1>6. req' = [req EXCEPT ![r] = call]
  BY <1>1, <1>2, Zenon DEF At, CommitInv, TypeOK
<1> HIDE DEF call, w
<1>7. /\ DOMAIN req = Requests /\ DOMAIN req' = Requests
      /\ req'[r] = call
      /\ \A q \in Requests : q # r => req'[q] = req[q]
  BY <1>6, Zenon DEF CommitInv, TypeOK
<1>8. /\ cluster' = cluster /\ revision' = revision /\ allowed' = allowed /\ streams' = streams
      /\ generation' = generation /\ applied' = applied /\ plans' = plans
      /\ planned' = planned /\ grants' = grants
  BY <1>1 DEF clusterVars, storeVars
<1>9. StoreFrame
  BY <1>1, UnchangedFrame, Zenon
<1>10. TypeOK'
  <2>1. req' \in [Requests -> {Idle, [at |-> "streaming"]} \cup PlanCalls \cup WaitingCalls \cup HoldingCalls]
    BY <1>3, <1>6, Zenon DEF CommitInv, TypeOK
  <2> QED
    BY <1>1, <1>5, <1>8, <2>1, Zenon DEF CommitInv, TypeOK
<1>11. Reviewed'
  <2>1. \A op : OnTarget(op)' <=> OnTarget(op)
    BY <1>8, Zenon DEF OnTarget
  <2>2. \A q \in Requests : req'[q].at \in {"preview", "store"} => req'[q] = req[q]
    BY <1>3, <1>7, Zenon
  <2>3. Reviewed
    BY Zenon DEF CommitInv
  <2> QED
    BY <1>8, <2>1, <2>2, <2>3, Zenon DEF Reviewed
<1>12. InOnePlace'
  <2>1. /\ grants[w.id] # <<>> /\ applied[w.id] = <<>>
        /\ \A q \in Requests : Held(q, w.id) => q = r
        /\ \A v \in inflight : v.id # w.id
    BY <1>2, <1>4, ZenonT(30) DEF CommitInv, InOnePlace
  <2>2. \A q \in Requests : req'[q].at \in Holding => q # r /\ req'[q] = req[q] /\ req[q].id # w.id
    BY <1>3, <1>7, <2>1, Zenon DEF Holding, Held
  <2>3. InOnePlace /\ inflight' = inflight \cup {w} /\ applied' = applied /\ grants' = grants
    BY <1>1, <1>8, Zenon DEF CommitInv, w
  <2>4. ASSUME NEW q \in Requests, req'[q].at \in Holding
        PROVE  /\ grants[req'[q].id] # <<>> /\ applied[req'[q].id] = <<>>
               /\ \A p \in Requests : req'[p].at \in Holding /\ req'[p].id = req'[q].id => p = q
               /\ \A v \in inflight' : v.id # req'[q].id
    <3>1. req'[q] = req[q] /\ req[q].at \in Holding /\ req[q].id # w.id
      BY <2>2, <2>4
    <3>2. \A p \in Requests : req'[p].at \in Holding => req'[p] = req[p]
      BY <2>2, Zenon
    <3> QED
      BY <3>1, <3>2, <2>3 DEF InOnePlace, Held
  <2>5. \A u \in inflight' : /\ grants[u.id] # <<>> /\ applied[u.id] = <<>>
                             /\ \A v \in inflight' : v.id = u.id => v = u
    BY <2>1, <2>3, Zenon DEF InOnePlace
  <2> QED
    BY <2>3, <2>4, <2>5, Zenon DEF InOnePlace, Held
<1>13. AsPlanned'
  <2>1. req[r].id \in DOMAIN planned /\ req[r].op = planned[req[r].id].operation
    BY <1>1, <1>2, Zenon DEF CommitInv, AsPlanned, Committing
  <2>2. \A q \in Requests : Committing(q)' => req'[q].id \in DOMAIN planned
    BY <1>3, <1>7, <2>1, Zenon DEF CommitInv, AsPlanned, Committing
  <2>3. \A q \in Requests : req'[q].at \in Holding \cup {"await"} =>
          req'[q].op = planned[req'[q].id].operation
    BY <1>3, <1>7, <2>1, Zenon DEF CommitInv, AsPlanned
  <2>4. \A v \in inflight' : v.id \in DOMAIN planned /\ v.op = Wire(planned[v.id].operation)
    BY <1>1, <1>4, <2>1, Zenon DEF CommitInv, AsPlanned
  <2> QED
    BY <1>8, <2>2, <2>3, <2>4, Zenon DEF AsPlanned
<1>14. HitAsReviewed'
  BY <1>8, ZenonT(30) DEF CommitInv, HitAsReviewed
<1>15. Permitted'
  <2>1. ~req[r].barred
    BY <1>1, Zenon DEF CommitInv, Permitted, Committing
  <2> QED
    BY <1>3, <1>7, <1>8, <2>1, Zenon DEF CommitInv, Permitted, Committing
<1>16. SlotsHeld'
  <2>1. req[r].op.kind = "remote" => r \in streams
    BY <1>2 DEF CommitInv, SlotsHeld
  <2> QED
    BY <1>3, <1>7, <1>8, <2>1, ZenonT(30) DEF CommitInv, SlotsHeld, Committing, isRemote
<1> QED
  BY <1>9, <1>10, <1>11, <1>12, <1>13, <1>14, <1>15, <1>16, Zenon DEF CommitInv, StoreFrame

=============================================================================
