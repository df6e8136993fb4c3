----------------------------- MODULE PlanCommit -----------------------------
(***************************************************************************)
(* k8s.plan and k8s.commit (internal/server/operations.go) as concurrent   *)
(* requests over the plan store, the stream slots and the Kubernetes API.  *)
(*                                                                         *)
(* Each handler is cut where another request or another client of the      *)
(* cluster can act: at every API call and at every call into a shared      *)
(* structure.  A write is a message: the API server handles it some time   *)
(* after it was sent, also when the request that sent it has timed out or  *)
(* the server has restarted.                                               *)
(*                                                                         *)
(* Kinds stand for the actions that reach the API the same way: "create";  *)
(* "modify" for apply, patch, scale, restart and update, which all send    *)
(* the planned resourceVersion; "delete", which sends it with the UID;     *)
(* "remote" for exec and attach, which send neither.                       *)
(***************************************************************************)
EXTENDS PlanStore, Streams

CONSTANTS
  Requests,      \* HTTP requests that can be in progress at the same time
  Mode,          \* spec.mode, "SafeWrite" or "Dangerous": ReadOnly has no plan tool
  Names,         \* object names
  Contents,      \* what an object can hold, as far as SafeWrite tells apart
  SafeChange,    \* the pairs <<before, after>> SafeWrite validation accepts
  Absent,        \* a name without an object; also the "before" of a create
  MaxRevision,   \* bound: writes to the cluster
  MaxGeneration  \* bound: changes of the server's configuration

Kinds == IF Mode = "SafeWrite" THEN {"create", "modify"}
         ELSE {"create", "modify", "delete", "remote"}

\* Operation: uid and rv are TargetUID and ResourceVersion, 0 when empty.
PlannedOps ==
  [kind : Kinds, name : Names, payload : Contents, uid : 0 .. MaxRevision,
   rv : 0 .. MaxRevision, generation : 0 .. MaxGeneration]

ASSUME CommitAssumption ==
  /\ Mode \in {"SafeWrite", "Dangerous"}
  /\ Absent \notin Contents
  /\ SafeChange \subseteq (Contents \cup {Absent}) \X Contents
  /\ MaxRevision \in Nat
  /\ MaxGeneration \in Nat
  /\ Operations = PlannedOps
  /\ RemoteOps = {op \in PlannedOps : op.kind = "remote"}

VARIABLES
  req,         \* req[r]: the tool call of request r, Idle when it has none
  generation,  \* config.Generation of the running server
  cluster,     \* external: the objects in the API server
  revision,    \* external: the last resourceVersion the API server issued
  allowed,     \* external: the subjects whose RBAC permits the operations
  inflight,    \* writes sent to the API server and not yet handled by it
  applied      \* history: applied[id]: the objects the writes of plan id hit

clusterVars == <<cluster, revision, allowed>>
vars == <<storeVars, streams, req, generation, clusterVars, inflight, applied>>

-----------------------------------------------------------------------------
Object ==
  [uid : 1 .. MaxRevision, rv : 1 .. MaxRevision, managed : BOOLEAN, content : Contents]

Idle == [at |-> "idle"]

ContentOf(obj) == IF obj = Absent THEN Absent ELSE obj.content

Init ==
  /\ StoreInit
  /\ StreamsInit
  /\ req = [r \in Requests |-> Idle]
  /\ generation = 0
  /\ cluster = [n \in Names |-> Absent]
  /\ revision = 0
  /\ allowed = Subjects
  /\ inflight = {}
  /\ applied = [id \in PlanIDs |-> <<>>]

\* The request moves on within its handler.
At(r, place) == req' = [req EXCEPT ![r].at = place]

\* The handler returns: its deferred functions run.
Finish(r) ==
  /\ req' = [req EXCEPT ![r] = Idle]
  /\ releaseStream(r)

-----------------------------------------------------------------------------
(* k8s.plan                                                                *)

\* Decoding, the mode check and CheckAndAuthorizeOperation.
PlanBegin(r, s, kind, n, payload) ==
  /\ req[r] = Idle
  /\ s \in allowed
  /\ req' = [req EXCEPT ![r] =
               [at |-> "preview", subject |-> s,
                op |-> [kind |-> kind, name |-> n, payload |-> payload, uid |-> 0,
                        rv |-> 0, generation |-> generation]]]
  /\ UNCHANGED <<storeVars, streams, generation, clusterVars, inflight, applied>>

\* Faulty variant: rejectOperatorManaged is not called.
PreviewableManaged(op, obj) ==
  /\ IF op.kind = "create" THEN obj = Absent ELSE obj # Absent
  /\ Mode = "SafeWrite" => <<ContentOf(obj), op.payload>> \in SafeChange

\* What previewOperation requires of the object it reads.  The dry run that
\* follows carries the resourceVersion read, so it succeeds only if the object
\* is still the one read: read and dry run are one step, at the dry run.
Previewable(op, obj) ==
  /\ IF op.kind = "create" THEN obj = Absent
     ELSE obj # Absent /\ ~obj.managed
  /\ Mode = "SafeWrite" => <<ContentOf(obj), op.payload>> \in SafeChange

\* previewOperation fills in the target it read.
Previewed(op, obj) ==
  IF obj = Absent THEN op ELSE [op EXCEPT !.uid = obj.uid, !.rv = obj.rv]

PlanPreview(r) ==
  /\ req[r].at = "preview"
  /\ LET op == req[r].op
         obj == cluster[op.name]
     IN  /\ Previewable(op, obj)
         /\ req' = [req EXCEPT ![r].at = "store", ![r].op = Previewed(op, obj)]
  /\ UNCHANGED <<storeVars, streams, generation, clusterVars, inflight, applied>>

PlanStored(r) ==
  /\ req[r].at = "store"
  /\ Create(req[r].subject, req[r].op)
  /\ Finish(r)
  /\ UNCHANGED <<generation, clusterVars, inflight, applied>>

-----------------------------------------------------------------------------
(* k8s.commit                                                              *)

\* barred records whether the subject has lacked permission ever since.
CommitBegin(r, s, id, code) ==
  /\ req[r] = Idle
  /\ req' = [req EXCEPT ![r] =
               [at |-> IF isRemote(id, s) THEN "stream" ELSE "consume",
                subject |-> s, id |-> id, code |-> code, op |-> NoOp,
                barred |-> s \notin allowed]]
  /\ UNCHANGED <<storeVars, streams, generation, clusterVars, inflight, applied>>

CommitStream(r) ==
  /\ req[r].at = "stream"
  /\ \/ acquireStream(r) /\ At(r, "consume")
     \/ ~CanStream /\ Finish(r)
  /\ UNCHANGED <<storeVars, generation, clusterVars, inflight, applied>>

\* Faulty variant: a refused commit leaves without its deferred release.
CommitConsumeKeepsSlot(r) ==
  /\ req[r].at = "consume"
  /\ Consume(req[r].id, req[r].subject, req[r].code)
  /\ \/ /\ reply'.outcome = "granted"
        /\ req' = [req EXCEPT ![r].at = "authorize", ![r].op = reply'.operation]
     \/ /\ reply'.outcome # "granted"
        /\ req' = [req EXCEPT ![r] = Idle]
  /\ UNCHANGED <<streams, generation, clusterVars, inflight, applied>>

CommitConsume(r) ==
  /\ req[r].at = "consume"
  /\ Consume(req[r].id, req[r].subject, req[r].code)
  /\ \/ /\ reply'.outcome = "granted"
        /\ req' = [req EXCEPT ![r].at = "authorize", ![r].op = reply'.operation]
        /\ UNCHANGED streams
     \/ /\ reply'.outcome # "granted"
        /\ Finish(r)
  /\ UNCHANGED <<generation, clusterVars, inflight, applied>>

\* Faulty variant: commit relies on the authorization made while planning.
CommitAuthorizeSkipped(r) ==
  /\ req[r].at = "authorize"
  /\ req[r].op.generation = generation
  /\ At(r, "precheck")
  /\ UNCHANGED <<storeVars, streams, generation, clusterVars, inflight, applied>>

\* The generation test and CheckAndAuthorizeOperation.
CommitAuthorize(r) ==
  /\ req[r].at = "authorize"
  /\ req[r].op.generation = generation
  /\ req[r].subject \in allowed
  /\ At(r, "precheck")
  /\ UNCHANGED <<storeVars, streams, generation, clusterVars, inflight, applied>>

\* checkOperationPreconditions: one read of the target.
Unchanged(op, obj) ==
  IF op.kind = "create" THEN obj = Absent
  ELSE obj # Absent /\ obj.uid = op.uid /\ obj.rv = op.rv

CommitPrecheck(r) ==
  /\ req[r].at = "precheck"
  /\ Unchanged(req[r].op, cluster[req[r].op.name])
  /\ At(r, IF Mode = "SafeWrite" THEN "revalidate" ELSE "send")
  /\ UNCHANGED <<storeVars, streams, generation, clusterVars, inflight, applied>>

\* Faulty variant: the second preview is made on the operation itself.
CommitRevalidateInPlace(r) ==
  LET op == req[r].op
      obj == cluster[op.name]
  IN  /\ req[r].at = "revalidate"
      /\ Previewable(op, obj)
      /\ req' = [req EXCEPT ![r].at = "send", ![r].op = Previewed(op, obj)]
      /\ UNCHANGED <<storeVars, streams, generation, clusterVars, inflight, applied>>

\* SafeWrite previews a copy of the operation again; the copy is discarded.
CommitRevalidate(r) ==
  /\ req[r].at = "revalidate"
  /\ Previewable(req[r].op, cluster[req[r].op.name])
  /\ At(r, "send")
  /\ UNCHANGED <<storeVars, streams, generation, clusterVars, inflight, applied>>

\* Faulty variant: a modification is sent without the planned resourceVersion.
SentVersionDeletesOnly(op) == IF op.kind = "delete" THEN op.rv ELSE 0

\* The resourceVersion goes into the object, the patch (addPatchResourceVersion)
\* or the delete's preconditions; a remote command has nowhere to carry it.
SentVersion(op) == IF op.kind = "remote" THEN 0 ELSE op.rv

\* Only a delete has a UID precondition.
SentUID(op) == IF op.kind = "delete" THEN op.uid ELSE 0

Wire(op) == [op EXCEPT !.uid = SentUID(op), !.rv = SentVersion(op)]

\* executeOperation: the write leaves with the planned preconditions.
CommitSend(r) ==
  /\ req[r].at = "send"
  /\ inflight' = inflight \cup
       {[id |-> req[r].id, subject |-> req[r].subject, op |-> Wire(req[r].op)]}
  /\ At(r, "await")
  /\ UNCHANGED <<storeVars, streams, generation, clusterVars, applied>>

\* A handler returns from an API call that failed, was refused, timed out or,
\* for the write itself, was answered.
Return(r) ==
  /\ req[r].at \in {"preview", "authorize", "precheck", "revalidate", "send", "await"}
  /\ Finish(r)
  /\ UNCHANGED <<storeVars, generation, clusterVars, inflight, applied>>

-----------------------------------------------------------------------------
(* Other streams: k8s.read with watch or followed logs.                    *)

ReadStream(r) ==
  /\ req[r] = Idle
  /\ acquireStream(r)
  /\ req' = [req EXCEPT ![r] = [at |-> "streaming"]]
  /\ UNCHANGED <<storeVars, generation, clusterVars, inflight, applied>>

ReadStreamEnds(r) ==
  /\ req[r].at = "streaming"
  /\ Finish(r)
  /\ UNCHANGED <<storeVars, generation, clusterVars, inflight, applied>>

-----------------------------------------------------------------------------
(* The Kubernetes API server and its other clients.                        *)

Accepts(w, obj) ==
  /\ w.subject \in allowed
  /\ (w.op.kind = "create") = (obj = Absent)
  /\ obj # Absent => w.op.uid \in {0, obj.uid} /\ w.op.rv \in {0, obj.rv}

\* The object an accepted write leaves behind.
Written(w, obj) ==
  CASE w.op.kind = "create" ->
         [uid |-> revision + 1, rv |-> revision + 1, managed |-> FALSE, content |-> w.op.payload]
    [] w.op.kind = "modify" -> [obj EXCEPT !.rv = revision + 1, !.content = w.op.payload]
    [] w.op.kind = "delete" -> Absent
    [] w.op.kind = "remote" -> obj

APIWrite(w) ==
  LET obj == cluster[w.op.name]
  IN  /\ Accepts(w, obj)
      /\ w.op.kind = "remote" \/ revision < MaxRevision
      /\ cluster' = [cluster EXCEPT ![w.op.name] = Written(w, obj)]
      /\ revision' = IF w.op.kind = "remote" THEN revision ELSE revision + 1
      /\ inflight' = inflight \ {w}
      /\ applied' = [applied EXCEPT ![w.id] = Append(@, obj)]
      /\ UNCHANGED <<storeVars, streams, req, generation, allowed>>

APIReject(w) ==
  /\ ~Accepts(w, cluster[w.op.name])
  /\ inflight' = inflight \ {w}
  /\ UNCHANGED <<storeVars, streams, req, generation, clusterVars, applied>>

ExternalWrite(n, managed, content) ==
  /\ revision < MaxRevision
  /\ revision' = revision + 1
  /\ cluster' = [cluster EXCEPT ![n] =
                  [uid |-> IF @ = Absent THEN revision + 1 ELSE @.uid,
                   rv |-> revision + 1, managed |-> managed, content |-> content]]
  /\ UNCHANGED <<storeVars, streams, req, generation, allowed, inflight, applied>>

ExternalDelete(n) ==
  /\ cluster[n] # Absent
  /\ revision < MaxRevision
  /\ revision' = revision + 1
  /\ cluster' = [cluster EXCEPT ![n] = Absent]
  /\ UNCHANGED <<storeVars, streams, req, generation, allowed, inflight, applied>>

Revoke(s) ==
  /\ s \in allowed
  /\ allowed' = allowed \ {s}
  /\ UNCHANGED <<storeVars, streams, req, generation, cluster, revision, inflight, applied>>

Committing(r) == req[r].at \in {"stream", "consume", "authorize", "precheck",
                               "revalidate", "send", "await"}

Permit(s) ==
  /\ s \notin allowed
  /\ allowed' = allowed \cup {s}
  /\ req' = [r \in Requests |-> IF Committing(r) /\ req[r].subject = s
                                THEN [req[r] EXCEPT !.barred = FALSE] ELSE req[r]]
  /\ UNCHANGED <<storeVars, streams, generation, cluster, revision, inflight, applied>>

\* The server process ends and starts again, on the same or a newer
\* configuration: NewApp builds an empty store and empty admission state.
Restart ==
  /\ Save([plans |-> [id \in {} |-> {}], used |-> 0, charges |-> [s \in {} |-> 0]])
  /\ req' = [r \in Requests |-> Idle]
  /\ streams' = {}
  /\ generation' \in generation .. MaxGeneration
  /\ UNCHANGED <<now, reply, history, clusterVars, inflight, applied>>

Clock == Tick /\ UNCHANGED <<streams, req, generation, clusterVars, inflight, applied>>

-----------------------------------------------------------------------------
Handler(r) ==
  \/ PlanPreview(r)
  \/ PlanStored(r)
  \/ CommitStream(r)
  \/ CommitConsume(r)
  \/ CommitAuthorize(r)
  \/ CommitPrecheck(r)
  \/ CommitRevalidate(r)
  \/ CommitSend(r)
  \/ Return(r)
  \/ ReadStreamEnds(r)

Client(r) ==
  \/ \E s \in Subjects, kind \in Kinds, n \in Names, payload \in Contents :
       PlanBegin(r, s, kind, n, payload)
  \* A caller can only name an identifier that k8s.plan has returned.
  \/ \E s \in Subjects, id \in DOMAIN planned, code \in Codes \cup {NoCode, BadCode} :
       CommitBegin(r, s, id, code)
  \/ ReadStream(r)

Environment ==
  \/ \E w \in inflight : APIWrite(w) \/ APIReject(w)
  \/ \E n \in Names, managed \in BOOLEAN, content \in Contents :
       ExternalWrite(n, managed, content)
  \/ \E n \in Names : ExternalDelete(n)
  \/ \E s \in Subjects : Revoke(s) \/ Permit(s)
  \/ Clock

Next ==
  \/ \E r \in Requests : Handler(r) \/ Client(r)
  \/ Environment
  \/ Restart

Spec == Init /\ [][Next]_vars

-----------------------------------------------------------------------------
(* Properties.                                                             *)

\* The places of a commit that holds its plan's operation and has not sent it.
Holding == {"authorize", "precheck", "revalidate", "send"}

\* What a tool call carries, by where its handler stands.
PlanCalls == [at : {"preview", "store"}, subject : Subjects, op : PlannedOps]

WaitingCalls ==
  [at : {"stream", "consume"}, subject : Subjects, id : PlanIDs,
   code : Codes \cup {NoCode, BadCode}, op : {NoOp}, barred : BOOLEAN]

HoldingCalls ==
  [at : Holding \cup {"await"}, subject : Subjects, id : PlanIDs, code : Codes,
   op : PlannedOps, barred : BOOLEAN]

\* Where the handlers can stand and what they carry (req), and the messages on
\* the way to the API server.
TypeOK ==
  /\ streams \subseteq Requests
  /\ req \in [Requests -> {Idle, [at |-> "streaming"]} \cup PlanCalls \cup WaitingCalls \cup HoldingCalls]
  /\ generation \in 0 .. MaxGeneration
  /\ cluster \in [Names -> Object \cup {Absent}]
  /\ revision \in 0 .. MaxRevision
  /\ allowed \subseteq Subjects
  /\ inflight \subseteq [id : PlanIDs, subject : Subjects, op : PlannedOps]
  /\ applied \in [PlanIDs -> Seq(Object \cup {Absent})]

\* A reviewed change takes effect at most once, whatever commits of the same
\* plan race, time out while their write is on its way, or are repeated after
\* a lost answer or a restart.
AppliedOnce == \A id \in PlanIDs : Len(applied[id]) <= 1

\* A change takes effect only on exactly the object its plan was previewed on:
\* a create where nothing existed, any other write on the same UID at the same
\* resourceVersion, although the object may change between every two steps of
\* commit.  (exec and attach send no precondition and are not covered.)
AppliedAsReviewed ==
  \A id \in PlanIDs : \A i \in DOMAIN applied[id] :
    LET op == planned[id].operation
        obj == applied[id][i]
    IN  /\ op.kind = "create" => obj = Absent
        /\ op.kind \in {"modify", "delete"} =>
             obj # Absent /\ obj.uid = op.uid /\ obj.rv = op.rv

\* No write changes an object that carries the operator's managed-by label when
\* the write takes effect, although the label is only read while previewing.
ManagedUntouched ==
  \A id \in PlanIDs : \A i \in DOMAIN applied[id] :
    planned[id].operation.kind \in {"modify", "delete"} => ~applied[id][i].managed

\* In SafeWrite mode every change that takes effect is one that validation
\* accepted for the content it actually replaces.
SafeWriteValidated ==
  Mode = "SafeWrite" =>
    \A id \in PlanIDs : \A i \in DOMAIN applied[id] :
      <<ContentOf(applied[id][i]), planned[id].operation.payload>> \in SafeChange

\* Commit's second validation (operations.go, commit) looks at a newer object
\* than the reviewed one: a SafeWrite change that takes effect is both the one
\* that was reviewed, on the object it was reviewed on, and a validated one.
SafeWriteAsReviewed == AppliedAsReviewed /\ SafeWriteValidated

\* A write leaves the server only for a subject that has been authorized since
\* its commit began: permission withdrawn after planning is noticed.
AuthorizedAtCommit == \A r \in Requests : req[r].at = "await" => ~req[r].barred

\* Stream slots are held exactly by the streaming requests: a remote plan is
\* handed out only to a request that has its slot, and every way out of the
\* handlers gives the slot back.
StreamSlots ==
  /\ TypeOK
  /\ Cardinality(streams) <= StreamCap
  /\ \A r \in Requests :
       /\ req[r].at \in {"authorize", "precheck", "revalidate", "send", "await"} /\
            req[r].op.kind = "remote" => r \in streams
       /\ r \in streams => req[r].at = "streaming" \/ Committing(r)

=============================================================================
