------------------------------ MODULE ReadOutput ------------------------------
(***************************************************************************)
(* How the answer of a get or list is made from what the API server        *)
(* returned (read in internal/server/reads.go): redaction                  *)
(* (internal/server/redaction.go), then shaping                            *)
(* (internal/server/read_output.go).                                       *)
(*                                                                         *)
(* An object is a function from the paths of its leaves to their values:   *)
(* an empty map is a leaf, a list is a map of indexes that no field path   *)
(* names, and annotations are texts.  A response is one object, or a list  *)
(* of them with metadata of its own.  The contents of summaries and table  *)
(* rows are abstracted to the leaves they are taken from.                  *)
(***************************************************************************)
EXTENDS Naturals, Sequences

CONSTANTS
  FieldNames,    \* the keys of maps
  Responses,     \* what the API server may return
  FieldPaths,    \* values of fieldPaths
  SummaryPaths,  \* the leaves a summary is made from
  Sensitive      \* annotation leaves whose name or text marks them as sensitive

VARIABLES
  response,   \* what the API server returned
  input,      \* the caller's request: resource, policy and output options
  projection, \* the loops of projectKubernetesResponse, while they run
  output      \* the outcome: NoOutput until it is there

outputVars == <<response, input, projection, output>>

NoOutput == [status |-> "none"]
NoProjection == [open |-> FALSE]
Error(code) == [status |-> code]
Redacted == "<redacted>"
EmptyMap == "{}"

Inputs ==
  [resource : {"secrets", "configmaps"}, policy : {"Redact", "Allow", "Deny"},
   mode : {"", "summary", "table", "full"}, omitManagedFields : BOOLEAN,
   omitAnnotations : BOOLEAN, paths : FieldPaths]

ReadInit ==
  /\ response \in Responses
  /\ input \in Inputs
  /\ projection = NoProjection
  /\ output = NoOutput

\* Path p is path a or lies below it.
Leads(a, p) == Len(a) <= Len(p) /\ \A k \in 1 .. Len(a) : a[k] = p[k]

\* The leaves at path a and below it.
At(o, a) == {p \in DOMAIN o : Leads(a, p)}

Only(o, leaves) == [p \in leaves |-> o[p]]

\* A leaf has nothing below it.
IsObject(o) ==
  /\ DOMAIN o \subseteq Seq(FieldNames)
  /\ \A p, q \in DOMAIN o : Leads(p, q) => p = q

ASSUME ReadAssumption ==
  /\ {"data", "stringData", "binaryData", "metadata", "annotations"} \subseteq FieldNames
  /\ \A r \in Responses : /\ Len(r.items) \in Nat /\ DOMAIN r.items = 1 .. Len(r.items)
                          /\ \A i \in DOMAIN r.items : IsObject(r.items[i])
  /\ FieldPaths \subseteq Seq(Seq(FieldNames))

-----------------------------------------------------------------------------
(* Redaction.                                                              *)

\* The values of the maps are redacted, whatever is in them.
RedactMaps(o, maps) ==
  LET entries == UNION {{SubSeq(p, 1, Len(a) + 1) : p \in At(o, a) \ {a}} : a \in maps}
      others == {p \in DOMAIN o : \A a \in maps : Leads(a, p) => p = a}
  IN  [p \in others \cup entries |-> IF p \in entries THEN Redacted ELSE o[p]]

\* Faulty variant: only data is known to hold values.
redactSecretData(o) == RedactMaps(o, {<<"data">>, <<"metadata", "annotations">>})

SecretMaps == {<<"data">>, <<"stringData">>, <<"binaryData">>, <<"metadata", "annotations">>}

redactSecret(o) == RedactMaps(o, SecretMaps)

\* At any depth: annotations of a map called metadata.
redactSensitiveAnnotations(o) ==
  [p \in DOMAIN o |->
     IF p \in Sensitive /\ \E i \in 1 .. Len(p) - 2 : p[i] = "metadata" /\ p[i + 1] = "annotations"
     THEN Redacted ELSE o[p]]

\* Of each object of the response.
redactResult(o) ==
  redactSensitiveAnnotations(
    IF input.resource = "secrets" /\ input.policy = "Redact" THEN redactSecret(o) ELSE o)

-----------------------------------------------------------------------------
(* Options.                                                                *)

\* The default depends on the action; list is asked for exactly when a list comes.
Mode == IF input.mode # "" THEN input.mode
        ELSE IF response.list THEN "summary" ELSE "full"

TableWithPaths == Mode = "table" /\ input.paths # <<>>

Denied == input.resource = "secrets" /\ input.policy = "Deny"

-----------------------------------------------------------------------------
(* Shaping.                                                                *)

\* managedFields and annotations of a map called metadata.
Omits(p, i) ==
  /\ p[i] = "metadata"
  /\ \/ p[i + 1] = "managedFields" /\ input.omitManagedFields
     \/ p[i + 1] = "annotations" /\ input.omitAnnotations

\* At any depth.
Omitted(p) == \E i \in 1 .. Len(p) - 1 : Omits(p, i)

\* The maps that lose a key.
Trimmed(o) ==
  UNION {{SubSeq(p, 1, i) : i \in {k \in 1 .. Len(p) - 1 : Omits(p, k)}} : p \in DOMAIN o}

\* A map that loses all it has stays, empty.
cleanKubernetesValue(o) ==
  LET left == {p \in DOMAIN o : ~Omitted(p)}
      maps == {a \in Trimmed(o) : ~Omitted(a)}
      empty == {a \in maps : \A p \in left \cup maps : Leads(a, p) => p = a}
  IN  [p \in left \cup empty |-> IF p \in left THEN o[p] ELSE EmptyMap]

\* What is shaped.
Items == [i \in DOMAIN response.items |-> cleanKubernetesValue(redactResult(response.items[i]))]

\* listEnvelope, compactListMetadata: the paging fields, if they are set.
listEnvelope(meta) ==
  Only(meta, {k \in DOMAIN meta : k \in {"continue", "remainingItemCount", "resourceVersion"}
                                  /\ meta[k] # ""})

\* Of an object and, for a table, of the columns of its row.
summarizeKubernetesObject(o) == Only(o, DOMAIN o \cap SummaryPaths)

Shaped(items) ==
  [status |-> "ok", items |-> items,
   meta |-> IF response.list THEN listEnvelope(response.meta) ELSE response.meta]

\* Faulty variant: the value's parents are made anew.
setValueAtPathAnew(out, o, path) ==
  LET kept == {p \in DOMAIN out : p[1] # path[1]}
  IN  [p \in kept \cup At(o, path) |-> IF p \in At(o, path) THEN o[p] ELSE out[p]]

\* The value replaces what is there, or what stands where a parent is needed.
setValueAtPath(out, o, path) ==
  LET kept == {p \in DOMAIN out : ~Leads(path, p) /\ ~Leads(p, path)}
  IN  [p \in kept \cup At(o, path) |-> IF p \in At(o, path) THEN o[p] ELSE out[p]]

-----------------------------------------------------------------------------
(* One get or list.                                                        *)

Begins == output = NoOutput /\ ~projection.open

\* Before anything is read, or by redactResult.
Refuse ==
  /\ Begins
  /\ TableWithPaths \/ Denied
  /\ output' = Error(IF TableWithPaths THEN "invalid_input" ELSE "sensitive_read_denied")
  /\ UNCHANGED <<response, input, projection>>

shapeReadOutput ==
  /\ Begins /\ ~Denied /\ input.paths = <<>>
  /\ output' = IF Mode = "full"
               THEN [status |-> "ok", items |-> Items, meta |-> response.meta]
               ELSE Shaped([i \in DOMAIN Items |-> summarizeKubernetesObject(Items[i])])
  /\ UNCHANGED <<response, input, projection>>

\* Where the loops over the objects and their paths are.
Loops(items, out, next, foundAny) ==
  [open |-> TRUE, items |-> items, out |-> out, next |-> next, foundAny |-> foundAny]

projectKubernetesResponse ==
  /\ Begins /\ ~Denied /\ ~TableWithPaths /\ input.paths # <<>>
  /\ projection' = Loops(<<>>, <<>>, 1, FALSE)
  /\ UNCHANGED <<response, input, output>>

\* The object that is projected.
Current == Items[Len(projection.items) + 1]
Projecting == projection.open /\ Len(projection.items) < Len(response.items)

\* The next path; one that is not there is passed over.
projectObject ==
  /\ Projecting /\ projection.next <= Len(input.paths)
  /\ LET path == input.paths[projection.next]
         found == At(Current, path) # {}
     IN  projection' = Loops(projection.items,
                             IF found THEN setValueAtPath(projection.out, Current, path)
                             ELSE projection.out,
                             projection.next + 1, projection.foundAny \/ found)
  /\ UNCHANGED <<response, input, output>>

ObjectProjected ==
  /\ Projecting /\ projection.next > Len(input.paths)
  /\ projection' = Loops(Append(projection.items, projection.out), <<>>, 1, projection.foundAny)
  /\ UNCHANGED <<response, input, output>>

ResponseProjected ==
  /\ projection.open /\ ~Projecting
  /\ output' = IF response.items # <<>> /\ ~projection.foundAny
               THEN Error("field_path_not_found") ELSE Shaped(projection.items)
  /\ projection' = NoProjection
  /\ UNCHANGED <<response, input>>

\* The next request.
ReadAgain ==
  /\ output # NoOutput
  /\ output' = NoOutput
  /\ UNCHANGED <<response, input, projection>>

ReadNext ==
  \/ Refuse \/ shapeReadOutput \/ projectKubernetesResponse
  \/ projectObject \/ ObjectProjected \/ ResponseProjected \/ ReadAgain

ReadSpec == ReadInit /\ [][ReadNext]_outputVars

-----------------------------------------------------------------------------
(* Properties.                                                             *)

Given == output.status = "ok"

IsSecretValue(p) ==
  \/ p[1] \in {"data", "stringData", "binaryData"} /\ Len(p) > 1
  \/ Leads(<<"metadata", "annotations">>, p) /\ Len(p) > 2

\* Unless policy allows it, no answer about Secrets shows a value or an
\* annotation, whatever fields and output mode the caller asks for, one object or
\* a list: every such leaf is redacted or left out.
SecretsStayHidden ==
  Given /\ input.resource = "secrets" /\ input.policy # "Allow" =>
    \A i \in DOMAIN output.items : \A p \in DOMAIN output.items[i] :
      IsSecretValue(p) => output.items[i][p] = Redacted

\* fieldPaths: each object of the answer holds exactly the leaves that are at or
\* under some requested path, with their values; overlapping paths and their
\* order make no difference, and an answer is refused only if nothing was found.
ProjectionExact ==
  input.paths # <<>> =>
    LET Wanted(o) == {p \in DOMAIN o : \E j \in DOMAIN input.paths : Leads(input.paths[j], p)}
    IN  /\ Given => output.items = [i \in DOMAIN Items |-> Only(Items[i], Wanted(Items[i]))]
        /\ output.status = "field_path_not_found" <=>
             /\ output # NoOutput /\ ~TableWithPaths /\ ~Denied
             /\ response.items # <<>> /\ \A i \in DOMAIN Items : Wanted(Items[i]) = {}

\* A list can always be continued: every output mode passes the continue token
\* and the resourceVersion on.
PagingKept ==
  Given /\ response.list =>
    \A k \in DOMAIN response.meta \cap {"continue", "resourceVersion"} :
      response.meta[k] # "" => k \in DOMAIN output.meta /\ output.meta[k] = response.meta[k]

\* Shaping gives the caller what it asked for, and the way to the rest of a list.
ReadAsAsked == ProjectionExact /\ PagingKept

=============================================================================
