------------------------------- MODULE MCReads -------------------------------
(***************************************************************************)
(* The parts of the Server that serve reads and share no state, one after  *)
(* the other: part says which of them a behavior is about, and the state   *)
(* of the others stays as it is.                                           *)
(***************************************************************************)
EXTENDS Catalog, Search, SchemaCache, Watch, BoundedIO, ReadOutput

VARIABLE part

-----------------------------------------------------------------------------
(* Search: two reads and two writes, one of them out of policy.            *)

MCReviewOf == <<"get", "patch", "patch", "create">>
MCPrerequisite == <<{}, {"get"}, {"get"}, {"get"}>>

-----------------------------------------------------------------------------
(* ReadOutput: a Secret, one that was applied with stringData, an object   *)
(* that is no Secret; single, in lists and with paging metadata.           *)

Secret ==
  << <<"metadata", "name">>, <<"metadata", "annotations", "token">>,
     <<"metadata", "managedFields">>, <<"data", "k">> >>
Applied ==
  << <<"metadata", "name">>, <<"metadata", "annotations", "note">>, <<"stringData", "k">>,
     <<"spec", "template", "metadata", "annotations", "token">> >>
Plain == << <<"data">>, <<"spec", "a">>, <<"spec", "b", "c">> >>

Object(paths) == [p \in {paths[i] : i \in DOMAIN paths} |-> IF p = <<"data">> THEN "{}" ELSE "v"]

Lists ==
  {<<>>, <<Object(Secret)>>, <<Object(Applied)>>, <<Object(Secret), Object(Applied)>>,
   <<Object(Plain), Object(Secret)>>}

MCResponses ==
  [list : {FALSE}, items : {<<Object(o)>> : o \in {Secret, Applied, Plain}}, meta : {<<>>}]
  \cup [list : {TRUE}, items : Lists,
        meta : {[resourceVersion |-> "5", continue |-> ""],
                [resourceVersion |-> "5", continue |-> "c", selfLink |-> "s"]}]

MCFieldPaths ==
  {<<>>, << <<"data">> >>, << <<"data", "k">>, <<"data">> >>, << <<"spec", "b">>, <<"spec">> >>,
   << <<"spec">>, <<"spec", "b", "c">> >>, << <<"spec", "a">>, <<"spec", "b">> >>,
   << <<"metadata", "annotations">>, <<"stringData">> >>, << <<"absent">> >>}

MCFieldNames == {"metadata", "name", "annotations", "managedFields", "token", "note", "data", "stringData",
                 "binaryData", "k", "spec", "template", "a", "b", "c", "absent"}

MCSummaryPaths == {<<"metadata", "name">>, <<"spec", "a">>}

MCSensitive ==
  {<<"metadata", "annotations", "token">>, <<"spec", "template", "metadata", "annotations", "token">>}

-----------------------------------------------------------------------------
allVars ==
  <<part, catalogVars, searchVars, schemaVars, watchVars, ioVars, outputVars>>

\* One initial state of a part that is not looked at.
SearchIdle ==
  /\ catalog = <<>> /\ permitted = {} /\ page = NoPage /\ cursor = 0 /\ pages = <<>>
  /\ done = TRUE /\ moved = FALSE /\ altered = FALSE /\ upsets = 0
WatchIdle ==
  /\ log = <<>> /\ since = 0 /\ received = <<>> /\ cut = {} /\ faults = 0
  /\ call = [open |-> TRUE, pos |-> 0, items |-> <<>>, count |-> 0, bytes |-> 0, last |-> 0]
IOIdle == IOInit /\ reader = "body" /\ length = 0
ReadIdle ==
  /\ ReadInit
  /\ response = [list |-> FALSE, items |-> <<Object(Plain)>>, meta |-> <<>>]
  /\ input = [resource |-> "configmaps", policy |-> "Redact", mode |-> "", paths |-> <<>>,
              omitManagedFields |-> TRUE, omitAnnotations |-> TRUE]

Init ==
  /\ part \in {"catalog", "search", "schema", "watch", "io", "output"}
  /\ CatalogInit /\ SchemaInit
  /\ IF part = "watch" THEN WatchInit ELSE WatchIdle
  /\ IF part = "search" THEN SearchInit ELSE SearchIdle
  /\ IF part = "io" THEN IOInit ELSE IOIdle
  /\ IF part = "output" THEN ReadInit ELSE ReadIdle

Next ==
  /\ UNCHANGED part
  /\ \/ /\ part = "catalog" /\ CatalogNext
        /\ UNCHANGED <<searchVars, schemaVars, watchVars, ioVars, outputVars>>
     \/ /\ part = "search" /\ SearchNext
        /\ UNCHANGED <<catalogVars, schemaVars, watchVars, ioVars, outputVars>>
     \/ /\ part = "schema" /\ SchemaNext
        /\ UNCHANGED <<catalogVars, searchVars, watchVars, ioVars, outputVars>>
     \/ /\ part = "watch" /\ WatchNext
        /\ UNCHANGED <<catalogVars, searchVars, schemaVars, ioVars, outputVars>>
     \/ /\ part = "io" /\ IONext
        /\ UNCHANGED <<catalogVars, searchVars, schemaVars, watchVars, outputVars>>
     \/ /\ part = "output" /\ ReadNext
        /\ UNCHANGED <<catalogVars, searchVars, schemaVars, watchVars, ioVars>>

Spec ==
  /\ Init /\ [][Next]_allVars
  /\ part = "catalog" => CatalogFairness
  /\ SearchFairness
  /\ WatchFairness

-----------------------------------------------------------------------------
(* A part that is not looked at has come to rest: nothing is due in it.    *)

\* catalogCache.list: the snapshot ends up as the cluster's resources are.
CatalogConverges == part = "catalog" => Converges

=============================================================================
