------------------------------- MODULE Streams -------------------------------
(***************************************************************************)
(* The stream slots of requestAdmission (internal/server/admission.go): a  *)
(* buffered channel that watch, followed logs and exec/attach must enter   *)
(* without waiting, one slot short of the server's concurrency.            *)
(***************************************************************************)
EXTENDS Integers, FiniteSets

CONSTANT MaxConcurrent   \* spec.limits.maxConcurrent

ASSUME StreamsAssumption == MaxConcurrent \in Nat \ {0}

VARIABLE streams         \* the requests that hold a slot

\* Faulty variant: streams may take every slot.
StreamCapAll == MaxConcurrent

\* max(0, concurrent - 1).
StreamCap == MaxConcurrent - 1

StreamsInit == streams = {}

\* stream_disabled and stream_capacity are both immediate refusals.
CanStream == Cardinality(streams) < StreamCap

acquireStream(r) ==
  /\ CanStream
  /\ streams' = streams \cup {r}

releaseStream(r) == streams' = streams \ {r}

=============================================================================
