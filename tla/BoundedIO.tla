------------------------------- MODULE BoundedIO -------------------------------
(***************************************************************************)
(* The three places that pass on a stream of bytes up to a limit: the body *)
(* of an API response (responseLimitBody in internal/server/auth.go), what *)
(* a remote command prints (progressBuffer in internal/server/remote.go)   *)
(* and followed Pod logs (logs in internal/server/reads.go).  Each takes   *)
(* the stream in pieces it does not choose.                                *)
(*                                                                         *)
(* The bytes of a stream are numbered from 1; newlines says which of them  *)
(* end a line.                                                             *)
(***************************************************************************)
EXTENDS Integers, Sequences, FiniteSets

CONSTANTS
  Limit,      \* the limit in bytes
  MaxLines,   \* spec.limits.maxListItems
  LogEnvelope, \* bytes of a result around its log lines
  MaxLength   \* bound: bytes of a stream

ASSUME BoundedIOAssumption == Limit \in Nat /\ MaxLines \in Nat /\ LogEnvelope \in Nat /\ MaxLength \in Nat

VARIABLES
  reader,     \* "body", "buffer" or "logs"
  length,     \* how many bytes the stream has
  newlines,   \* the bytes that end a line
  pos,        \* the bytes taken from the stream
  kept,       \* what was passed on: bytes, for logs a sequence of them per line
  cutOff,     \* truncated, or exceeded
  ended       \* how the call ended, "" while it runs

ioVars == <<reader, length, newlines, pos, kept, cutOff, ended>>

Interval(a, b) == [i \in 1 .. b - a |-> a + i]

IOInit ==
  /\ reader \in {"body", "buffer", "logs"}
  /\ length \in 0 .. MaxLength
  /\ newlines \in IF reader = "logs" THEN SUBSET (1 .. length) ELSE {{}}
  /\ pos = 0
  /\ kept = <<>>
  /\ cutOff = FALSE
  /\ ended = ""

\* What does not change while a stream is read.
Fixed == UNCHANGED <<reader, length, newlines>>

Smaller(a, b) == IF a <= b THEN a ELSE b

-----------------------------------------------------------------------------
(* responseLimitBody.Read with a buffer of size bytes; the body gives got. *)

Remaining == Limit - Len(kept)

\* A body whose declared length is over the limit is not read at all.
BodyDeclared ==
  /\ reader = "body" /\ ended = "" /\ pos = 0
  /\ length > Limit
  /\ cutOff' = TRUE
  /\ ended' = "too large"
  /\ UNCHANGED <<pos, kept>> /\ Fixed

\* Faulty variant: the buffer is cut to what remains, not to one byte more.
AskedExactly(size) == Smaller(size, Remaining)

\* One byte more than remains, to notice that there is one; a single byte once
\* nothing remains.
Asked(size) == Smaller(size, Remaining + 1)

BodyRead(size, got) ==
  /\ reader = "body" /\ ended = ""
  /\ got \in 1 .. Smaller(Asked(size), length - pos)
  /\ pos' = pos + got
  /\ kept' = kept \o Interval(pos, pos + Smaller(got, Remaining))
  /\ cutOff' = (got > Remaining)
  /\ ended' = IF got > Remaining THEN "too large" ELSE ""
  /\ Fixed

BodyEOF(size) ==
  /\ reader = "body" /\ ended = ""
  /\ Smaller(Asked(size), length - pos) = 0
  /\ ended' = "eof"
  /\ UNCHANGED <<pos, kept, cutOff>> /\ Fixed

-----------------------------------------------------------------------------
(* progressBuffer.Write of size bytes.                                     *)

BufferKeeps(size) == Smaller(size, Remaining)

BufferWrite(size) ==
  /\ reader = "buffer" /\ ended = ""
  /\ size \in 1 .. length - pos
  /\ pos' = pos + size
  /\ kept' = kept \o Interval(pos, pos + BufferKeeps(size))
  /\ cutOff' = (cutOff \/ size > Remaining)
  /\ UNCHANGED ended /\ Fixed

\* The remote command ends, at its own will or at the timeout.
BufferDone ==
  /\ reader = "buffer" /\ ended = ""
  /\ ended' = "done"
  /\ UNCHANGED <<pos, kept, cutOff>> /\ Fixed

-----------------------------------------------------------------------------
(* logs with follow: line by line, from a reader that stops after one byte *)
(* more than the limit.                                                    *)

Available == Smaller(length, Limit + 1)

\* ReadString: up to the next newline, or to where the reader stops.
RawEnd ==
  LET ends == {n \in newlines : n > pos /\ n <= Available}
  IN  IF ends = {} THEN Available ELSE CHOOSE n \in ends : \A m \in ends : n <= m

\* normalizeLogLine takes the newline off; the line's bytes stand for it here.
Line(a, b) == Append(kept, Interval(a, b))

\* boundedOutput: a result over the limit is replaced by a truncated preview.
LogsEnd(lines, taken, truncated) ==
  /\ pos' = taken
  /\ kept' = lines
  /\ cutOff' = (truncated \/ taken + LogEnvelope > Limit)
  /\ ended' = "done"
  /\ Fixed

\* Faulty variant: reaching the number of lines ends the call at once.
LogsFullEarly == Len(kept) = MaxLines

LogsFull == pos < RawEnd /\ Len(kept) >= MaxLines

LogsTooManyLines ==
  /\ reader = "logs" /\ ended = ""
  /\ LogsFull
  /\ LogsEnd(kept, pos, TRUE)

\* The line does not fit: its beginning is kept, unless nothing fits.
LogsTooManyBytes ==
  /\ reader = "logs" /\ ended = ""
  /\ ~LogsFull
  /\ RawEnd > Limit
  /\ LogsEnd(IF pos < Limit THEN Line(pos, Limit) ELSE kept, Limit, TRUE)

LogsLine ==
  /\ reader = "logs" /\ ended = ""
  /\ ~LogsFull
  /\ pos < RawEnd /\ RawEnd <= Limit
  /\ RawEnd \in newlines
  /\ pos' = RawEnd
  /\ kept' = Line(pos, RawEnd)
  /\ UNCHANGED <<cutOff, ended>> /\ Fixed

\* The log ends: with a last line that has no newline, or with nothing.
LogsEOF ==
  /\ reader = "logs" /\ ended = ""
  /\ ~LogsFull
  /\ RawEnd <= Limit
  /\ RawEnd \notin newlines \/ pos = RawEnd
  /\ LogsEnd(IF pos < RawEnd THEN Line(pos, RawEnd) ELSE kept, RawEnd, FALSE)

\* The stream fails: the caller gets the error and nothing else.  (A stream cut by
\* the timeout counts as one that ends there.)
StreamFails ==
  /\ ended = ""
  /\ ended' = "error"
  /\ UNCHANGED <<pos, kept, cutOff>> /\ Fixed

IONext ==
  \/ BodyDeclared
  \/ \E size, got \in 1 .. MaxLength : BodyRead(size, got)
  \/ \E size \in 1 .. MaxLength : BodyEOF(size)
  \/ \E size \in 1 .. MaxLength : BufferWrite(size)
  \/ BufferDone
  \/ LogsTooManyLines
  \/ LogsTooManyBytes
  \/ LogsLine
  \/ LogsEOF
  \/ StreamFails

IOSpec == IOInit /\ [][IONext]_ioVars

-----------------------------------------------------------------------------
(* Properties.                                                             *)

\* However the reads are cut: a body within the limit arrives whole, and one that
\* is larger is never taken for a whole one, not even at exactly the limit; no
\* more than the limit is passed on.
BodyExact ==
  reader = "body" =>
    /\ kept = Interval(0, Len(kept)) /\ Len(kept) <= Limit
    /\ ended = "eof" => Len(kept) = length
    /\ ended = "too large" => length > Limit

\* A remote command's output is kept up to the limit, and it is marked as
\* truncated exactly when something was left out.
BufferExact ==
  reader = "buffer" =>
    /\ kept = Interval(0, Smaller(pos, Limit))
    /\ cutOff <=> pos > Limit

\* responseLimitBody and progressBuffer pass on what fits and say so when it is
\* not all.
CutExact == BodyExact /\ BufferExact

Joined == {t \in (DOMAIN kept) \X (1 .. length) : t[2] \in DOMAIN kept[t[1]]}

\* Followed logs return the beginning of the log, every byte once and in order,
\* within both limits; a result that is not marked as truncated is the whole log,
\* and one that is has left something out.
LogsExact ==
  reader = "logs" /\ ended = "done" =>
    /\ {kept[t[1]][t[2]] : t \in Joined} = 1 .. pos /\ Cardinality(Joined) = pos
    /\ \A s, t \in Joined : s[1] < t[1] => kept[s[1]][s[2]] < kept[t[1]][t[2]]
    /\ pos <= Limit /\ Len(kept) <= MaxLines
    /\ cutOff <=> pos < length \/ pos + LogEnvelope > Limit

=============================================================================
