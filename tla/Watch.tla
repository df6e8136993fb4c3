-------------------------------- MODULE Watch --------------------------------
(***************************************************************************)
(* k8s.read with a watch (watch in internal/server/reads.go), and a client *)
(* that follows a resource by resuming from the resourceVersion of the     *)
(* previous result.  One watch collects events until its item or output    *)
(* limit, its timeout or the API server ends it.                           *)
(*                                                                         *)
(* The change with resourceVersion v is entry v of the log.  Entries are   *)
(* abstracted to their encoded size.  The client starts from a list of the *)
(* empty log, and lists again when a result has no resourceVersion.        *)
(***************************************************************************)
EXTENDS Integers, Sequences

CONSTANTS
  Sizes,           \* encoded sizes of events
  MaxOutputBytes,  \* spec.limits.maxOutputBytes
  MaxListItems,    \* spec.limits.maxListItems
  Envelope,        \* encoded size of a result without its events
  MaxVersion,      \* bound: changes in the log
  MaxFaults        \* bound: watches that fail, errors, and watches that end with nothing new

ASSUME WatchAssumption ==
  /\ Sizes \subseteq Nat \ {0}
  /\ MaxOutputBytes \in Nat
  /\ MaxListItems \in Nat \ {0}
  /\ Envelope \in 0 .. MaxOutputBytes
  /\ MaxVersion \in Nat
  /\ MaxFaults \in Nat

VARIABLES
  log,       \* external: log[v] is the size of the change with resourceVersion v
  call,      \* the watch in progress, NoCall when there is none
  since,     \* the resourceVersion the client resumes from
  received,  \* the changes the client has received, in order
  cut,       \* history: changes left out of a result that says so
  faults     \* how many faults there have been

watchVars == <<log, call, since, received, cut, faults>>

NoCall == [open |-> FALSE]

WatchInit ==
  /\ log = <<>>
  /\ call = NoCall
  /\ since = 0
  /\ received = <<>>
  /\ cut = {}
  /\ faults = 0

Change(size) ==
  /\ Len(log) < MaxVersion
  /\ log' = Append(log, size)
  /\ UNCHANGED <<call, since, received, cut, faults>>

WatchBegin ==
  /\ ~call.open
  /\ call' = [open |-> TRUE, pos |-> since, items |-> <<>>, count |-> 0,
              bytes |-> 0, last |-> since]
  /\ UNCHANGED <<log, since, received, cut, faults>>

\* Faulty variant: the preview is given to a client that resumes where it was headed.
ResultSkips(items, bytes, last, lost) ==
  /\ call' = NoCall
  /\ since' = last
  /\ received' = IF bytes + Envelope > MaxOutputBytes THEN received
                 ELSE received \o items
  /\ cut' = cut \cup lost
  /\ UNCHANGED log

\* watchResult and boundedOutput, and the client that takes the result: items are
\* its changes, lost those left out of a result marked as truncated.  A result over
\* the limit, envelope included, is replaced by a preview that is marked as truncated
\* too and has no resourceVersion.
Result(items, bytes, last, lost) ==
  /\ call' = NoCall
  /\ UNCHANGED log
  /\ \/ /\ bytes + Envelope <= MaxOutputBytes
        /\ since' = last
        /\ received' = received \o items
        /\ cut' = cut \cup lost
     \/ /\ bytes + Envelope > MaxOutputBytes
        /\ since' = Len(log)
        /\ cut' = cut \cup (since + 1 .. Len(log))
        /\ UNCHANGED received

Collected(v) == IF v = 0 THEN call.items ELSE Append(call.items, v)

\* Entries that are no change are counted and given out, and tell the client nothing.
Collect(v, size, last) ==
  /\ call' = [open |-> TRUE, pos |-> IF v = 0 THEN call.pos ELSE v, items |-> Collected(v),
              count |-> call.count + 1, bytes |-> call.bytes + size, last |-> last]
  /\ UNCHANGED <<log, since, received, cut>>

\* Faulty variant: the version advances only with an event that is returned.
TakeKeepsVersion(v, size, rv) ==
  LET last == IF rv = 0 THEN call.last ELSE rv
  IN  \/ /\ call.bytes + size > MaxOutputBytes
         /\ Result(call.items, call.bytes, call.last, {v} \ {0})
      \/ /\ call.bytes + size <= MaxOutputBytes
         /\ call.count + 1 = MaxListItems
         /\ Result(Collected(v), call.bytes + size, last, {})
      \/ /\ call.bytes + size <= MaxOutputBytes
         /\ call.count + 1 < MaxListItems
         /\ Collect(v, size, last)

\* One event from the watcher's channel: change v (0 for a bookmark or an error)
\* of the given size, whose object carries resourceVersion rv (0 for none).
\* The version advances first; then the output limit, then the item limit.
Take(v, size, rv) ==
  LET last == IF rv = 0 THEN call.last ELSE rv
  IN  \/ /\ call.bytes + size > MaxOutputBytes
         /\ Result(call.items, call.bytes, last, {v} \ {0})
      \/ /\ call.bytes + size <= MaxOutputBytes
         /\ call.count + 1 = MaxListItems
         /\ Result(Collected(v), call.bytes + size, last, {})
      \/ /\ call.bytes + size <= MaxOutputBytes
         /\ call.count + 1 < MaxListItems
         /\ Collect(v, size, last)

TakeChange ==
  /\ call.open
  /\ call.pos < Len(log)
  /\ Take(call.pos + 1, log[call.pos + 1], call.pos + 1)
  /\ UNCHANGED faults

\* A bookmark says how far the watcher is when it has sent everything.
TakeBookmark ==
  /\ call.open
  /\ call.pos = Len(log)
  /\ call.pos > 0
  /\ \E size \in Sizes : Take(0, size, call.pos)
  /\ UNCHANGED faults

Fault ==
  /\ faults < MaxFaults
  /\ faults' = faults + 1

\* A watch error carries a Status without a resourceVersion.
TakeError ==
  /\ call.open
  /\ \E size \in Sizes : Take(0, size, 0)
  /\ Fault

\* The stream timeout, or the API server closes the watch.
WatchEnds ==
  /\ call.open
  /\ call.last > since
  /\ Result(call.items, call.bytes, call.last, {})
  /\ UNCHANGED faults

WatchEndsEmpty ==
  /\ call.open
  /\ call.last = since
  /\ Result(call.items, call.bytes, call.last, {})
  /\ Fault

\* Redaction or shaping fails, or the answer is lost: the client has nothing.
WatchFails ==
  /\ call.open
  /\ call' = NoCall
  /\ Fault
  /\ UNCHANGED <<log, since, received, cut>>

WatchNext ==
  \/ \E size \in Sizes : Change(size)
  \/ WatchBegin
  \/ TakeChange
  \/ TakeBookmark
  \/ TakeError
  \/ WatchEnds
  \/ WatchEndsEmpty
  \/ WatchFails

\* The client resumes; the API server sends a change that is there; and a watch
\* that has got further ends, at the latest with its timeout.
WatchFairness ==
  /\ WF_watchVars(WatchBegin)
  /\ WF_watchVars(TakeChange)
  /\ WF_watchVars(WatchEnds)

WatchSpec == WatchInit /\ [][WatchNext]_watchVars /\ WatchFairness

-----------------------------------------------------------------------------
(* Properties.                                                             *)

OpenCall == [open : {TRUE}, pos : Nat, items : Seq(Nat), count : 0 .. MaxListItems - 1,
             bytes : 0 .. MaxOutputBytes, last : Nat]

\* The shape of watch's state: an open call has room for another item and stays
\* within the output limit.
WatchTypeOK ==
  /\ log \in Seq(Sizes)
  /\ call \in OpenCall \cup {NoCall}
  /\ since \in Nat /\ received \in Seq(Nat)

Missed == (1 .. since) \ {received[i] : i \in DOMAIN received}

\* A client that resumes from each result's resourceVersion receives the changes
\* in order and never twice.
InOrder == \A i, j \in DOMAIN received : i < j => received[i] < received[j]

\* The only changes such a client can miss are those left out of a result that
\* says it is truncated, the preview of one that is too long included: timeouts,
\* closed watches, bookmarks, errors, failed calls and the item limit lose nothing.
MissedOnlyWhenTruncated == Missed \subseteq cut

\* watch and the client that follows a resource with it: in order, never twice,
\* nothing lost that no result announced, within the limits of a result.
ResumesFaithfully == WatchTypeOK /\ InOrder /\ MissedOnlyWhenTruncated

\* After finitely many changes and faults the client has got past every change,
\* one too large for any result included.
CatchesUp == <>[](since = Len(log))

\* The resourceVersion of a result resumes the watch without an event gap.
NoEventGap == Missed = {}

=============================================================================
