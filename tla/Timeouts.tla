------------------------------- MODULE Timeouts -------------------------------
(***************************************************************************)
(* The time limits of a request (internal/server/timeouts.go, remoteTimeout*)
(* in internal/server/remote.go) and the phases they bound: waiting for a  *)
(* slot, authentication, the tool.  The HTTP server closes the connection  *)
(* when its WriteTimeout has passed, answered or not.                      *)
(*                                                                         *)
(* A Duration is an integer of Width bits in units of which Second make a  *)
(* second (64 and 10^9 in Go); arithmetic wraps around.                    *)
(***************************************************************************)
EXTENDS Integers

CONSTANTS
  Width,     \* 64
  Second,    \* 10^9
  Limits,    \* values of the configured timeouts
  Requested  \* values of timeoutSeconds

VARIABLES
  limits,    \* spec.limits: requestTimeout, streamTimeout, execTimeout
  seconds,   \* what the caller asked for
  phase,     \* "queue", "authenticate", "tool", "answered"
  tool,      \* what is called: "plain", "stream" or "remote"
  elapsed    \* how long the request has taken

timeVars == <<limits, seconds, phase, tool, elapsed>>

Half == 2 ^ (Width - 1)

MaxDuration == Half - 1

Wrap(n) == ((n + Half) % (2 * Half)) - Half

ASSUME TimeoutsAssumption ==
  /\ Width \in Nat \ {0} /\ Half \in Nat /\ Second \in Nat \ {0} /\ 10 * Second <= MaxDuration
  /\ Limits \subseteq 1 .. MaxDuration
  /\ Requested \subseteq Int

-----------------------------------------------------------------------------
(* The limits.                                                             *)

remoteTimeout(maximum, asked) ==
  LET wanted == Wrap(asked * Second)
  IN  IF asked <= 0 \/ wanted > maximum THEN maximum ELSE wanted

\* One round of saturatingDurationSum; it stays at the maximum once it is there.
plus(total, value) == IF value > MaxDuration - total THEN MaxDuration ELSE total + value

Larger(a, b) == IF a >= b THEN a ELSE b

\* Faulty variant: time in the queue is not counted.
serverWriteTimeoutNoQueue(l) ==
  plus(plus(l.request, Larger(l.request, Larger(l.stream, l.exec))), 10 * Second)

serverWriteTimeout(l) ==
  plus(plus(plus(l.request, l.request), Larger(l.request, Larger(l.stream, l.exec))), 10 * Second)

ToolTimeout ==
  CASE tool = "plain" -> limits.request
    [] tool = "stream" -> limits.stream
    [] tool = "remote" -> remoteTimeout(limits.exec, seconds)

\* timeoutContext: no limit at all unless it is positive; the remote stream
\* itself is opened with WithTimeout, which is then over at once.
Bounded(timeout) == timeout > 0

-----------------------------------------------------------------------------
(* The request.                                                            *)

TimeInit ==
  /\ limits \in [request : Limits, stream : Limits, exec : Limits]
  /\ tool \in {"plain", "stream", "remote"}
  /\ seconds \in IF tool = "remote" THEN Requested ELSE {0}
  /\ phase = "queue"
  /\ elapsed = 0

\* A phase ends by itself at some time before its limit, or with its limit.
Phase(from, to, limit) ==
  /\ phase = from
  /\ phase' = to
  /\ \E d \in {0, 1, limit \div 2, limit} : d <= limit /\ elapsed' = elapsed + d
  /\ UNCHANGED <<limits, seconds, tool>>

TimeNext ==
  \/ Phase("queue", "authenticate", limits.request)
  \/ Phase("authenticate", "tool", limits.request)
  \/ Bounded(ToolTimeout) /\ Phase("tool", "answered", ToolTimeout)

TimeSpec == TimeInit /\ [][TimeNext]_timeVars

-----------------------------------------------------------------------------
(* Properties.                                                             *)

\* The connection outlives the request: when the tool returns, at the latest at
\* its own timeout, there are ten seconds left to write the answer, whatever the
\* request spent in the queue and on authentication.  Limits so large that the
\* sum does not fit give the largest Duration, never a negative one.
AnswerInTime ==
  LET total == serverWriteTimeout(limits)
  IN  /\ total > 0
      /\ elapsed + 10 * Second <= total \/ total = MaxDuration

\* A remote command is never given more than execTimeout, nor, where seconds can
\* be expressed as a Duration at all, more or less than was asked for within it.
RemoteCapped ==
  LET timeout == remoteTimeout(limits.exec, seconds)
  IN  /\ timeout <= limits.exec
      /\ seconds \in 1 .. limits.exec \div Second => timeout = seconds * Second

\* The limits of a request, as the phases use them.
TimesKept == AnswerInTime /\ RemoteCapped

\* The manual of k8s.plan: a requested timeout is capped by server policy, that
\* is, whoever asks for more than execTimeout gets execTimeout.
RequestCapped ==
  seconds > limits.exec \div Second => remoteTimeout(limits.exec, seconds) = limits.exec

=============================================================================
