----------------------------- MODULE MCDecisions -----------------------------
(***************************************************************************)
(* The parts of the Server that decide how often a client is served, what  *)
(* it may do, how it may change a workload and how long that may take, and *)
(* the operator's certificates.  They share no state: part says which of   *)
(* them a behavior is about, and the others stay as they are.              *)
(***************************************************************************)
EXTENDS RateLimiter, MCPolicy, SafeWrite, Timeouts, Certificates

VARIABLE part

allVars == <<part, rateVars, config, safeVars, timeVars, certVars>>

\* One initial state of a part that is not looked at.
SafeIdle ==
  /\ control = "runAsUser" /\ workload = <<>>
  /\ held = HeldSince(workload)
TimeIdle ==
  /\ limits = [request |-> 5, stream |-> 5, exec |-> 5]
  /\ seconds = 0 /\ phase = "queue" /\ tool = "plain" /\ elapsed = 0

Init ==
  /\ part \in {"rate", "policy", "safe", "time", "certificates"}
  /\ RateInit /\ PolicyInit /\ CertInit
  /\ IF part = "safe" THEN SafeInit ELSE SafeIdle
  /\ IF part = "time" THEN TimeInit ELSE TimeIdle

Next ==
  /\ UNCHANGED part
  /\ \/ /\ part = "rate" /\ RateNext
        /\ UNCHANGED <<config, safeVars, timeVars, certVars>>
     \/ /\ part = "policy" /\ PolicyNext
        /\ UNCHANGED <<rateVars, safeVars, timeVars, certVars>>
     \/ /\ part = "safe" /\ SafeNext
        /\ UNCHANGED <<rateVars, config, timeVars, certVars>>
     \/ /\ part = "time" /\ TimeNext
        /\ UNCHANGED <<rateVars, config, safeVars, certVars>>
     \/ /\ part = "certificates" /\ CertNext
        /\ UNCHANGED <<rateVars, config, safeVars, timeVars>>

Spec == Init /\ [][Next]_allVars

=============================================================================
