----------------------------- MODULE OneTimePlan -----------------------------
(***************************************************************************)
(* What the plan store promises, without codes, clocks, counters or        *)
(* budgets: a plan is issued under a fresh identifier on fixed terms, may  *)
(* lapse at any time, and is delivered at most once, on the terms it was   *)
(* issued on.  A plan that lapsed or was delivered never comes back.       *)
(***************************************************************************)
EXTENDS Sequences

CONSTANTS
  PlanIDs,  \* plan identifiers
  Terms     \* what a plan is about: an operation for a subject

VARIABLES
  pending,    \* the plans that can still be delivered
  terms,      \* terms[id]: what was issued, for every identifier ever used
  delivered   \* delivered[id]: the terms delivered under id so far

planVars == <<pending, terms, delivered>>

Init ==
  /\ pending = {}
  /\ terms = [id \in {} |-> {}]
  /\ delivered = [id \in PlanIDs |-> <<>>]

Lapse(ids) ==
  /\ ids \subseteq pending
  /\ pending' = pending \ ids
  /\ UNCHANGED <<terms, delivered>>

\* Issuing a plan may first let others lapse.
Issue(id, t, ids) ==
  /\ id \in PlanIDs \ DOMAIN terms
  /\ ids \subseteq pending
  /\ pending' = (pending \ ids) \cup {id}
  /\ terms' = [x \in DOMAIN terms \cup {id} |-> IF x = id THEN t ELSE terms[x]]
  /\ UNCHANGED delivered

Deliver(id) ==
  /\ id \in pending
  /\ pending' = pending \ {id}
  /\ delivered' = [delivered EXCEPT ![id] = Append(@, terms[id])]
  /\ UNCHANGED terms

Next ==
  \/ \E ids \in SUBSET pending : Lapse(ids)
  \/ \E id \in PlanIDs, t \in Terms, ids \in SUBSET pending : Issue(id, t, ids)
  \/ \E id \in PlanIDs : Deliver(id)

Spec == Init /\ [][Next]_planVars

=============================================================================
