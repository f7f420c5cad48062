-------------------------- MODULE MCResponseRouting --------------------------
(* Instances of ResponseRouting: the plans a server may answer with. *)
EXTENDS ResponseRouting, FiniteSets

CONSTANTS r1, r2

\* Every plan of at most n candidates.
PlansUpTo(n) ==
  [candidates : UNION {[1..k -> Candidate] : k \in 0..n}, fallback : BOOLEAN]

LongPlans == PlansUpTo(3)

Local == [locality |-> "local", blocked |-> FALSE]
Cloud == [locality |-> "cloud", blocked |-> FALSE]

\* A plan that starts locally and one that starts in the cloud.
TwoPlans == {[candidates |-> <<Local, Cloud>>, fallback |-> TRUE],
             [candidates |-> <<Cloud, Local>>, fallback |-> FALSE]}

\* One request at a time meets every plan; requests that run side by side, or
\* one after the other, meet the two.
Manageable ==
  \/ \E r \in Requests : pc[r] = "idle"
  \/ \A r \in Requests : plan[r] \in TwoPlans \cup {None}

MCSpec ==
  Init /\ [][Next /\ Manageable']_vars /\ \A r \in Requests : WF_vars(Progress(r))
=============================================================================
