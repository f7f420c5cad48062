--------------------------- MODULE MCOctomilClient ---------------------------
(* Instances of OctomilClient. *)
EXTENDS OctomilClient, TLC

CONSTANTS r1, v1, v2, c1, c2, c3

\* Calls that may overlap are interchangeable, and so are versions.
Interchangeable == Permutations({c1, c2}) \cup Permutations(Versions)

\* Bound: the third call finds the first two settled, and nothing follows it.
LastIsAlone ==
  /\ pc[c3] # "idle" => {c1, c2} \cap InFlight = {}
  /\ pc[c3] \notin {"idle", "dead"} => "idle" \notin {pc[c1], pc[c2]}

MCSpec == Init /\ [][Next /\ LastIsAlone']_vars
=============================================================================
