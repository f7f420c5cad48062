--------------------------- MODULE MCResponseStore ---------------------------
(* Instances of ResponseStore. *)
EXTENDS ResponseStore, TLC

CONSTANTS t1, t2, a, b, c

\* Ids and turns are interchangeable.
Interchangeable == Permutations(Turns) \cup Permutations(Ids)
=============================================================================
