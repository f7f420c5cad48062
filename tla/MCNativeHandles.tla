--------------------------- MODULE MCNativeHandles ---------------------------
(* Instances of AudioBackends, and through it of NativeHandles. *)
EXTENDS AudioBackends, TLC

CONSTANTS r1, r2, m1, m2, s1, s2, s3, v1, i1, i2

\* Objects of one kind are interchangeable.
Interchangeable ==
  Permutations(Runtimes) \cup Permutations(Models) \cup Permutations(Sessions)
    \cup Permutations(Iterators)
=============================================================================
