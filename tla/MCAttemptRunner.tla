--------------------------- MODULE MCAttemptRunner ---------------------------
(* An instance of AttemptRunner: plans of up to four candidates. *)
EXTENDS AttemptRunner

\* No gate, or one evaluated gate of any kind.
UpToOneGate == {{}} \cup {{g} : g \in Gate}
=============================================================================
