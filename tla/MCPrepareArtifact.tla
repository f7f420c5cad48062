-------------------------- MODULE MCPrepareArtifact --------------------------
(* Instances of PrepareArtifact: constants for the configurations. *)
EXTENDS PrepareArtifact, TLC

CONSTANTS c1, c2, v1, v2, junk

\* Versions of different length; junk is as long as the longer one.
DistinctSizes == (v1 :> 1) @@ (v2 :> 2) @@ (junk :> 2)

\* Two versions of the same length, as quantised weights often are.
EqualSizes == (v1 :> 2) @@ (v2 :> 2) @@ (junk :> 1)

\* One version.
OneSize == (v1 :> 2) @@ (junk :> 1)

\* One version, and a file is either empty or full.
OneBlock == (v1 :> 1) @@ (junk :> 1)
=============================================================================
