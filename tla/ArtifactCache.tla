---------------------------- MODULE ArtifactCache ----------------------------
(***************************************************************************)
(* What preparing an artifact promises, without files: the engine's slot   *)
(* holds either nothing or every byte of one version, it changes only at   *)
(* the step in which a call returns, and it then holds the version that    *)
(* call was asked for.  PrepareArtifact is shown to implement this module  *)
(* when the calls that share a cache directory do not overlap.             *)
(***************************************************************************)

CONSTANTS
  Callers,    \* the processes that call prepare() on one artifact id
  Versions,   \* the digests a plan may claim for the artifact
  None        \* no artifact

VARIABLES
  slot,       \* the version the engine would load, or None
  call,       \* call[c]: how far c's call is
  wanted      \* wanted[c]: the version c's last call asked for, or None

vars == <<slot, call, wanted>>

Init ==
  /\ slot = None
  /\ call = [c \in Callers |-> "idle"]
  /\ wanted = [c \in Callers |-> None]

Begin(c, v) ==
  /\ call[c] # "running"
  /\ call' = [call EXCEPT ![c] = "running"]
  /\ wanted' = [wanted EXCEPT ![c] = v]
  /\ UNCHANGED slot

Finish(c) ==
  /\ call[c] = "running"
  /\ slot' = wanted[c]
  /\ call' = [call EXCEPT ![c] = "done"]
  /\ UNCHANGED wanted

Fail(c) ==
  /\ call[c] = "running"
  /\ call' = [call EXCEPT ![c] = "failed"]
  /\ UNCHANGED <<slot, wanted>>

Crash(c) ==
  /\ call[c] = "running"
  /\ call' = [call EXCEPT ![c] = "idle"]
  /\ UNCHANGED <<slot, wanted>>

Next ==
  \E c \in Callers :
    \/ \E v \in Versions : Begin(c, v)
    \/ Finish(c)
    \/ Fail(c)
    \/ Crash(c)

Spec == Init /\ [][Next]_vars
=============================================================================
