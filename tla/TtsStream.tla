------------------------------ MODULE TtsStream ------------------------------
(***************************************************************************)
(* NativeTtsStreamBackend of src/runtime/native/tts_stream_backend.ts: one *)
(* model at a time, and streams that are generators over a session of it.  *)
(*                                                                         *)
(* JavaScript runs one thing at a time: thread says what it is in the      *)
(* middle of, and a caller gets a turn only while it is idle.  A stream    *)
(* gives the thread back when it yields a chunk; whatever the caller does  *)
(* before it asks for the next one (close the backend, load another model, *)
(* start a second stream, never come back) happens in between.             *)
(***************************************************************************)
CONSTANTS Runtimes, Models, Sessions, None, ModelNames, Streams

VARIABLES state, owner, borrowed, borrowers, sessions, models, live, stray

H == INSTANCE NativeHandles

VARIABLES
  thread,    \* "idle", the step of loadModel or close that is next, or a stream
  onClosed,  \* what comes after close(): "idle", or loadModel's next step
  name,      \* _modelName
  runtime,   \* _runtime
  model,     \* _model
  pc,        \* created, sending, draining, suspended, finally, ended
  sess,      \* the session of a stream
  expired,   \* Date.now() >= deadline
  seen,      \* what _drain has been told: final, error, completed, bad
  errorOf,   \* the runtime whose lastError() became the stream's message
  result     \* how the stream ended

handles == <<state, owner, borrowed, borrowers, sessions, models, live, stray>>
backend == <<onClosed, name, runtime, model>>
streams == <<pc, sess, expired, seen, errorOf, result>>
vars == <<handles, thread, backend, streams>>

\* What the thread is in the middle of, when it is not a stream.
Steps == {"idle", "closeModel", "closeRuntime", "openRuntime", "advertised", "openModel",
          "warm"}

ASSUME ObjectsAreDistinct == H!KindsAreDisjoint
ASSUME StreamsAreNoSteps == Streams \cap Steps = {}

Init ==
  /\ H!Init
  /\ thread = "idle" /\ onClosed = "idle"
  /\ name = None /\ runtime = None /\ model = None
  /\ pc = [g \in Streams |-> "created"]
  /\ sess = [g \in Streams |-> None]
  /\ expired = [g \in Streams |-> FALSE]
  /\ seen = [g \in Streams |-> {}]
  /\ errorOf = [g \in Streams |-> None]
  /\ result = [g \in Streams |-> "none"]
-----------------------------------------------------------------------------
(* loadModel and close *)

\* Bug: the previous runtime is not closed first.
LoadModelOver(n) ==
  /\ thread = "idle"
  /\ ~ (runtime # None /\ name = n)
  /\ name' = n
  /\ thread' = "openRuntime"
  /\ UNCHANGED <<handles, onClosed, runtime, model, streams>>

\* loadModel returns at once when that model is loaded.
LoadModel(n) ==
  /\ thread = "idle"
  /\ ~ (runtime # None /\ name = n)
  /\ name' = n
  /\ thread' = "closeModel" /\ onClosed' = "openRuntime"
  /\ UNCHANGED <<handles, runtime, model, streams>>

Close ==
  /\ thread = "idle"
  /\ thread' = "closeModel" /\ onClosed' = "idle"
  /\ UNCHANGED <<handles, name, runtime, model, streams>>

\* A busy model, or an error of the library, is ignored.
CloseItsModel ==
  /\ thread = "closeModel"
  /\ IF model # None /\ H!Usable(model) /\ borrowers[model] = {}
     THEN H!CloseModel(model) ELSE UNCHANGED handles
  /\ model' = None
  /\ thread' = "closeRuntime"
  /\ UNCHANGED <<onClosed, name, runtime, streams>>

CloseItsRuntime ==
  /\ thread = "closeRuntime"
  /\ IF runtime # None THEN H!CloseRuntime(runtime) ELSE UNCHANGED handles
  /\ runtime' = None
  /\ thread' = onClosed
  /\ UNCHANGED <<onClosed, name, model, streams>>

OpenRuntime ==
  /\ thread = "openRuntime"
  /\ \/ \E r \in Runtimes :
          H!Open(r) /\ runtime' = r /\ thread' = "advertised"
     \/ thread' = "idle" /\ UNCHANGED <<handles, runtime>>
  /\ UNCHANGED <<onClosed, name, model, streams>>

\* Bug: loadModel throws and leaves the runtime open.
GiveUpLoadingLeaks ==
  /\ thread' = "idle"
  /\ UNCHANGED onClosed

\* loadModel closes what it has opened, and throws.
GiveUpLoading ==
  /\ thread' = "closeModel"
  /\ onClosed' = "idle"

\* Without the capability, or without a path, there is nothing to load.
CheckAdvertised ==
  /\ thread = "advertised"
  /\ (thread' = "openModel" /\ UNCHANGED onClosed) \/ GiveUpLoading
  /\ UNCHANGED <<handles, name, runtime, model, streams>>

OpenItsModel ==
  /\ thread = "openModel"
  /\ \/ /\ \E m \in Models : H!OpenModel(runtime, m) /\ model' = m
        /\ thread' = "warm" /\ UNCHANGED onClosed
     \/ GiveUpLoading /\ UNCHANGED <<handles, model>>
  /\ UNCHANGED <<name, runtime, streams>>

WarmItsModel ==
  /\ thread = "warm"
  /\ H!WarmModel(model)
  /\ (thread' = "idle" /\ UNCHANGED onClosed) \/ GiveUpLoading
  /\ UNCHANGED <<name, runtime, model, streams>>
-----------------------------------------------------------------------------
(* synthesizeWithChunks *)

Become(g, where) == pc' = [pc EXCEPT ![g] = where]

\* The stream ends with this result; its finally block is next.
EndWith(g, how) ==
  /\ Become(g, "finally")
  /\ result' = [result EXCEPT ![g] = how]

\* The first next() checks its arguments and the backend, and opens a session.
Start(g) ==
  /\ thread = "idle" /\ pc[g] = "created"
  /\ runtime # None /\ model # None
  /\ \E s \in Sessions :
       H!OpenSession(runtime, model, s) /\ sess' = [sess EXCEPT ![g] = s]
  /\ Become(g, "sending")
  /\ thread' = g
  /\ UNCHANGED <<backend, expired, seen, errorOf, result>>

StartThrows(g) ==
  /\ thread = "idle" /\ pc[g] = "created"
  /\ Become(g, "ended")
  /\ result' = [result EXCEPT ![g] = "failed"]
  /\ UNCHANGED <<handles, thread, backend, sess, expired, seen, errorOf>>

\* Bug: a refused text leaves its session open.
TextRefusedLeaks(g) ==
  /\ Become(g, "ended")
  /\ result' = [result EXCEPT ![g] = "failed"]
  /\ thread' = "idle"

TextRefused(g) ==
  /\ EndWith(g, "failed")
  /\ UNCHANGED thread

SendText(g) ==
  /\ thread = g /\ pc[g] = "sending"
  /\ H!UseSession(sess[g])
  /\ \/ Become(g, "draining") /\ UNCHANGED <<thread, result>>
     \/ TextRefused(g)
  /\ UNCHANGED <<backend, sess, expired, seen, errorOf>>
-----------------------------------------------------------------------------
(* _drain *)

Note(g, what) == seen' = [seen EXCEPT ![g] = @ \cup what]

\* An error event reads the message of whatever runtime the backend has now.
ReadError(g) ==
  errorOf' = IF errorOf[g] = None THEN [errorOf EXCEPT ![g] = runtime] ELSE errorOf

\* An event without interest goes unnoticed; a chunk is yielded, and the final
\* one remembered; a malformed chunk or a failing poll throws.
Event(g) ==
  \/ UNCHANGED <<thread, pc, seen, errorOf, result>>
  \/ /\ Note(g, {}) \/ Note(g, {"final"})
     /\ Become(g, "suspended") /\ thread' = "idle"
     /\ UNCHANGED <<errorOf, result>>
  \/ EndWith(g, "failed") /\ UNCHANGED <<thread, seen, errorOf>>
  \/ Note(g, {"error"}) /\ ReadError(g) /\ UNCHANGED <<thread, pc, result>>
  \/ /\ Note(g, {"completed"}) \/ Note(g, {"completed", "bad"})
     /\ UNCHANGED <<thread, pc, errorOf, result>>

Poll(g) ==
  /\ thread = g /\ pc[g] = "draining"
  /\ ~ expired[g] /\ "completed" \notin seen[g]
  /\ IF H!Usable(sess[g])
     THEN H!UseSession(sess[g]) /\ Event(g)
     ELSE EndWith(g, "failed") /\ UNCHANGED <<handles, thread, seen, errorOf>>
  /\ UNCHANGED <<backend, sess, expired>>

\* Bug: the loop has no deadline.
LoopIsOverLate(g) == "completed" \in seen[g]

LoopIsOver(g) == expired[g] \/ "completed" \in seen[g]

\* What _drain makes of what it saw.  The deadline is looked at again first.
Verdict(g) ==
  IF expired[g] THEN "timeout"
  ELSE IF seen[g] = {"final", "completed"} THEN "ok" ELSE "failed"

Conclude(g) ==
  /\ thread = g /\ pc[g] = "draining"
  /\ LoopIsOver(g)
  /\ EndWith(g, Verdict(g))
  /\ UNCHANGED <<handles, thread, backend, sess, expired, seen, errorOf>>

Finally(g) ==
  /\ thread = g /\ pc[g] = "finally"
  /\ IF H!Usable(sess[g]) THEN H!CloseSession(sess[g]) ELSE UNCHANGED handles
  /\ Become(g, "ended")
  /\ thread' = "idle"
  /\ UNCHANGED <<backend, sess, expired, seen, errorOf, result>>

\* The caller asks for the next chunk.
Resume(g) ==
  /\ thread = "idle" /\ pc[g] = "suspended"
  /\ Become(g, "draining")
  /\ thread' = g
  /\ UNCHANGED <<handles, backend, sess, expired, seen, errorOf, result>>

\* The caller leaves its loop: return() runs the finally block.
Leave(g) ==
  /\ thread = "idle" /\ pc[g] = "suspended"
  /\ EndWith(g, "left")
  /\ thread' = g
  /\ UNCHANGED <<handles, backend, sess, expired, seen, errorOf>>

\* Time passes while a stream drains, and while its caller holds a chunk.
Expire(g) ==
  /\ pc[g] \in {"draining", "suspended"}
  /\ expired' = [expired EXCEPT ![g] = TRUE]
  /\ UNCHANGED <<handles, thread, backend, pc, sess, seen, errorOf, result>>
-----------------------------------------------------------------------------
\* What runs without the caller, once it has called.
LoadingOrClosing ==
  CloseItsModel \/ CloseItsRuntime \/ OpenRuntime \/ CheckAdvertised \/ OpenItsModel
    \/ WarmItsModel

Next ==
  \/ LoadingOrClosing \/ Close \/ \E n \in ModelNames : LoadModel(n)
  \/ \E g \in Streams :
       \/ Start(g) \/ StartThrows(g) \/ SendText(g) \/ Poll(g) \/ Conclude(g) \/ Finally(g)
       \/ Resume(g) \/ Leave(g) \/ Expire(g)

\* The thread runs, and the clock goes on.  Nothing makes the library send an
\* event, or the caller ask for one.
Fairness ==
  /\ WF_vars(LoadingOrClosing)
  /\ \A g \in Streams :
       WF_vars(SendText(g)) /\ WF_vars(Conclude(g)) /\ WF_vars(Finally(g)) /\ WF_vars(Expire(g))

Spec == Init /\ [][Next]_vars /\ Fairness
-----------------------------------------------------------------------------
(* Properties *)

\* The type invariant: the model the backend holds is one of its runtime.
TypeOK ==
  /\ thread \in Steps \cup Streams /\ onClosed \in {"idle", "openRuntime"}
  /\ name \in ModelNames \cup {None}
  /\ runtime \in Runtimes \cup {None}
  /\ model \in Models \cup {None} /\ (model # None => owner[model] = runtime)
  /\ pc \in [Streams -> {"created", "sending", "draining", "suspended", "finally", "ended"}]
  /\ sess \in [Streams -> Sessions \cup {None}]
  /\ expired \in [Streams -> BOOLEAN]
  /\ seen \in [Streams -> SUBSET {"final", "error", "completed", "bad"}]
  /\ errorOf \in [Streams -> Runtimes \cup {None}]
  /\ result \in [Streams -> {"none", "ok", "failed", "timeout", "left"}]

\* Whenever a caller gets its turn, the backend has either nothing or one open
\* runtime with one open model, whichever of its steps failed before: loadModel
\* takes a non-null _runtime for a loaded model.
AllOrNothing ==
  thread = "idle" =>
    /\ {r \in Runtimes : H!Usable(r)} = {runtime} \ {None}
    /\ {m \in Models : H!Usable(m)} = {model} \ {None}
    /\ runtime = None <=> model = None

\* Every open session is one that a stream has yet to finish with: however a
\* stream ends, and whatever happened while it was suspended, its session is
\* closed.
NoSessionLeaks ==
  \A s \in Sessions : H!Usable(s) => \E g \in Streams : sess[g] = s /\ pc[g] # "ended"

\* A stream's error text comes from the runtime its session is on, though it is
\* read from the backend's field, which loadModel replaces.
ErrorTextIsItsOwn ==
  \A g \in Streams : errorOf[g] # None => errorOf[g] = owner[sess[g]]

\* Every call returns: a load or a close is over, and a stream that was asked
\* for a chunk yields or ends, also when the library goes silent.
EveryCallReturns == thread # "idle" ~> thread = "idle"
=============================================================================
