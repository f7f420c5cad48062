---------------------------- MODULE AudioBackends ----------------------------
(***************************************************************************)
(* The VAD, speaker embedding and diarization backends of                  *)
(* src/runtime/native, the facades of src/audio over them, and callers of  *)
(* the loader beside them, all over the objects of NativeHandles.          *)
(*                                                                         *)
(* Every method is synchronous.  Those that allocate take several steps,   *)
(* during which nothing else runs (at # Idle); a generator of              *)
(* pollTransitions is suspended at every transition it yields, and anything *)
(* may run then.                                                           *)
(***************************************************************************)
EXTENDS NativeHandles

CONSTANTS
  Streams,    \* VadStreamingSession objects
  Iterators   \* the generators that pollTransitions returns

Backends == {"vad", "diarization", "speaker"}

\* Spellings of the one speaker model, which loadModel compares as they are.
Names == {"plain", "upper"}

VARIABLES
  callers,    \* the handles that callers of the loader opened
  runtime,    \* _runtime; for vad and diarization it is set iff _initialized is
  model,      \* NativeSpeakerEmbeddingBackend._model
  name,       \* NativeSpeakerEmbeddingBackend._loadedModelName
  at,         \* the method that is under way and its step, or Idle
  sess,       \* the session of the method under way
  native,     \* VadStreamingSession._nativeSession
  stream,     \* absent, open or closed (VadStreamingSession._closed)
  terminal,   \* VadStreamingSession._terminalSeen
  over,       \* the stream a generator polls
  iter,       \* absent, fresh, suspended at a yield, done
  displaced,  \* history: the runtimes that a reload took the place of
  late,       \* history: the generators suspended when their stream's last event came
  pastEnd     \* history: the generators that polled a stream after its last event

handles == <<state, owner, borrowed, borrowers, sessions, models, live, stray>>
backends == <<runtime, model, name, displaced>>
streams == <<native, stream, terminal>>
iterators == <<over, iter, late, pastEnd>>
audioVars == <<handles, callers, backends, at, sess, streams, iterators>>

Idle == <<"idle", "idle">>

AudioInit ==
  /\ Init
  /\ callers = {}
  /\ runtime = [b \in Backends |-> None] /\ model = None /\ name = "none"
  /\ at = Idle /\ sess = None /\ displaced = {}
  /\ native = [v \in Streams |-> None] /\ stream = [v \in Streams |-> "absent"]
  /\ terminal = [v \in Streams |-> FALSE]
  /\ over = [i \in Iterators |-> None] /\ iter = [i \in Iterators |-> "absent"]
  /\ late = {} /\ pastEnd = {}
-----------------------------------------------------------------------------
(* Callers of the loader *)

Callers ==
  /\ at = Idle
  /\ UNCHANGED <<backends, at, sess, streams, iterators>>
  /\ \/ \E r \in Runtimes : Open(r) /\ callers' = callers \cup {r}
     \/ \E r \in Runtimes \cap callers, m \in Models :
          OpenModel(r, m) /\ callers' = callers \cup {m}
     \/ \E r \in Runtimes \cap callers, m \in Models \cup {None}, s \in Sessions :
          OpenSession(r, m, s) /\ callers' = callers \cup {s}
     \/ UNCHANGED callers /\
          \/ \E s \in Sessions \cap callers : UseSession(s) \/ CloseSession(s)
          \/ \E m \in Models \cap callers : WarmModel(m) \/ CloseModel(m)
          \/ \E r \in Runtimes \cap callers : CloseRuntime(r)

\* FacadeVad is given a runtime that its caller opened, and takes it for its own.
Inject(r) ==
  /\ at = Idle /\ runtime["vad"] = None /\ r \in callers
  /\ runtime' = [runtime EXCEPT !["vad"] = r]
  /\ UNCHANGED <<handles, callers, model, name, displaced, at, sess, streams, iterators>>
-----------------------------------------------------------------------------
(* open, loadModel and close *)

\* NativeRuntime.open succeeds.
OpenRuntime(b, r) ==
  /\ Open(r)
  /\ runtime' = [runtime EXCEPT ![b] = r]
  /\ at' = <<b, "opened">>
  /\ UNCHANGED <<callers, model, sess, streams, iterators>>

\* open(), by itself or at the start of openSession and diarize, which find the
\* backend open the next moment.
OpenBackend(b, r) ==
  /\ at = Idle /\ b # "speaker" /\ runtime[b] = None
  /\ OpenRuntime(b, r)
  /\ UNCHANGED <<name, displaced>>

\* loadModel returns early only for the spelling it has loaded; for another it
\* opens a second runtime without closing the first.
LoadModel(n, r) ==
  /\ at = Idle /\ (runtime["speaker"] = None \/ name # n)
  /\ OpenRuntime("speaker", r)
  /\ name' = n
  /\ displaced' = displaced \cup ({runtime["speaker"]} \ {None})

\* NativeRuntime.open throws: loadModel has noted the name by then.
LoadThrows(n) ==
  /\ at = Idle /\ name # n
  /\ name' = n
  /\ UNCHANGED <<handles, callers, runtime, model, displaced, at, sess, streams, iterators>>

\* The runtime advertises the capability: the backend is open, or goes on to its model.
Advertised(b) ==
  /\ at = <<b, "opened">>
  /\ at' = IF b = "speaker" THEN <<b, "advertised">> ELSE Idle
  /\ UNCHANGED <<handles, callers, backends, sess, streams, iterators>>

\* Mutant: a backend that cannot serve is left with its runtime, to be opened again.
GiveUpForgets(b) ==
  /\ at \in {<<b, "opened">>, <<b, "advertised">>, <<b, "modelled">>}
  /\ runtime' = [runtime EXCEPT ![b] = None] /\ at' = Idle
  /\ UNCHANGED <<handles, callers, model, name, displaced, sess, streams, iterators>>

\* The capability is not advertised, or the model's path is not set, or its
\* opening or warming failed: the backend closes itself.
GiveUp(b) ==
  /\ at \in {<<b, "opened">>, <<b, "advertised">>, <<b, "modelled">>}
  /\ at' = <<b, "closing">>
  /\ UNCHANGED <<handles, callers, backends, sess, streams, iterators>>

\* _probeUnsupportedReason asks for a session on the way, for the library's reason.
Probe(b, s) ==
  /\ at = <<b, "opened">> /\ b # "diarization"
  /\ OpenSession(runtime[b], None, s)
  /\ sess' = s /\ at' = <<b, "probed">>
  /\ UNCHANGED <<callers, backends, streams, iterators>>

\* _model is replaced by the new runtime's.
OpenItsModel(m) ==
  /\ at = <<"speaker", "advertised">>
  /\ OpenModel(runtime["speaker"], m)
  /\ model' = m /\ at' = <<"speaker", "modelled">>
  /\ UNCHANGED <<callers, runtime, name, displaced, sess, streams, iterators>>

WarmItsModel ==
  /\ at = <<"speaker", "modelled">>
  /\ WarmModel(model)
  /\ at' = Idle
  /\ UNCHANGED <<callers, backends, sess, streams, iterators>>

\* close(), of a backend or of the facade over it.
CloseBackend(b) ==
  /\ at = Idle /\ runtime[b] # None
  /\ at' = <<b, "closing">>
  /\ UNCHANGED <<handles, callers, backends, sess, streams, iterators>>

\* The speaker's close: _model, which after a failed reload is the old runtime's.
CloseItsModel ==
  /\ at = <<"speaker", "closing">> /\ model # None
  /\ IF Usable(model) THEN CloseModel(model) ELSE UNCHANGED handles
  /\ model' = None
  /\ UNCHANGED <<callers, runtime, name, displaced, at, sess, streams, iterators>>

CloseItsRuntime(b) ==
  /\ at = <<b, "closing">> /\ (b = "speaker" => model = None)
  /\ IF Usable(runtime[b]) THEN CloseRuntime(runtime[b]) ELSE UNCHANGED handles
  /\ runtime' = [runtime EXCEPT ![b] = None] /\ at' = Idle
  /\ UNCHANGED <<callers, model, name, displaced, sess, streams, iterators>>
-----------------------------------------------------------------------------
(* detect, diarize and embed: one session each *)

\* The model a backend's sessions borrow: embed's are the only ones that do.
Lent(b) == IF b = "speaker" THEN model ELSE None

Start(b, s) ==
  /\ at = Idle /\ runtime[b] # None /\ (b = "speaker" => model # None)
  /\ OpenSession(runtime[b], Lent(b), s)
  /\ sess' = s /\ at' = <<b, "running">>
  /\ UNCHANGED <<callers, backends, streams, iterators>>

\* sendAudio, and pollEvent until SESSION_COMPLETED, an error or the deadline.
Run(b) ==
  /\ at = <<b, "running">>
  /\ UseSession(sess)
  /\ at' = <<b, "ran">>
  /\ UNCHANGED <<callers, backends, sess, streams, iterators>>

\* The session closes, whichever way the method ends; a probe's backend is next.
Finally(b) ==
  /\ at \in {<<b, "running">>, <<b, "ran">>, <<b, "probed">>}
  /\ CloseSession(sess)
  /\ sess' = None
  /\ at' = IF at[2] = "probed" THEN <<b, "closing">> ELSE Idle
  /\ UNCHANGED <<callers, backends, streams, iterators>>
-----------------------------------------------------------------------------
(* VadStreamingSession *)

OpenStream(v, s) ==
  /\ at = Idle /\ runtime["vad"] # None /\ stream[v] = "absent"
  /\ OpenSession(runtime["vad"], None, s)
  /\ native' = [native EXCEPT ![v] = s]
  /\ stream' = [stream EXCEPT ![v] = "open"]
  /\ UNCHANGED <<callers, backends, at, sess, terminal, iterators>>

\* feedChunk, which does not ask whether the last event was seen.
FeedChunk(v) ==
  /\ at = Idle /\ stream[v] = "open"
  /\ UseSession(native[v])
  /\ UNCHANGED <<callers, backends, at, sess, streams, iterators>>

\* A session that its runtime has closed already is let be.
CloseStream(v) ==
  /\ at = Idle /\ stream[v] = "open"
  /\ IF Usable(native[v]) THEN CloseSession(native[v]) ELSE UNCHANGED handles
  /\ native' = [native EXCEPT ![v] = None]
  /\ stream' = [stream EXCEPT ![v] = "closed"]
  /\ UNCHANGED <<callers, backends, at, sess, terminal, iterators>>

\* pollTransitions(): nothing of it runs before the first next().
PollTransitions(i, v) ==
  /\ at = Idle /\ iter[i] = "absent" /\ stream[v] # "absent"
  /\ iter' = [iter EXCEPT ![i] = "fresh"] /\ over' = [over EXCEPT ![i] = v]
  /\ UNCHANGED <<handles, callers, backends, at, sess, streams, late, pastEnd>>

\* Mutant: the last event is not remembered.
RefusesClosed(i) == stream[over[i]] = "closed"

\* What the generator looks at before its loop, and never again.
Refuses(i) == stream[over[i]] = "closed" \/ terminal[over[i]]

\* next() ends without a poll: refused, or with this._nativeSession null, or
\* with a session that its runtime has closed, or after the deadline.  So does
\* return().
End(i) ==
  /\ at = Idle /\ iter[i] \in {"fresh", "suspended"}
  /\ iter' = [iter EXCEPT ![i] = "done"]
  /\ UNCHANGED <<handles, callers, backends, at, sess, streams, over, late, pastEnd>>

\* next() polls until there is something to yield, or nothing more.
Poll(i) ==
  LET v == over[i]
  IN /\ at = Idle
     /\ iter[i] = "suspended" \/ (iter[i] = "fresh" /\ ~ Refuses(i))
     /\ native[v] # None /\ UseSession(native[v])
     /\ pastEnd' = IF terminal[v] THEN pastEnd \cup {i} ELSE pastEnd
     /\ \/ /\ \E where \in {"suspended", "done"} : iter' = [iter EXCEPT ![i] = where]
           /\ UNCHANGED <<terminal, late>>
        \/ /\ iter' = [iter EXCEPT ![i] = "done"]
           /\ terminal' = [terminal EXCEPT ![v] = TRUE]
           /\ late' = late \cup {j \in Iterators \ {i} : over[j] = v /\ iter[j] = "suspended"}
     /\ UNCHANGED <<callers, backends, at, sess, native, stream, over>>
-----------------------------------------------------------------------------
AudioNext ==
  \/ Callers
  \/ \E r \in Runtimes : Inject(r)
  \/ \E r \in Runtimes, b \in Backends : OpenBackend(b, r)
  \/ \E r \in Runtimes, n \in Names : LoadModel(n, r)
  \/ \E n \in Names : LoadThrows(n)
  \/ \E m \in Models : OpenItsModel(m)
  \/ WarmItsModel \/ CloseItsModel
  \/ \E b \in Backends :
       \/ Advertised(b) \/ GiveUp(b) \/ CloseBackend(b) \/ CloseItsRuntime(b)
       \/ Run(b) \/ Finally(b)
       \/ \E s \in Sessions : Probe(b, s) \/ Start(b, s)
  \/ \E v \in Streams :
       \/ FeedChunk(v) \/ CloseStream(v)
       \/ \E s \in Sessions : OpenStream(v, s)
       \/ \E i \in Iterators : PollTransitions(i, v)
  \/ \E i \in Iterators : End(i) \/ Poll(i)

AudioSpec == AudioInit /\ [][AudioNext]_audioVars
-----------------------------------------------------------------------------
(* Properties *)

\* Whatever fails and whoever closes what, an open runtime is in the hands of a
\* caller or of a backend that will close it, and an open session in those of a
\* caller, of a stream or of the method under way.  The exception is the
\* speaker's runtime that loading another spelling of the name took the place of.
NothingIsLost ==
  /\ \A r \in Runtimes \ (callers \cup displaced) :
       Usable(r) => \E b \in Backends : runtime[b] = r
  /\ \A s \in Sessions \ callers :
       Usable(s) => s = sess \/ \E v \in Streams : native[v] = s

\* Once a generator has taken a stream's last event, no other polls it, but for
\* those that were suspended at a transition when it came: these do not look
\* again (the single-utterance contract of VadStreamingSession).
NoPollAfterTheEnd == pastEnd \subseteq late
=============================================================================
