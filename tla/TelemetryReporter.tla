-------------------------- MODULE TelemetryReporter --------------------------
(***************************************************************************)
(* TelemetryReporter of src/telemetry.ts: a queue that track and batch     *)
(* fill and that a timer, a full batch and dispose empty.  Nobody waits    *)
(* for a flush, so that several may be under way.  Events are numbered as  *)
(* they come.                                                              *)
(***************************************************************************)
EXTENDS Sequences, Naturals

CONSTANTS
  MaxBatchSize,  \* maxBatchSize
  MaxEvents      \* bound: the events that ever come

ASSUME MaxBatchSizeAssumption == MaxBatchSize \in Nat \ {0}

VARIABLES
  tracked,    \* how many events have come
  queue,      \* the events that wait
  timer,      \* the interval runs: it does until dispose
  requests,   \* the batches that were posted
  flying,     \* those of them that have not been answered
  tooLate,    \* history: the events that came after dispose
  flooded     \* history: a call of batch left more than one batch behind

telemetryVars == <<tracked, queue, timer, requests, flying, tooLate, flooded>>

TelemetryInit ==
  /\ tracked = 0 /\ queue = <<>> /\ timer = TRUE
  /\ requests = {} /\ flying = {}
  /\ tooLate = {} /\ flooded = FALSE

In(s) == {s[k] : k \in DOMAIN s}

Least(a, b) == IF a < b THEN a ELSE b

\* What flush takes of a queue, and what it leaves.
Batch(q) == SubSeq(q, 1, Least(Len(q), MaxBatchSize))
Rest(q) == SubSeq(q, Least(Len(q), MaxBatchSize) + 1, Len(q))

\* flush posts the head of what the queue has become, and removes it before
\* the answer comes.
Flush(q) ==
  /\ queue' = Rest(q)
  /\ requests' = IF q = <<>> THEN requests ELSE requests \cup {Batch(q)}
  /\ flying' = IF q = <<>> THEN flying ELSE flying \cup {Batch(q)}

\* The next n events come; after dispose nothing may flush them any more.
Arrive(n) ==
  /\ tracked' = tracked + n
  /\ tooLate' = IF timer THEN tooLate ELSE tooLate \cup (tracked + 1 .. tracked + n)
  /\ UNCHANGED timer

\* The queue with the next n events.
With(n) == queue \o [k \in 1 .. n |-> tracked + k]

\* Mutant: a full queue is left to the timer.
EnqueueOnly(q) == queue' = q /\ UNCHANGED <<requests, flying>>

\* track flushes a queue that holds a full batch.
Enqueue(q) ==
  IF Len(q) >= MaxBatchSize THEN Flush(q)
  ELSE queue' = q /\ UNCHANGED <<requests, flying>>

Track ==
  /\ tracked < MaxEvents
  /\ Arrive(1)
  /\ Enqueue(With(1))
  /\ UNCHANGED flooded

\* batch: any number of events, and one flush.
TrackAll(n) ==
  /\ n > 0 /\ tracked + n <= MaxEvents
  /\ Arrive(n)
  /\ Flush(With(n))
  /\ flooded' = (flooded \/ Len(Rest(With(n))) > MaxBatchSize)

\* The interval, or a caller of flush.
FlushNow ==
  /\ queue # <<>>
  /\ Flush(queue)
  /\ UNCHANGED <<tracked, timer, tooLate, flooded>>

Dispose ==
  /\ timer' = FALSE
  /\ Flush(queue)
  /\ UNCHANGED <<tracked, tooLate, flooded>>

\* A request ends; whatever the answer, its events are not tried again.
Answered(b) ==
  /\ flying' = flying \ {b}
  /\ UNCHANGED <<tracked, queue, timer, requests, tooLate, flooded>>

TelemetryNext ==
  \/ Track
  \/ \E n \in 1 .. MaxEvents : TrackAll(n)
  \/ FlushNow \/ Dispose
  \/ \E b \in flying : Answered(b)

TelemetrySpec == TelemetryInit /\ [][TelemetryNext]_telemetryVars
-----------------------------------------------------------------------------
(* Properties *)

\* However flushes overlap, an event is posted at most once and none is lost on
\* the way; and dispose, which flushes once, leaves nothing behind that came
\* before it, unless a call of batch had filled the queue beyond a batch.
NothingIsStranded ==
  /\ \A a, b \in requests : a = b \/ In(a) \cap In(b) = {}
  /\ \A b \in requests : In(b) \cap In(queue) = {}
  /\ 1 .. tracked = In(queue) \cup UNION {In(b) : b \in requests}
  /\ ~ timer /\ ~ flooded => In(queue) \subseteq tooLate
=============================================================================
