--------------------------- MODULE TtsStreamProofs ---------------------------
(***************************************************************************)
(* The backend keeps its promises for any number of objects, model names   *)
(* and streams.  What the wrappers promise is taken from                   *)
(* NativeHandlesProofs: every step of the backend is a step of theirs, or  *)
(* none (BackendUsesHandles).                                              *)
(***************************************************************************)
EXTENDS TtsStream, Integers, TLAPS

P == INSTANCE NativeHandlesProofs

\* Between two steps the backend's fields say what is open: its runtime is the
\* only usable one; a usable model is its own, unless it is busy closing; and
\* each step of loadModel finds what the step before it opened.
BackendInv ==
  /\ \A r \in Runtimes : H!Usable(r) <=> r = runtime
  /\ \A m \in Models : H!Usable(m) => m = model \/ thread = "closeRuntime"
  /\ model # None => H!Usable(model)
  /\ thread \in {"closeRuntime", "openRuntime", "advertised", "openModel"} => model = None
  /\ thread = "openRuntime" => runtime = None
  /\ thread \in {"advertised", "openModel", "warm"} => runtime # None
  /\ thread = "warm" => model # None
  /\ thread \in {"idle"} \cup Streams => (runtime = None <=> model = None)

\* An open session is one that a stream is at work with, and an error text is
\* of the runtime of the stream's session.
StreamsInv ==
  /\ \A s \in Sessions : H!Usable(s) =>
       \E g \in Streams : sess[g] = s /\ pc[g] \notin {"created", "ended"}
  /\ \A g \in Streams :
       /\ pc[g] \notin {"created", "ended"} => sess[g] \in Sessions
       /\ pc[g] = "created" => errorOf[g] = None
       /\ errorOf[g] # None => sess[g] \in Sessions /\ errorOf[g] = owner[sess[g]]

BInv == P!IInv /\ TypeOK /\ BackendInv /\ StreamsInv
-----------------------------------------------------------------------------
(* The wrappers *)

\* Both instances of NativeHandles are the same module of the same variables.
LEMMA SameHandles ==
  /\ P!Init <=> H!Init
  /\ P!Next <=> H!Next
  /\ P!vars = H!vars
  BY DEF P!Init, H!Init, P!Next, H!Next, P!vars, H!vars, P!Open, H!Open,
     P!CloseRuntime, H!CloseRuntime, P!OpenModel, H!OpenModel, P!OpenSession,
     H!OpenSession, P!UseSession, H!UseSession, P!CloseSession, H!CloseSession,
     P!WarmModel, H!WarmModel, P!CloseModel, H!CloseModel, P!Usable, H!Usable,
     P!CallWith, H!CallWith, P!Valid, H!Valid, P!NativeBusy, H!NativeBusy,
     P!MayBorrow, H!MayBorrow, P!Released, H!Released, P!Closable, H!Closable,
     P!Handles, H!Handles

\* The kinds of objects are disjoint, as the wrappers' proofs assume.
LEMMA Disjoint == P!KindsAreDisjoint
  BY ObjectsAreDistinct DEF P!KindsAreDisjoint, H!KindsAreDisjoint

\* A step of the backend or of a stream calls one method of one object, or none.
LEMMA StepCallsOne ==
  ASSUME TypeOK, BackendInv, StreamsInv, [Next]_vars
  PROVE  [H!Next]_(H!vars)
<1>1. CASE UNCHANGED vars
  BY <1>1 DEF vars, handles, H!vars
<1>2. CASE UNCHANGED handles
  BY <1>2 DEF handles, H!vars
<1>3. ASSUME LoadingOrClosing PROVE [H!Next]_(H!vars)
  BY <1>2, <1>3 DEF LoadingOrClosing, CloseItsModel, CloseItsRuntime, OpenRuntime,
     CheckAdvertised, OpenItsModel, WarmItsModel, H!Next, TypeOK, BackendInv
<1>4. ASSUME NEW g \in Streams, Start(g) PROVE H!Next
  BY <1>4 DEF Start, TypeOK, H!Next
<1>5. ASSUME NEW g \in Streams, SendText(g) PROVE H!Next
  BY <1>5 DEF SendText, StreamsInv, H!Next
<1>6. ASSUME NEW g \in Streams, Poll(g) PROVE [H!Next]_(H!vars)
  BY <1>2, <1>6 DEF Poll, StreamsInv, H!Next
<1>7. ASSUME NEW g \in Streams, Finally(g) PROVE [H!Next]_(H!vars)
  BY <1>2, <1>7 DEF Finally, StreamsInv, H!Next
<1>8. ASSUME NEW g \in Streams,
             StartThrows(g) \/ Conclude(g) \/ Resume(g) \/ Leave(g) \/ Expire(g)
      PROVE  UNCHANGED handles
  BY <1>8 DEF StartThrows, Conclude, Resume, Leave, Expire
<1>9. ASSUME Close \/ \E n \in ModelNames : LoadModel(n) PROVE UNCHANGED handles
  BY <1>9 DEF Close, LoadModel
<1> QED
  BY <1>1, <1>2, <1>3, <1>4, <1>5, <1>6, <1>7, <1>8, <1>9 DEF Next

\* What the wrappers promise, before and after a step.
LEMMA HandlesKeepIInv ==
  ASSUME BInv, [Next]_vars
  PROVE  P!IInv'
<1>1. [P!Next]_(P!vars)
  BY StepCallsOne, SameHandles DEF BInv, P!vars, H!vars
<1> QED BY <1>1, P!StepIInv, Disjoint DEF BInv
-----------------------------------------------------------------------------
(* What the calls change *)

\* An object of a usable runtime: its owner is usable.
LEMMA OwnerUsable ==
  ASSUME P!IInv, NEW h \in Models \cup Sessions, H!Usable(h)
  PROVE  owner[h] \in Runtimes /\ H!Usable(owner[h])
<1>1. owner[h] \in live
  BY DEF P!IInv, P!BeliefsHold, P!Usable, H!Usable
<1>2. owner[h] \in Runtimes
  BY Disjoint, <1>1 DEF P!IInv, P!TypeOK, P!Handles, P!KindsAreDisjoint
<1> QED BY <1>1, <1>2 DEF P!IInv, P!BeliefsHold, P!Usable, H!Usable

LEMMA CloseModelEffect ==
  ASSUME P!IInv, NEW m \in Models, H!CloseModel(m)
  PROVE  owner' = owner /\ \A h \in P!Handles \ {m} : state'[h] = state[h]
  BY DEF H!CloseModel, P!IInv, P!TypeOK

\* A close of the runtime closes whatever is usable on it.
LEMMA CloseRuntimeEffect ==
  ASSUME P!IInv, NEW r \in Runtimes, H!CloseRuntime(r)
  PROVE  /\ owner' = owner
         /\ \A h \in Runtimes : H!Usable(h)' <=> H!Usable(h) /\ h # r
         /\ \A h \in Models \cup Sessions :
              H!Usable(h)' <=> H!Usable(h) /\ owner[h] # r
<1> DEFINE left == (live \cap Sessions) \ sessions[r]
           free == {m \in H!Closable(r) : ~ H!NativeBusy(m, left)}
<1>1. H!Usable(r)
  BY DEF H!CloseRuntime
<1>2. free = models[r]
  <2>1. P!Closable(r) = H!Closable(r)
    BY DEF P!Closable, H!Closable, P!Released, H!Released
  <2>2. \A m \in Models : P!NativeBusy(m, left) <=> H!NativeBusy(m, left)
    BY DEF P!NativeBusy, H!NativeBusy
  <2>3. models[r] \subseteq Models
    BY DEF P!IInv, P!TypeOK
  <2>4. P!Closable(r) = models[r] /\ \A m \in models[r] : ~ P!NativeBusy(m, left)
    BY <1>1, Disjoint, P!EveryModelCloses DEF P!Usable, H!Usable
  <2> QED BY <2>1, <2>2, <2>3, <2>4
<1>3. \E failing \in SUBSET free :
        state' = [h \in P!Handles |->
           IF h \in sessions[r] \cup (free \ failing) \cup {r} THEN "closed"
           ELSE IF h \in failing THEN "invalid" ELSE state[h]]
  BY DEF H!CloseRuntime, H!Handles, P!Handles
<1>4. \A h \in P!Handles :
        H!Usable(h)' <=> H!Usable(h) /\ h \notin sessions[r] \cup models[r] \cup {r}
  <2> HIDE DEF free
  <2> SUFFICES ASSUME NEW h \in P!Handles
               PROVE  (state'[h] = "open") <=>
                        (state[h] = "open" /\ h \notin sessions[r] \cup models[r] \cup {r})
    BY DEF H!Usable
  <2> QED BY <1>2, <1>3
<1>5. /\ sessions[r] = {s \in Sessions : H!Usable(s) /\ owner[s] = r}
      /\ models[r] = {m \in Models : H!Usable(m) /\ owner[m] = r}
  BY DEF P!IInv, P!RegistriesAgree, P!BeliefsHold, P!Usable, H!Usable
<1>6. owner' = owner
  BY DEF H!CloseRuntime
<1> QED
  BY <1>4, <1>5, <1>6, Disjoint DEF P!KindsAreDisjoint, P!Handles
-----------------------------------------------------------------------------
(* loadModel and close leave the streams alone *)

LEMMA StreamsUndisturbed ==
  ASSUME P!IInv, StreamsInv, TypeOK, UNCHANGED streams,
         \A s \in Sessions : owner'[s] = owner[s] /\ (H!Usable(s)' => H!Usable(s))
  PROVE  StreamsInv'
  BY DEF StreamsInv, streams, TypeOK

LEMMA SessionsAfter ==
  ASSUME BInv, LoadingOrClosing
  PROVE  \A s \in Sessions : owner'[s] = owner[s] /\ (H!Usable(s)' => H!Usable(s))
<1>1. CASE UNCHANGED handles
  BY <1>1 DEF handles, H!Usable
<1>2. CASE CloseItsModel
  BY <1>1, <1>2, CloseModelEffect, Disjoint
  DEF CloseItsModel, BInv, TypeOK, H!Usable, P!Handles, P!KindsAreDisjoint
<1>3. CASE CloseItsRuntime
  BY <1>1, <1>3, CloseRuntimeEffect DEF CloseItsRuntime, BInv, TypeOK
<1>4. CASE OpenRuntime
  BY <1>1, <1>4, Disjoint
  DEF OpenRuntime, H!Open, BInv, P!IInv, P!TypeOK, P!KindsAreDisjoint, P!Handles, H!Usable
<1>5. CASE CheckAdvertised
  BY <1>1, <1>5 DEF CheckAdvertised
<1>6. CASE OpenItsModel
  BY <1>1, <1>6, Disjoint
  DEF OpenItsModel, H!OpenModel, BInv, P!IInv, P!TypeOK, P!KindsAreDisjoint, P!Handles, H!Usable
<1>7. CASE WarmItsModel
  BY <1>7 DEF WarmItsModel, H!WarmModel, H!Usable
<1> QED
  BY <1>2, <1>3, <1>4, <1>5, <1>6, <1>7 DEF LoadingOrClosing

LEMMA InitBInv == Init => BInv
<1> SUFFICES ASSUME Init PROVE BInv
  OBVIOUS
<1>1. H!Init
  BY DEF Init
<1>2. P!IInv
  BY <1>1, P!InitIInv, SameHandles, Disjoint
<1>3. \A h \in P!Handles : ~ H!Usable(h)
  BY <1>1 DEF H!Init, H!Handles, P!Handles, H!Usable
<1>4. TypeOK
  BY DEF Init, TypeOK, Steps
<1>5. BackendInv
  BY <1>3, Disjoint DEF Init, BackendInv, P!Handles, P!KindsAreDisjoint
<1>6. StreamsInv
  BY <1>3 DEF Init, StreamsInv, P!Handles
<1> QED BY <1>2, <1>4, <1>5, <1>6 DEF BInv

\* loadModel and close
LEMMA BackendKeepsBInv ==
  ASSUME BInv, LoadingOrClosing
  PROVE  BackendInv' /\ TypeOK'
<1> USE DEF BInv
<1>0. P!IInv'
  BY HandlesKeepIInv DEF Next
<1>a. None \notin Runtimes \cup Models \cup Sessions
  BY Disjoint DEF P!KindsAreDisjoint
<1>1. CASE CloseItsModel
  <2>1. /\ \A h \in P!Handles : h = model \/ H!Usable(h)' = H!Usable(h)
        /\ owner' = owner
    BY <1>1, CloseModelEffect, Disjoint
    DEF CloseItsModel, TypeOK, handles, H!Usable, P!KindsAreDisjoint
  <2>2. \A m \in Models : H!Usable(m)' => H!Usable(m) \/ m = model
    BY <2>1 DEF P!Handles
  <2>3. \A r \in Runtimes : H!Usable(r)' = H!Usable(r)
    BY <2>1, <1>a, Disjoint DEF P!Handles, P!KindsAreDisjoint, TypeOK
  <2>4. BackendInv'
    BY <1>1, <2>2, <2>3, StreamsAreNoSteps DEF CloseItsModel, BackendInv, TypeOK, Steps
  <2>5. TypeOK'
    BY <1>1, <2>1 DEF CloseItsModel, TypeOK, streams, Steps
  <2> QED BY <2>4, <2>5
<1>2. CASE CloseItsRuntime
  <2>1. /\ \A r \in Runtimes : ~ H!Usable(r)'
        /\ \A m \in Models : ~ H!Usable(m)'
    <3>1. \A m \in Models : H!Usable(m) => owner[m] = runtime /\ runtime \in Runtimes
      BY OwnerUsable DEF BackendInv
    <3>2. CASE runtime = None
      BY <1>2, <1>a, <3>1, <3>2 DEF CloseItsRuntime, BackendInv, handles, H!Usable
    <3>3. CASE runtime # None
      BY <1>2, <3>1, <3>3, CloseRuntimeEffect DEF CloseItsRuntime, BackendInv, TypeOK
    <3> QED BY <3>2, <3>3
  <2>2. model = None
    BY <1>2 DEF CloseItsRuntime, BackendInv
  <2>3. BackendInv'
    BY <1>2, <1>a, <2>1, <2>2, StreamsAreNoSteps DEF CloseItsRuntime, BackendInv, TypeOK, Steps
  <2>4. TypeOK'
    BY <1>2, <2>2 DEF CloseItsRuntime, TypeOK, streams, Steps
  <2> QED BY <2>3, <2>4
<1>3. CASE OpenRuntime
  <2>1. runtime = None /\ model = None
    BY <1>3 DEF OpenRuntime, BackendInv
  <2>2. \A r \in Runtimes : ~ H!Usable(r)
    BY <1>a, <2>1 DEF BackendInv
  <2>3. \A m \in Models : ~ H!Usable(m)
    BY <2>2, OwnerUsable
  <2>4. ASSUME NEW r \in Runtimes, H!Open(r)
        PROVE  /\ \A q \in Runtimes : H!Usable(q)' <=> q = r
               /\ \A m \in Models : ~ H!Usable(m)'
    BY <2>2, <2>3, <2>4, Disjoint
    DEF H!Open, H!Usable, P!IInv, P!TypeOK, P!Handles, P!KindsAreDisjoint
  <2>5. BackendInv'
    BY <1>3, <1>a, <2>1, <2>2, <2>3, <2>4, StreamsAreNoSteps
    DEF OpenRuntime, BackendInv, Steps, handles, H!Usable
  <2>6. TypeOK'
    BY <1>3, <2>1 DEF OpenRuntime, TypeOK, streams, Steps
  <2> QED BY <2>5, <2>6
<1>4. CASE CheckAdvertised
  <2>1. BackendInv'
    BY <1>4, StreamsAreNoSteps
    DEF CheckAdvertised, GiveUpLoading, BackendInv, Steps, handles, H!Usable
  <2>2. TypeOK'
    BY <1>4 DEF CheckAdvertised, GiveUpLoading, TypeOK, streams, handles, Steps
  <2> QED BY <2>1, <2>2
<1>5. CASE OpenItsModel
  <2>1. model = None /\ runtime \in Runtimes
    BY <1>5 DEF OpenItsModel, BackendInv, TypeOK
  <2>2. ASSUME NEW m \in Models, H!OpenModel(runtime, m)
        PROVE  /\ \A q \in Runtimes : H!Usable(q)' <=> H!Usable(q)
               /\ \A n \in Models : H!Usable(n)' <=> n = m
               /\ owner'[m] = runtime
    BY <1>5, <1>a, <2>1, <2>2, Disjoint, StreamsAreNoSteps
    DEF OpenItsModel, H!OpenModel, H!Usable, BackendInv, P!IInv, P!TypeOK, P!Handles,
        P!KindsAreDisjoint, Steps
  <2>3. BackendInv'
    BY <1>5, <1>a, <2>1, <2>2, StreamsAreNoSteps
    DEF OpenItsModel, GiveUpLoading, BackendInv, Steps, handles, H!Usable
  <2>4. TypeOK'
    BY <1>5, <2>1, <2>2 DEF OpenItsModel, GiveUpLoading, TypeOK, streams, handles, Steps
  <2> QED BY <2>3, <2>4
<1>6. CASE WarmItsModel
  <2>1. state' = state /\ owner' = owner
    BY <1>6 DEF WarmItsModel, H!WarmModel
  <2>2. BackendInv'
    BY <1>6, <2>1, StreamsAreNoSteps
    DEF WarmItsModel, GiveUpLoading, BackendInv, Steps, H!Usable
  <2>3. TypeOK'
    BY <1>6, <2>1 DEF WarmItsModel, GiveUpLoading, TypeOK, streams, Steps
  <2> QED BY <2>2, <2>3
<1> QED
  BY <1>1, <1>2, <1>3, <1>4, <1>5, <1>6 DEF LoadingOrClosing
-----------------------------------------------------------------------------
(* Streams leave the backend alone *)

LEMMA BackendUndisturbed ==
  ASSUME BInv, UNCHANGED backend,
         thread' = thread \/ {thread, thread'} \subseteq {"idle"} \cup Streams,
         \A h \in Runtimes \cup Models : state'[h] = state[h]
  PROVE  BackendInv'
  BY StreamsAreNoSteps DEF BInv, BackendInv, backend, H!Usable, TypeOK, Steps

\* What a stream's call changes: sessions only.
SessionsOnly ==
  /\ \A h \in Runtimes \cup Models : state'[h] = state[h]
  /\ \A m \in Models : owner'[m] = owner[m]

LEMMA OpenSessionEffect ==
  ASSUME P!IInv, NEW r \in Runtimes, NEW m \in Models, NEW s \in Sessions,
         H!OpenSession(r, m, s)
  PROVE  /\ SessionsOnly
         /\ \A x \in Sessions \ {s} : state'[x] = state[x] /\ owner'[x] = owner[x]
         /\ owner[s] = None
  BY Disjoint DEF SessionsOnly, H!OpenSession, P!IInv, P!TypeOK, P!Handles, P!KindsAreDisjoint

LEMMA CloseSessionEffect ==
  ASSUME P!IInv, NEW s \in Sessions, H!CloseSession(s)
  PROVE  /\ SessionsOnly
         /\ \A x \in Sessions \ {s} : state'[x] = state[x]
         /\ ~ H!Usable(s)'
         /\ owner' = owner
  BY Disjoint DEF SessionsOnly, H!CloseSession, H!Usable, P!IInv, P!TypeOK, P!Handles,
     P!KindsAreDisjoint

LEMMA StartKeepsBInv ==
  ASSUME BInv, NEW g \in Streams, Start(g)
  PROVE  BackendInv' /\ TypeOK' /\ StreamsInv'
<1> USE DEF BInv
<1>1. PICK s \in Sessions :
        H!OpenSession(runtime, model, s) /\ sess' = [sess EXCEPT ![g] = s]
  BY DEF Start
<1>2. /\ SessionsOnly
      /\ \A x \in Sessions \ {s} : state'[x] = state[x] /\ owner'[x] = owner[x]
      /\ owner[s] = None
  BY <1>1, OpenSessionEffect DEF Start, TypeOK
<1>3. BackendInv'
  BY <1>2, BackendUndisturbed DEF Start, SessionsOnly
<1>4. TypeOK'
  BY <1>1, <1>2 DEF Start, TypeOK, Become, backend, SessionsOnly
<1>5. pc[g] = "created" /\ pc' = [pc EXCEPT ![g] = "sending"] /\ errorOf' = errorOf
  BY DEF Start, Become
<1>6. \A x \in Sessions : H!Usable(x)' =>
        \E f \in Streams : sess'[f] = x /\ pc'[f] \notin {"created", "ended"}
  BY <1>1, <1>2, <1>5 DEF StreamsInv, TypeOK, H!Usable
<1>7. ASSUME NEW f \in Streams
      PROVE  /\ pc'[f] \notin {"created", "ended"} => sess'[f] \in Sessions
             /\ pc'[f] = "created" => errorOf'[f] = None
             /\ errorOf'[f] # None => sess'[f] \in Sessions /\ errorOf'[f] = owner'[sess'[f]]
  BY <1>1, <1>2, <1>5 DEF StreamsInv, TypeOK
<1> QED BY <1>3, <1>4, <1>6, <1>7 DEF StreamsInv

\* A step of a stream between its start and its end, which opens and closes no
\* session and reads no error text but of its own runtime.
LEMMA StreamGoesOn ==
  ASSUME BInv, NEW g \in Streams, pc'[g] # "created",
         pc'[g] \notin {"created", "ended"} => sess[g] \in Sessions,
         pc'[g] = "ended" => pc[g] = "created",
         pc' = [pc EXCEPT ![g] = pc'[g]], sess' = sess, state' = state, owner' = owner,
         \/ errorOf' = errorOf
         \/ /\ sess[g] \in Sessions /\ pc[g] # "created"
            /\ errorOf' = [errorOf EXCEPT ![g] = owner[sess[g]]]
  PROVE  StreamsInv'
<1> USE DEF BInv, TypeOK
<1>1. \A s \in Sessions : H!Usable(s)' =>
        \E f \in Streams : sess'[f] = s /\ pc'[f] \notin {"created", "ended"}
  BY DEF StreamsInv, H!Usable
<1>2. ASSUME NEW f \in Streams
      PROVE  /\ pc'[f] \notin {"created", "ended"} => sess'[f] \in Sessions
             /\ pc'[f] = "created" => errorOf'[f] = None
             /\ errorOf'[f] # None => sess'[f] \in Sessions /\ errorOf'[f] = owner'[sess'[f]]
  <2>1. CASE f = g
    BY <2>1 DEF StreamsInv
  <2>2. CASE f # g
    BY <2>2 DEF StreamsInv
  <2> QED BY <2>1, <2>2
<1> QED BY <1>1, <1>2 DEF StreamsInv

LEMMA SendTextKeepsBInv ==
  ASSUME BInv, NEW g \in Streams, SendText(g)
  PROVE  BackendInv' /\ TypeOK' /\ StreamsInv'
<1> USE DEF BInv
<1>1. state' = state /\ owner' = owner
  BY DEF SendText, H!UseSession
<1>2. BackendInv'
  BY <1>1, BackendUndisturbed DEF SendText, TextRefused
<1>3. TypeOK'
  BY <1>1 DEF SendText, TextRefused, EndWith, Become, TypeOK, backend
<1>4. StreamsInv'
  BY <1>1, StreamGoesOn DEF SendText, TextRefused, EndWith, Become, TypeOK, StreamsInv
<1> QED BY <1>2, <1>3, <1>4

LEMMA PollKeepsBInv ==
  ASSUME BInv, NEW g \in Streams, Poll(g)
  PROVE  BackendInv' /\ TypeOK' /\ StreamsInv'
<1> USE DEF BInv
<1>1. state' = state /\ owner' = owner
  BY DEF Poll, H!UseSession, handles
<1>2. thread' \in {thread, "idle"} /\ thread = g
  BY DEF Poll, Event, EndWith
<1>3. BackendInv'
  BY <1>1, <1>2, BackendUndisturbed DEF Poll
<1>4. sess[g] \in Sessions
  BY DEF Poll, StreamsInv
<1>5. H!Usable(sess[g]) => runtime = owner[sess[g]]
  BY <1>4, OwnerUsable DEF BackendInv
<1>6. errorOf' = errorOf \/ errorOf' = [errorOf EXCEPT ![g] = owner[sess[g]]]
  BY <1>5 DEF Poll, Event, ReadError
<1>7. TypeOK'
  <2>1. owner[sess[g]] \in Runtimes \cup {None}
    BY <1>4 DEF P!IInv, P!TypeOK
  <2>2. errorOf' \in [Streams -> Runtimes \cup {None}]
    BY <1>6, <2>1 DEF TypeOK
  <2>3. /\ pc' \in [Streams ->
                   {"created", "sending", "draining", "suspended", "finally", "ended"}]
        /\ result' \in [Streams -> {"none", "ok", "failed", "timeout", "left"}]
    BY DEF Poll, Event, EndWith, Become, TypeOK
  <2>4. seen' \in [Streams -> SUBSET {"final", "error", "completed", "bad"}]
    BY DEF Poll, Event, Note, TypeOK
  <2> QED
    BY <1>1, <1>2, <2>2, <2>3, <2>4 DEF Poll, TypeOK, backend, Steps
<1>8. pc' = [pc EXCEPT ![g] = pc'[g]] /\ pc'[g] \in {"draining", "suspended", "finally"}
  BY DEF Poll, Event, EndWith, Become, TypeOK
<1>9. StreamsInv'
  BY <1>1, <1>4, <1>6, <1>8, StreamGoesOn DEF Poll
<1> QED BY <1>3, <1>7, <1>9

LEMMA FinallyKeepsBInv ==
  ASSUME BInv, NEW g \in Streams, Finally(g)
  PROVE  BackendInv' /\ TypeOK' /\ StreamsInv'
<1> USE DEF BInv
<1>1. sess[g] \in Sessions /\ pc[g] = "finally"
  BY DEF Finally, StreamsInv
<1>2. /\ SessionsOnly
      /\ \A x \in Sessions \ {sess[g]} : state'[x] = state[x]
      /\ ~ H!Usable(sess[g])'
      /\ owner' = owner
  BY <1>1, CloseSessionEffect DEF Finally, SessionsOnly, handles, H!Usable
<1>3. BackendInv'
  BY <1>2, BackendUndisturbed DEF Finally, SessionsOnly
<1>4. TypeOK'
  BY <1>2 DEF Finally, Become, TypeOK, backend, Steps
<1>5. StreamsInv'
  BY <1>1, <1>2 DEF Finally, Become, StreamsInv, TypeOK, H!Usable
<1> QED BY <1>3, <1>4, <1>5

LEMMA QuietStreamStepKeepsBInv ==
  ASSUME BInv, NEW g \in Streams,
         StartThrows(g) \/ Conclude(g) \/ Resume(g) \/ Leave(g) \/ Expire(g)
  PROVE  BackendInv' /\ TypeOK' /\ StreamsInv'
<1> USE DEF BInv
<1>1. state' = state /\ owner' = owner
  BY DEF StartThrows, Conclude, Resume, Leave, Expire, handles
<1>2. thread' = thread \/ {thread, thread'} \subseteq {"idle"} \cup Streams
  BY DEF StartThrows, Conclude, Resume, Leave, Expire
<1>3. BackendInv'
  BY <1>1, <1>2, BackendUndisturbed DEF StartThrows, Conclude, Resume, Leave, Expire
<1>4. TypeOK'
  BY <1>1 DEF StartThrows, Conclude, Verdict, Resume, Leave, Expire, EndWith, Become, TypeOK,
     backend
<1>5. StreamsInv'
  BY <1>1, StreamGoesOn
  DEF StartThrows, Conclude, Resume, Leave, Expire, EndWith, Become, TypeOK, StreamsInv
<1> QED BY <1>3, <1>4, <1>5
-----------------------------------------------------------------------------
LEMMA StepBInv == BInv /\ [Next]_vars => BInv'
<1> SUFFICES ASSUME BInv, [Next]_vars PROVE BInv'
  OBVIOUS
<1>0. P!IInv'
  BY HandlesKeepIInv
<1>1. CASE UNCHANGED vars
  <2>1. TypeOK'
    BY <1>1 DEF BInv, TypeOK, vars, handles, backend, streams
  <2>2. BackendInv'
    BY <1>1 DEF BInv, BackendInv, vars, handles, backend, H!Usable
  <2>3. StreamsInv'
    BY <1>1 DEF BInv, StreamsInv, vars, handles, streams, H!Usable
  <2> QED BY <1>0, <2>1, <2>2, <2>3 DEF BInv
<1>2. CASE LoadingOrClosing
  <2>1. UNCHANGED streams
    BY <1>2 DEF LoadingOrClosing, CloseItsModel, CloseItsRuntime, OpenRuntime, CheckAdvertised,
       OpenItsModel, WarmItsModel
  <2>2. StreamsInv'
    BY <1>2, <2>1, SessionsAfter, StreamsUndisturbed DEF BInv
  <2> QED BY <1>0, <1>2, <2>2, BackendKeepsBInv DEF BInv
<1>3. CASE Close \/ \E n \in ModelNames : LoadModel(n)
  <2>1. /\ UNCHANGED <<handles, runtime, model, streams>>
        /\ thread = "idle" /\ thread' = "closeModel"
    BY <1>3 DEF Close, LoadModel
  <2>2. TypeOK'
    BY <1>3, <2>1 DEF Close, LoadModel, BInv, TypeOK, handles, streams, Steps
  <2>3. BackendInv'
    BY <2>1, StreamsAreNoSteps DEF BInv, BackendInv, handles, H!Usable, Steps
  <2>4. StreamsInv'
    BY <2>1 DEF BInv, StreamsInv, handles, streams, H!Usable
  <2> QED BY <1>0, <2>2, <2>3, <2>4 DEF BInv
<1>4. ASSUME NEW g \in Streams,
             \/ Start(g) \/ StartThrows(g) \/ SendText(g) \/ Poll(g) \/ Conclude(g)
             \/ Finally(g) \/ Resume(g) \/ Leave(g) \/ Expire(g)
      PROVE  BackendInv' /\ TypeOK' /\ StreamsInv'
  BY <1>4, StartKeepsBInv, SendTextKeepsBInv, PollKeepsBInv, FinallyKeepsBInv,
     QuietStreamStepKeepsBInv
<1> QED
  BY <1>0, <1>1, <1>2, <1>3, <1>4 DEF Next, BInv

\* What the steps of the backend rest on.
THEOREM BackendInvariant == Spec => []BInv
  BY InitBInv, StepBInv, PTL DEF Spec

\* Every behaviour of the backend and its streams is one of NativeHandles: its
\* calls are calls that any caller of the loader might make.
THEOREM BackendUsesHandles == Spec => H!Spec
<1>1. Init => H!Init
  BY DEF Init
<1>2. BInv /\ [Next]_vars => [H!Next]_(H!vars)
  BY StepCallsOne DEF BInv
<1> QED BY <1>1, <1>2, BackendInvariant, PTL DEF Spec, H!Spec

\* The type invariant: a model the backend holds is one of its runtime.
THEOREM BackendTypeCorrect == Spec => []TypeOK
<1>1. BInv => TypeOK
  BY DEF BInv
<1> QED BY <1>1, BackendInvariant, PTL

\* Whichever step of loadModel fails, its caller finds either nothing open or
\* one runtime with one model.
THEOREM LoadsAllOrNothing == Spec => []AllOrNothing
<1>1. BInv => AllOrNothing
  BY StreamsAreNoSteps, Disjoint
  DEF BInv, TypeOK, BackendInv, AllOrNothing, Steps, P!KindsAreDisjoint
<1> QED BY <1>1, BackendInvariant, PTL

\* However streams end, and whatever their callers do between two chunks, no
\* session stays open behind them.
THEOREM SessionsDoNotLeak == Spec => []NoSessionLeaks
<1>1. BInv => NoSessionLeaks
  BY DEF BInv, StreamsInv, NoSessionLeaks
<1> QED BY <1>1, BackendInvariant, PTL

\* The text of an error is that of the runtime the stream's session is on.
THEOREM ErrorTextsAreOwn == Spec => []ErrorTextIsItsOwn
<1>1. BInv => ErrorTextIsItsOwn
  BY DEF BInv, StreamsInv, ErrorTextIsItsOwn
<1> QED BY <1>1, BackendInvariant, PTL

\* The backend never has the library called with a freed handle.
THEOREM BackendNeverStrays == Spec => []H!NoStrayCall
<1>1. BInv => H!NoStrayCall
  BY DEF BInv, P!IInv, P!NoStrayCall, H!NoStrayCall
<1> QED BY <1>1, BackendInvariant, PTL
-----------------------------------------------------------------------------
(* Every call gets to its end *)

\* A stream that has the thread is at work.
AtWork == thread \in Streams => pc[thread] \in {"sending", "draining", "finally"}

\* What is left of the call that has the thread: loadModel closes, opens, and may
\* have to close again; a stream sends, drains until its deadline, and cleans up.
StepsLeft ==
  IF thread \in Streams
  THEN IF pc[thread] = "sending" THEN 4
       ELSE IF pc[thread] = "draining" THEN (IF expired[thread] THEN 2 ELSE 3)
       ELSE IF pc[thread] = "finally" THEN 1 ELSE 0
  ELSE IF thread = "closeModel" THEN (IF onClosed = "idle" THEN 2 ELSE 8)
  ELSE IF thread = "closeRuntime" THEN (IF onClosed = "idle" THEN 1 ELSE 7)
  ELSE IF thread = "openRuntime" THEN 6
  ELSE IF thread = "advertised" THEN 5
  ELSE IF thread = "openModel" THEN 4
  ELSE IF thread = "warm" THEN 3
  ELSE 0

\* A step of the call itself, its deadline included, events of the library apart.
Works ==
  \/ LoadingOrClosing
  \/ \E g \in Streams :
       \/ SendText(g) \/ Conclude(g) \/ Finally(g)
       \/ thread = g /\ ~expired[g] /\ Expire(g)

\* The finite descent under EveryCallReturns: while a call has the thread nothing
\* takes it back, each step of its own takes it forward, and it has some left for
\* as long as it keeps the thread.
CallsRunOut ==
  [][/\ thread # "idle" => StepsLeft > 0 /\ StepsLeft' \in 0..StepsLeft
     /\ Works => StepsLeft' \in 0..(StepsLeft - 1)]_vars

LEMMA StreamSteps ==
  ASSUME TypeOK, AtWork, NEW g \in Streams,
         \/ Start(g) \/ StartThrows(g) \/ SendText(g) \/ Poll(g) \/ Conclude(g)
         \/ Finally(g) \/ Resume(g) \/ Leave(g) \/ Expire(g)
  PROVE  /\ AtWork'
         /\ thread # "idle" => StepsLeft' \in 0..StepsLeft
         /\ \/ SendText(g) \/ Conclude(g) \/ Finally(g)
            \/ thread = g /\ ~expired[g] /\ Expire(g)
            => StepsLeft' \in 0..(StepsLeft - 1)
<1> USE StreamsAreNoSteps DEF Steps, TypeOK, AtWork, Become, EndWith
<1>1. g # "idle" /\ thread \in Steps \cup Streams
  OBVIOUS
<1>2. CASE Start(g) \/ Resume(g)
  BY <1>2 DEF Start, Resume, SendText, Conclude, Finally, Expire
<1>3. CASE Leave(g)
  BY <1>3 DEF Leave, SendText, Conclude, Finally, Expire
<1>4. CASE StartThrows(g)
  BY <1>4 DEF StartThrows, SendText, Conclude, Finally, Expire
<1>5. CASE SendText(g)
  BY <1>5 DEF SendText, TextRefused, StepsLeft, backend
<1>6. CASE Poll(g)
  <2>1. /\ thread = g /\ pc[g] = "draining" /\ ~expired[g]
        /\ UNCHANGED <<onClosed, expired>>
    BY <1>6 DEF Poll, backend
  <2>2. \/ thread' = thread /\ pc' = pc
        \/ thread' = thread /\ pc' = [pc EXCEPT ![g] = "finally"]
        \/ thread' = "idle"
    BY <1>6 DEF Poll, Event
  <2>3. AtWork' /\ StepsLeft = 3 /\ StepsLeft' \in {0, 1, 3}
    BY <1>1, <2>1, <2>2 DEF StepsLeft
  <2>4. ~SendText(g) /\ ~Conclude(g) /\ ~Finally(g) /\ ~Expire(g)
    <3>1. pc'[g] \in {"draining", "finally"} \/ thread' = "idle"
      BY <2>1, <2>2
    <3> QED BY <1>6, <2>1, <2>2, <3>1 DEF Poll, SendText, Conclude, LoopIsOver, Finally, Expire
  <2> QED BY <2>3, <2>4
<1>7. CASE Conclude(g)
  BY <1>7 DEF Conclude, StepsLeft, backend
<1>8. CASE Finally(g)
  BY <1>8 DEF Finally, StepsLeft, backend
<1>9. CASE Expire(g)
  <2>1. /\ UNCHANGED <<thread, onClosed, pc>> /\ pc[g] \in {"draining", "suspended"}
        /\ expired' = [expired EXCEPT ![g] = TRUE]
    BY <1>9 DEF Expire, backend
  <2>2. CASE thread = g
    BY <1>1, <2>1, <2>2 DEF StepsLeft, SendText, Conclude, Finally
  <2>3. CASE thread # g
    <3>1. \A h \in Streams \ {g} : expired'[h] = expired[h]
      BY <2>1
    <3>2. StepsLeft' = StepsLeft /\ StepsLeft \in Nat
      BY <1>1, <2>1, <2>3, <3>1 DEF StepsLeft
    <3> QED BY <2>1, <2>3, <3>2 DEF SendText, Conclude, Finally
  <2> QED BY <2>2, <2>3
<1> QED BY <1>2, <1>3, <1>4, <1>5, <1>6, <1>7, <1>8, <1>9

LEMMA RunOutStep ==
  TypeOK /\ AtWork /\ [Next]_vars =>
    /\ AtWork'
    /\ [/\ thread # "idle" => StepsLeft > 0 /\ StepsLeft' \in 0..StepsLeft
        /\ Works => StepsLeft' \in 0..(StepsLeft - 1)]_vars
<1> SUFFICES ASSUME TypeOK, AtWork, [Next]_vars
             PROVE  /\ AtWork'
                    /\ [/\ thread # "idle" => StepsLeft > 0 /\ StepsLeft' \in 0..StepsLeft
                        /\ Works => StepsLeft' \in 0..(StepsLeft - 1)]_vars
  OBVIOUS
<1>1. thread # "idle" => StepsLeft > 0
  BY StreamsAreNoSteps DEF TypeOK, AtWork, StepsLeft, Steps
<1>2. CASE UNCHANGED vars
  BY <1>2 DEF AtWork, vars, streams
<1>3. ASSUME LoadingOrClosing
      PROVE  AtWork' /\ StepsLeft' \in 0..(StepsLeft - 1)
  BY <1>3, StreamsAreNoSteps
  DEF LoadingOrClosing, CloseItsModel, CloseItsRuntime, OpenRuntime, CheckAdvertised,
      OpenItsModel, WarmItsModel, GiveUpLoading, TypeOK, AtWork, StepsLeft, Steps
<1>4. ASSUME Close \/ \E n \in ModelNames : LoadModel(n)
      PROVE  AtWork' /\ thread = "idle" /\ ~LoadingOrClosing
             /\ \A g \in Streams : thread # g
  BY <1>4, StreamsAreNoSteps
  DEF Close, LoadModel, AtWork, Steps, LoadingOrClosing, CloseItsModel, CloseItsRuntime,
      OpenRuntime, CheckAdvertised, OpenItsModel, WarmItsModel
<1>5. ASSUME NEW g \in Streams,
             \/ Start(g) \/ StartThrows(g) \/ SendText(g) \/ Poll(g) \/ Conclude(g)
             \/ Finally(g) \/ Resume(g) \/ Leave(g) \/ Expire(g)
      PROVE  AtWork' /\ (thread # "idle" => StepsLeft' \in 0..StepsLeft)
  BY <1>5, StreamSteps
<1>6. ASSUME Works PROVE StepsLeft' \in 0..(StepsLeft - 1)
  BY <1>3, <1>6, StreamSteps DEF Works
<1>7. ASSUME LoadingOrClosing PROVE StepsLeft' \in 0..StepsLeft
  <2>1. StepsLeft \in Nat
    BY DEF StepsLeft
  <2> QED BY <1>3, <1>7, <2>1
<1> QED
  BY <1>1, <1>2, <1>3, <1>4, <1>5, <1>6, <1>7 DEF Next

\* For any streams, models and library: a load or a close takes at most eight
\* steps, and a stream four between two chunks, events without a chunk apart.
THEOREM EveryCallRunsOut == Spec => CallsRunOut
<1>1. Init => AtWork
  BY StreamsAreNoSteps DEF Init, AtWork, Steps
<1> QED BY <1>1, BackendTypeCorrect, RunOutStep, PTL DEF Spec, CallsRunOut
=============================================================================
