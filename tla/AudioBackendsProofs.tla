------------------------- MODULE AudioBackendsProofs -------------------------
(***************************************************************************)
(* Proofs about AudioBackends, for any number of objects, streams and      *)
(* generators: the backends use the loader's objects as any caller may, so *)
(* that what NativeHandles promises holds of them; they lose none; and the *)
(* last event of a stream ends its polling.                                *)
(***************************************************************************)
EXTENDS AudioBackends, NativeHandlesProofs

-----------------------------------------------------------------------------
(* The backends are callers of the loader *)

Steps == {"opened", "advertised", "modelled", "closing", "running", "ran", "probed"}

\* The steps at which the method under way holds a session.
Holding == {"running", "ran", "probed"}

\* The type invariant of the backends, the streams and the generators.
AudioTypeOK ==
  /\ callers \subseteq Handles
  /\ runtime \in [Backends -> Runtimes \cup {None}]
  /\ model \in Models \cup {None}
  /\ name \in Names \cup {"none"}
  /\ at = Idle \/ at \in Backends \X Steps
  /\ sess \in Sessions \cup {None}
  /\ native \in [Streams -> Sessions \cup {None}]
  /\ stream \in [Streams -> {"absent", "open", "closed"}]
  /\ terminal \in [Streams -> BOOLEAN]
  /\ over \in [Iterators -> Streams \cup {None}]
  /\ iter \in [Iterators -> {"absent", "fresh", "suspended", "done"}]
  /\ displaced \subseteq Runtimes
  /\ late \subseteq Iterators
  /\ pastEnd \subseteq Iterators

\* What the fields of a backend hold at each step of its methods.
FieldsFit ==
  /\ \A b \in Backends, x \in Steps : at = <<b, x>> => runtime[b] # None
  /\ at = <<"speaker", "modelled">> => model # None
  /\ \A b \in Backends : at = <<b, "modelled">> => b = "speaker"
  /\ sess # None <=> \E b \in Backends, x \in Holding : at = <<b, x>>
  /\ \A v \in Streams : native[v] # None <=> stream[v] = "open"
  /\ \A i \in Iterators : iter[i] # "absent" => over[i] \in Streams

FieldsInv == AudioTypeOK /\ FieldsFit

LEMMA FieldsInit == AudioInit => FieldsInv
  BY DEF AudioInit, FieldsInv, AudioTypeOK, FieldsFit, Idle, Backends, Steps, Holding, Names

\* A step of the backends, the streams or the generators is a step of the
\* loader's objects, or leaves them alone.
LEMMA BackendsStepHandles ==
  ASSUME FieldsInv, [AudioNext]_audioVars
  PROVE  [Next]_vars
  <1>1. ASSUME UNCHANGED handles  PROVE [Next]_vars
    BY <1>1 DEF handles, vars
  <1>2. CASE Callers
    <2>1. ASSUME NEW r \in Runtimes, Open(r) \/ CloseRuntime(r)  PROVE Next
      BY <2>1 DEF Next
    <2>2. ASSUME NEW r \in Runtimes, NEW m \in Models, OpenModel(r, m)  PROVE Next
      BY <2>2 DEF Next
    <2>3. ASSUME NEW r \in Runtimes, NEW m \in Models \cup {None}, NEW s \in Sessions,
                 OpenSession(r, m, s)
          PROVE  Next
      BY <2>3 DEF Next
    <2>4. ASSUME NEW s \in Sessions, UseSession(s) \/ CloseSession(s)  PROVE Next
      BY <2>4 DEF Next
    <2>5. ASSUME NEW m \in Models, WarmModel(m) \/ CloseModel(m)  PROVE Next
      BY <2>5 DEF Next
    <2>6. QED  BY <1>2, <2>1, <2>2, <2>3, <2>4, <2>5 DEF Callers
  <1>3. CASE \E r \in Runtimes :
               \/ Inject(r) \/ \E b \in Backends : OpenBackend(b, r)
               \/ \E n \in Names : LoadModel(n, r)
    BY <1>1, <1>3 DEF Inject, OpenBackend, LoadModel, OpenRuntime, Next
  <1>4. CASE (\E n \in Names : LoadThrows(n))
             \/ \E b \in Backends : Advertised(b) \/ GiveUp(b) \/ CloseBackend(b)
    BY <1>1, <1>4 DEF LoadThrows, Advertised, GiveUp, CloseBackend
  <1>5. ASSUME NEW m \in Models, OpenItsModel(m)  PROVE Next
    <2>1. runtime["speaker"] \in Runtimes
      BY <1>5 DEF OpenItsModel, FieldsInv, AudioTypeOK, FieldsFit, Backends, Steps
    <2>2. QED  BY <1>5, <2>1 DEF OpenItsModel, Next
  <1>6. CASE WarmItsModel
    <2>1. model \in Models
      BY <1>6 DEF WarmItsModel, FieldsInv, AudioTypeOK, FieldsFit
    <2>2. QED  BY <1>6, <2>1 DEF WarmItsModel, Next
  <1>7. CASE CloseItsModel
    <2>1. model \in Models
      BY <1>7 DEF CloseItsModel, FieldsInv, AudioTypeOK
    <2>2. QED  BY <1>1, <1>7, <2>1 DEF CloseItsModel, Next
  <1>8. ASSUME NEW b \in Backends, CloseItsRuntime(b)  PROVE [Next]_vars
    <2>1. runtime[b] \in Runtimes
      BY <1>8 DEF CloseItsRuntime, FieldsInv, AudioTypeOK, FieldsFit, Steps
    <2>2. QED  BY <1>1, <1>8, <2>1 DEF CloseItsRuntime, Next
  <1>9. ASSUME NEW b \in Backends, Run(b) \/ Finally(b)  PROVE Next
    <2>1. sess \in Sessions
      BY <1>9 DEF Run, Finally, FieldsInv, AudioTypeOK, FieldsFit, Holding
    <2>2. QED  BY <1>9, <2>1 DEF Run, Finally, Next
  <1>10. ASSUME NEW b \in Backends, NEW s \in Sessions, Probe(b, s) \/ Start(b, s)
         PROVE  Next
    <2>1. runtime[b] \in Runtimes /\ Lent(b) \in Models \cup {None}
      BY <1>10 DEF Probe, Start, Lent, FieldsInv, AudioTypeOK, FieldsFit, Steps
    <2>2. QED  BY <1>10, <2>1 DEF Probe, Start, Next
  <1>11. ASSUME NEW v \in Streams, FeedChunk(v) \/ CloseStream(v)  PROVE [Next]_vars
    <2>1. native[v] \in Sessions
      BY <1>11 DEF FeedChunk, CloseStream, FieldsInv, AudioTypeOK, FieldsFit
    <2>2. QED  BY <1>1, <1>11, <2>1 DEF FeedChunk, CloseStream, Next
  <1>12. ASSUME NEW v \in Streams, NEW s \in Sessions, OpenStream(v, s)  PROVE Next
    <2>1. runtime["vad"] \in Runtimes
      BY <1>12 DEF OpenStream, FieldsInv, AudioTypeOK, Backends
    <2>2. QED  BY <1>12, <2>1 DEF OpenStream, Next
  <1>13. ASSUME NEW i \in Iterators, Poll(i)  PROVE Next
    <2>1. over[i] \in Streams
      BY <1>13 DEF Poll, FieldsInv, FieldsFit
    <2>2. native[over[i]] \in Sessions
      BY <1>13, <2>1 DEF Poll, FieldsInv, AudioTypeOK
    <2>3. QED  BY <1>13, <2>2 DEF Poll, Next
  <1>14. CASE \E i \in Iterators : End(i) \/ \E v \in Streams : PollTransitions(i, v)
    BY <1>1, <1>14 DEF End, PollTransitions
  <1>15. CASE UNCHANGED audioVars
    BY <1>1, <1>15 DEF audioVars
  <1>16. QED
    BY <1>2, <1>3, <1>4, <1>5, <1>6, <1>7, <1>8, <1>9, <1>10, <1>11, <1>12, <1>13,
       <1>14, <1>15 DEF AudioNext

\* at moves to a step, or back to Idle.
LEMMA Places ==
  ASSUME NEW b \in Backends, NEW x \in Steps
  PROVE  /\ <<b, x>> # Idle
         /\ \A c, y : <<c, y>> = <<b, x>> <=> c = b /\ y = x
  BY DEF Idle, Backends, Steps

LEMMA FieldsStep == FieldsInv /\ [AudioNext]_audioVars => FieldsInv'
  <1> SUFFICES ASSUME FieldsInv, [AudioNext]_audioVars PROVE FieldsInv'
    OBVIOUS
  <1> USE DEF FieldsInv, FieldsFit
  <1>t. AudioTypeOK  OBVIOUS
  <1>1. CASE Callers
    <2>1. callers' \subseteq Handles
      BY <1>1 DEF Callers, AudioTypeOK, Handles
    <2>2. QED
      BY <1>1, <2>1 DEF Callers, AudioTypeOK, backends, streams, iterators
  <1>2. ASSUME NEW r \in Runtimes, Inject(r)  PROVE FieldsInv'
    BY <1>2 DEF Inject, AudioTypeOK, streams, iterators
  <1>3. ASSUME NEW r \in Runtimes, NEW b \in Backends, NEW d \in SUBSET Runtimes,
               NEW n \in Names \cup {"none"}, at = Idle, OpenRuntime(b, r), name' = n,
               displaced' = d
        PROVE  FieldsInv'
    BY <1>3, Places, KindsAreDisjoint
    DEF OpenRuntime, AudioTypeOK, streams, iterators, Steps, Holding, Idle, Backends
  <1>4. CASE \E r \in Runtimes :
               \/ \E b \in Backends : OpenBackend(b, r)
               \/ \E n \in Names : LoadModel(n, r)
    BY <1>3, <1>4 DEF OpenBackend, LoadModel, AudioTypeOK, Backends
  <1>5. ASSUME NEW n \in Names, LoadThrows(n)  PROVE FieldsInv'
    BY <1>5 DEF LoadThrows, AudioTypeOK, streams, iterators
  <1>6. ASSUME NEW b \in Backends, Advertised(b) \/ GiveUp(b) \/ CloseBackend(b)
        PROVE  FieldsInv'
    BY <1>6, Places
    DEF Advertised, GiveUp, CloseBackend, AudioTypeOK, backends, streams, iterators,
        Steps, Holding, Idle, Backends
  <1>7. ASSUME NEW m \in Models, OpenItsModel(m)  PROVE FieldsInv'
    BY <1>7, Places, KindsAreDisjoint
    DEF OpenItsModel, AudioTypeOK, streams, iterators, Steps, Holding, Idle, Backends
  <1>8. CASE WarmItsModel
    BY <1>8, Places
    DEF WarmItsModel, AudioTypeOK, backends, streams, iterators, Steps, Holding, Idle, Backends
  <1>9. CASE CloseItsModel
    BY <1>9, Places
    DEF CloseItsModel, AudioTypeOK, streams, iterators, Steps, Holding, Idle, Backends
  <1>10. ASSUME NEW b \in Backends, CloseItsRuntime(b)  PROVE FieldsInv'
    BY <1>10, Places
    DEF CloseItsRuntime, AudioTypeOK, streams, iterators, Steps, Holding, Idle, Backends
  <1>11. ASSUME NEW b \in Backends, Run(b) \/ Finally(b)  PROVE FieldsInv'
    BY <1>11, Places
    DEF Run, Finally, AudioTypeOK, backends, streams, iterators, Steps, Holding, Idle, Backends
  <1>12. ASSUME NEW b \in Backends, NEW s \in Sessions, Probe(b, s) \/ Start(b, s)
         PROVE  FieldsInv'
    BY <1>12, Places, KindsAreDisjoint
    DEF Probe, Start, AudioTypeOK, backends, streams, iterators, Steps, Holding, Idle, Backends
  <1>13. ASSUME NEW v \in Streams, FeedChunk(v) \/ CloseStream(v)  PROVE FieldsInv'
    BY <1>13 DEF FeedChunk, CloseStream, AudioTypeOK, backends, streams, iterators
  <1>14. ASSUME NEW v \in Streams, NEW s \in Sessions, OpenStream(v, s)  PROVE FieldsInv'
    BY <1>14, KindsAreDisjoint DEF OpenStream, AudioTypeOK, backends, iterators
  <1>15. ASSUME NEW i \in Iterators, NEW v \in Streams, PollTransitions(i, v)
         PROVE  FieldsInv'
    BY <1>15 DEF PollTransitions, AudioTypeOK, backends, streams
  <1>16. ASSUME NEW i \in Iterators, End(i)  PROVE FieldsInv'
    BY <1>16 DEF End, AudioTypeOK, backends, streams
  <1>17. ASSUME NEW i \in Iterators, Poll(i)  PROVE FieldsInv'
    <2>1. over[i] \in Streams  BY <1>17 DEF Poll
    <2>2. iter' \in [Iterators -> {"absent", "fresh", "suspended", "done"}]
          /\ \A j \in Iterators : iter'[j] # "absent" => iter[j] # "absent"
      BY <1>17 DEF Poll, AudioTypeOK
    <2>3. terminal' \in [Streams -> BOOLEAN]
      BY <1>17, <2>1 DEF Poll, AudioTypeOK
    <2>4. late' \subseteq Iterators /\ pastEnd' \subseteq Iterators
      BY <1>17 DEF Poll, AudioTypeOK
    <2>5. UNCHANGED <<callers, backends, at, sess, native, stream, over>>
      BY <1>17 DEF Poll
    <2>6. QED  BY <2>2, <2>3, <2>4, <2>5 DEF AudioTypeOK, backends
  <1>18. CASE UNCHANGED audioVars
    BY <1>18 DEF audioVars, AudioTypeOK, backends, streams, iterators
  <1>19. QED
    BY <1>1, <1>2, <1>4, <1>5, <1>6, <1>7, <1>8, <1>9, <1>10, <1>11, <1>12,
       <1>13, <1>14, <1>15, <1>16, <1>17, <1>18 DEF AudioNext

\* The fields of the backends, the streams and the generators, for any number
\* of objects.
THEOREM BackendsTypeCorrect == AudioSpec => []AudioTypeOK
  BY FieldsInit, FieldsStep, PTL DEF AudioSpec, FieldsInv

\* Whatever the backends and the facades do, the loader sees what it may see
\* from any of its callers: every behaviour of theirs is one of NativeHandles.
THEOREM BackendsUseHandles == AudioSpec => Spec
  <1>1. AudioInit => Init  BY DEF AudioInit
  <1>2. FieldsInv /\ [AudioNext]_audioVars => [Next]_vars  BY BackendsStepHandles
  <1>3. QED  BY <1>1, <1>2, FieldsInit, FieldsStep, PTL DEF AudioSpec, Spec

\* The invariants of NativeHandles under the backends: no call after a free,
\* exact registries, and runtimes that close whole.
THEOREM BackendsKeepHandlesSound ==
  AudioSpec => [](NoStrayCall /\ RegistriesAgree /\ NothingOutlivesItsRuntime)
  BY BackendsUseHandles, Invariant, PTL DEF IInv

-----------------------------------------------------------------------------
(* Who closes what is open *)

\* A step makes no runtime or session usable but x.
OpensOnly(x) == \A h \in Runtimes \cup Sessions : Usable(h)' => Usable(h) \/ h = x

\* A step makes no runtime or session usable.
OpensNone == \A h \in Runtimes \cup Sessions : Usable(h)' => Usable(h)

LEMMA OpenOpens ==
  ASSUME TypeOK, NEW r \in Runtimes, Open(r)
  PROVE  OpensOnly(r)
  BY DEF TypeOK, Open, OpensOnly, Usable, Handles

LEMMA OpenSessionOpens ==
  ASSUME TypeOK, NEW r, NEW m, NEW s \in Sessions, OpenSession(r, m, s)
  PROVE  OpensOnly(s)
  BY DEF TypeOK, OpenSession, OpensOnly, Usable, Handles

LEMMA OpenModelOpens ==
  ASSUME TypeOK, NEW r, NEW m \in Models, OpenModel(r, m)
  PROVE  OpensNone
  BY KindsAreDisjoint DEF TypeOK, OpenModel, OpensNone, Usable, Handles

LEMMA ClosingOpensNone ==
  ASSUME TypeOK, NEW h \in Handles,
         UseSession(h) \/ WarmModel(h) \/ CloseModel(h) \/ CloseSession(h) \/ UNCHANGED handles
  PROVE  OpensNone
  BY DEF TypeOK, UseSession, WarmModel, CloseModel, CloseSession, handles, OpensNone,
     Usable, Handles

LEMMA CloseRuntimeCloses ==
  ASSUME TypeOK, NEW r \in Runtimes, CloseRuntime(r)
  PROVE  OpensNone /\ state'[r] # "open"
  <1> DEFINE Free == {m \in Closable(r) : ~ NativeBusy(m, (live \cap Sessions) \ sessions[r])}
  <1>1. \E failing \in SUBSET Free :
          state' = [h \in Handles |->
            IF h \in sessions[r] \cup (Free \ failing) \cup {r} THEN "closed"
            ELSE IF h \in failing THEN "invalid" ELSE state[h]]
    BY DEF CloseRuntime
  <1> HIDE DEF Free
  <1>2. QED  BY <1>1 DEF OpensNone, Usable, Handles

LEMMA CloseSessionCloses ==
  ASSUME TypeOK, NEW s \in Sessions, CloseSession(s)
  PROVE  state'[s] # "open"
  BY DEF TypeOK, CloseSession, Usable, Handles

\* None of the objects that were accounted for gets lost: a step that opens
\* none keeps every holder, but of what it closes.
LEMMA NoneLost ==
  ASSUME NothingIsLost, OpensNone,
         callers \subseteq callers', displaced \subseteq displaced',
         \A b \in Backends : runtime[b] \in Runtimes /\ state'[runtime[b]] = "open"
                            => runtime'[b] = runtime[b],
         sess \in Sessions /\ state'[sess] = "open" => sess' = sess,
         \A v \in Streams : native[v] \in Sessions /\ state'[native[v]] = "open"
                            => native'[v] = native[v]
  PROVE  NothingIsLost'
  <1>1. ASSUME NEW r \in Runtimes, r \notin callers', r \notin displaced', Usable(r)'
        PROVE  \E b \in Backends : runtime'[b] = r
    <2>1. PICK b \in Backends : runtime[b] = r
      BY <1>1 DEF NothingIsLost, OpensNone
    <2>2. QED  BY <1>1, <2>1 DEF Usable
  <1>2. ASSUME NEW s \in Sessions, s \notin callers', Usable(s)'
        PROVE  s = sess' \/ \E v \in Streams : native'[v] = s
    <2>1. s = sess \/ \E v \in Streams : native[v] = s
      BY <1>2 DEF NothingIsLost, OpensNone
    <2>2. QED  BY <1>2, <2>1 DEF Usable
  <1>3. QED  BY <1>1, <1>2 DEF NothingIsLost

\* A step that opens x gives it a holder, and takes every other's from none.
LEMMA OpenedIsHeld ==
  ASSUME NothingIsLost, NEW x, OpensOnly(x),
         callers \subseteq callers', displaced \subseteq displaced',
         \A b \in Backends : runtime[b] \in Runtimes
                            => runtime'[b] = runtime[b] \/ runtime[b] \in displaced',
         sess \in Sessions => sess' = sess,
         \A v \in Streams : native[v] \in Sessions => native'[v] = native[v],
         \/ x \in callers'
         \/ \E b \in Backends : x \notin Sessions /\ runtime'[b] = x
         \/ x \notin Runtimes /\ (x = sess' \/ \E v \in Streams : native'[v] = x)
  PROVE  NothingIsLost'
  <1>1. ASSUME NEW r \in Runtimes, r \notin callers', r \notin displaced', Usable(r)'
        PROVE  \E b \in Backends : runtime'[b] = r
    <2>1. CASE r = x  BY <1>1, <2>1
    <2>2. CASE r # x
      <3>1. PICK b \in Backends : runtime[b] = r
        BY <1>1, <2>2 DEF NothingIsLost, OpensOnly
      <3>2. QED  BY <1>1, <3>1
    <2>3. QED  BY <2>1, <2>2
  <1>2. ASSUME NEW s \in Sessions, s \notin callers', Usable(s)'
        PROVE  s = sess' \/ \E v \in Streams : native'[v] = s
    <2>1. CASE s = x  BY <1>2, <2>1
    <2>2. CASE s # x
      <3>1. s = sess \/ \E v \in Streams : native[v] = s
        BY <1>2, <2>2 DEF NothingIsLost, OpensOnly
      <3>2. QED  BY <1>2, <3>1
    <2>3. QED  BY <2>1, <2>2
  <1>3. QED  BY <1>1, <1>2 DEF NothingIsLost

\* Every open object keeps someone who will close it.
LostInv == FieldsInv /\ IInv /\ NothingIsLost

LEMMA LostInit == AudioInit => LostInv
  <1>1. AudioInit => Init /\ \A h \in Handles : ~ Usable(h)
    BY DEF AudioInit, Init, Usable
  <1>2. QED
    BY <1>1, FieldsInit, InitIInv DEF LostInv, NothingIsLost, Handles

LEMMA LostStep == LostInv /\ [AudioNext]_audioVars => LostInv'
  <1> SUFFICES ASSUME LostInv, [AudioNext]_audioVars PROVE LostInv'
    OBVIOUS
  <1>0. FieldsInv /\ IInv /\ TypeOK /\ AudioTypeOK /\ FieldsFit /\ NothingIsLost
    BY DEF LostInv, IInv, FieldsInv
  <1>i. FieldsInv' /\ IInv'
    BY <1>0, FieldsStep, BackendsStepHandles, StepIInv
  <1> SUFFICES NothingIsLost'  BY <1>i DEF LostInv
  \* The handles are as they were, and so are their holders, or more.
  <1>q. ASSUME UNCHANGED <<state, callers, sess, native>>,
               displaced \subseteq displaced',
               \A b \in Backends : runtime[b] # None => runtime'[b] = runtime[b]
        PROVE  NothingIsLost'
    <2>1. OpensNone  BY <1>q DEF OpensNone, Usable
    <2>2. QED  BY <1>0, <1>q, <2>1, KindsAreDisjoint, NoneLost
  <1>1. CASE Callers
    <2>1. UNCHANGED <<runtime, displaced, sess, native>>
      BY <1>1 DEF Callers, backends, streams
    <2>2. ASSUME NEW r \in Runtimes, Open(r), callers' = callers \cup {r}
          PROVE  NothingIsLost'
      BY <1>0, <2>1, <2>2, OpenOpens, OpenedIsHeld
    <2>3. ASSUME NEW r \in Runtimes, NEW m \in Models, OpenModel(r, m),
                 callers' = callers \cup {m}
          PROVE  NothingIsLost'
      BY <1>0, <2>1, <2>3, OpenModelOpens, NoneLost
    <2>4. ASSUME NEW r \in Runtimes, NEW m \in Models \cup {None}, NEW s \in Sessions,
                 OpenSession(r, m, s), callers' = callers \cup {s}
          PROVE  NothingIsLost'
      BY <1>0, <2>1, <2>4, OpenSessionOpens, OpenedIsHeld
    <2>5. ASSUME NEW h \in Handles, callers' = callers,
                 UseSession(h) \/ WarmModel(h) \/ CloseModel(h) \/ CloseSession(h)
          PROVE  NothingIsLost'
      BY <1>0, <2>1, <2>5, ClosingOpensNone, NoneLost
    <2>6. ASSUME NEW r \in Runtimes, CloseRuntime(r), callers' = callers
          PROVE  NothingIsLost'
      BY <1>0, <2>1, <2>6, CloseRuntimeCloses, NoneLost
    <2>7. QED  BY <1>1, <2>2, <2>3, <2>4, <2>5, <2>6 DEF Callers, Handles
  <1>2. ASSUME NEW r \in Runtimes, Inject(r)  PROVE NothingIsLost'
    BY <1>0, <1>2, <1>q DEF Inject, AudioTypeOK, handles, streams, Backends
  <1>3. ASSUME NEW r \in Runtimes, NEW b \in Backends, OpenRuntime(b, r),
               displaced \subseteq displaced',
               runtime[b] # None => runtime[b] \in displaced'
        PROVE  NothingIsLost'
    <2>1. Open(r) /\ runtime' = [runtime EXCEPT ![b] = r]
          /\ UNCHANGED <<callers, sess, native>>
      BY <1>3 DEF OpenRuntime, streams
    <2>2. OpensOnly(r)  BY <1>0, <2>1, OpenOpens
    <2>3. r \notin Sessions /\ runtime'[b] = r
      BY <1>0, <2>1, KindsAreDisjoint DEF AudioTypeOK
    <2>4. \A c \in Backends : runtime[c] \in Runtimes
                            => runtime'[c] = runtime[c] \/ runtime[c] \in displaced'
      BY <1>0, <1>3, <2>1, KindsAreDisjoint DEF AudioTypeOK
    <2>5. QED  BY <1>0, <1>3, <2>1, <2>2, <2>3, <2>4, OpenedIsHeld
  <1>4. ASSUME NEW r \in Runtimes, NEW b \in Backends, OpenBackend(b, r)
        PROVE  NothingIsLost'
    BY <1>3, <1>4 DEF OpenBackend
  <1>5. ASSUME NEW r \in Runtimes, NEW n \in Names, LoadModel(n, r)
        PROVE  NothingIsLost'
    BY <1>3, <1>5 DEF LoadModel, Backends
  <1>6. CASE (\E n \in Names : LoadThrows(n))
             \/ \E b \in Backends : Advertised(b) \/ GiveUp(b) \/ CloseBackend(b)
    BY <1>6, <1>q DEF LoadThrows, Advertised, GiveUp, CloseBackend, handles, backends, streams
  <1>7. ASSUME NEW m \in Models, OpenItsModel(m)  PROVE NothingIsLost'
    <2>1. OpensNone  BY <1>0, <1>7, OpenModelOpens DEF OpenItsModel
    <2>2. QED  BY <1>0, <1>7, <2>1, NoneLost DEF OpenItsModel, streams
  <1>8. CASE WarmItsModel
    <2>1. OpensNone /\ UNCHANGED <<callers, runtime, displaced, sess, native>>
      BY <1>8 DEF WarmItsModel, WarmModel, OpensNone, Usable, backends, streams
    <2>2. QED  BY <1>0, <2>1, NoneLost
  <1>9. CASE CloseItsModel
    <2>1. model \in Handles  BY <1>0, <1>9 DEF CloseItsModel, AudioTypeOK, Handles
    <2>2. OpensNone  BY <1>0, <1>9, <2>1, ClosingOpensNone DEF CloseItsModel
    <2>3. QED  BY <1>0, <1>9, <2>2, NoneLost DEF CloseItsModel, streams
  <1>10. ASSUME NEW b \in Backends, CloseItsRuntime(b)  PROVE NothingIsLost'
    <2>1. runtime[b] \in Runtimes
      BY <1>0, <1>10 DEF CloseItsRuntime, AudioTypeOK, FieldsFit, Steps
    <2>2. OpensNone /\ state'[runtime[b]] # "open"
      <3>1. CASE Usable(runtime[b])
        BY <1>0, <1>10, <2>1, <3>1, CloseRuntimeCloses DEF CloseItsRuntime
      <3>2. CASE ~ Usable(runtime[b])
        BY <1>10, <3>2 DEF CloseItsRuntime, handles, OpensNone, Usable
      <3>3. QED  BY <3>1, <3>2
    <2>3. runtime' = [runtime EXCEPT ![b] = None]
          /\ UNCHANGED <<callers, displaced, sess, native>>
      BY <1>10 DEF CloseItsRuntime, streams
    <2>4. \A c \in Backends : runtime[c] \in Runtimes /\ state'[runtime[c]] = "open"
                            => runtime'[c] = runtime[c]
      BY <1>0, <2>2, <2>3 DEF AudioTypeOK
    <2>5. QED  BY <1>0, <2>2, <2>3, <2>4, NoneLost
  <1>11. ASSUME NEW b \in Backends, Run(b)  PROVE NothingIsLost'
    <2>1. OpensNone /\ UNCHANGED <<callers, runtime, displaced, sess, native>>
      BY <1>11 DEF Run, UseSession, OpensNone, Usable, backends, streams
    <2>2. QED  BY <1>0, <2>1, NoneLost
  <1>12. ASSUME NEW b \in Backends, Finally(b)  PROVE NothingIsLost'
    <2>1. sess \in Sessions
      BY <1>0, <1>12 DEF Finally, AudioTypeOK, FieldsFit, Holding
    <2>2. OpensNone /\ state'[sess] # "open"
      BY <1>0, <1>12, <2>1, ClosingOpensNone, CloseSessionCloses DEF Finally, Handles
    <2>3. UNCHANGED <<callers, runtime, displaced, native>>
      BY <1>12 DEF Finally, backends, streams
    <2>4. QED  BY <1>0, <2>2, <2>3, NoneLost
  <1>13. ASSUME NEW b \in Backends, NEW s \in Sessions, Probe(b, s) \/ Start(b, s)
         PROVE  NothingIsLost'
    <2>1. OpensOnly(s)
      BY <1>0, <1>13, OpenSessionOpens DEF Probe, Start
    <2>2. sess = None
      BY <1>0, <1>13, Places DEF Probe, Start, FieldsFit, Steps, Holding
    <2>3. sess' = s /\ UNCHANGED <<callers, runtime, displaced, native>>
      BY <1>13 DEF Probe, Start, backends, streams
    <2>4. s \notin Runtimes /\ sess \notin Sessions  BY <2>2, KindsAreDisjoint
    <2>5. QED  BY <1>0, <2>1, <2>3, <2>4, OpenedIsHeld
  <1>14. ASSUME NEW v \in Streams, FeedChunk(v)  PROVE NothingIsLost'
    <2>1. OpensNone /\ UNCHANGED <<callers, runtime, displaced, sess, native>>
      BY <1>14 DEF FeedChunk, UseSession, OpensNone, Usable, backends, streams
    <2>2. QED  BY <1>0, <2>1, NoneLost
  <1>15. ASSUME NEW v \in Streams, CloseStream(v)  PROVE NothingIsLost'
    <2>1. native[v] \in Sessions
      BY <1>0, <1>15 DEF CloseStream, AudioTypeOK, FieldsFit
    <2>2. OpensNone /\ state'[native[v]] # "open"
      <3>1. CASE Usable(native[v])
        BY <1>0, <1>15, <2>1, <3>1, ClosingOpensNone, CloseSessionCloses
        DEF CloseStream, Handles
      <3>2. CASE ~ Usable(native[v])
        BY <1>15, <3>2 DEF CloseStream, handles, OpensNone, Usable
      <3>3. QED  BY <3>1, <3>2
    <2>3. native' = [native EXCEPT ![v] = None]
          /\ UNCHANGED <<callers, runtime, displaced, sess>>
      BY <1>15 DEF CloseStream, backends
    <2>4. \A w \in Streams : native[w] \in Sessions /\ state'[native[w]] = "open"
                            => native'[w] = native[w]
      BY <1>0, <2>2, <2>3 DEF AudioTypeOK
    <2>5. QED  BY <1>0, <2>2, <2>3, <2>4, NoneLost
  <1>16. ASSUME NEW v \in Streams, NEW s \in Sessions, OpenStream(v, s)
         PROVE  NothingIsLost'
    <2>1. OpensOnly(s)
      BY <1>0, <1>16, OpenSessionOpens DEF OpenStream
    <2>2. native[v] = None  BY <1>0, <1>16 DEF OpenStream, FieldsFit
    <2>3. native' = [native EXCEPT ![v] = s]
          /\ UNCHANGED <<callers, runtime, displaced, sess>>
      BY <1>16 DEF OpenStream, backends
    <2>4. /\ s \notin Runtimes /\ native'[v] = s
          /\ \A w \in Streams : native[w] \in Sessions => native'[w] = native[w]
      BY <1>0, <2>2, <2>3, KindsAreDisjoint DEF AudioTypeOK
    <2>5. QED  BY <1>0, <2>1, <2>3, <2>4, OpenedIsHeld
  <1>17. CASE \E i \in Iterators : End(i) \/ \E v \in Streams : PollTransitions(i, v)
    BY <1>17, <1>q DEF End, PollTransitions, handles, backends, streams
  <1>18. ASSUME NEW i \in Iterators, Poll(i)  PROVE NothingIsLost'
    <2>1. OpensNone /\ UNCHANGED <<callers, runtime, displaced, sess, native>>
      BY <1>18 DEF Poll, UseSession, OpensNone, Usable, backends
    <2>2. QED  BY <1>0, <2>1, NoneLost
  <1>19. CASE UNCHANGED audioVars
    BY <1>19, <1>q DEF audioVars, handles, backends, streams
  <1>20. QED
    BY <1>1, <1>2, <1>4, <1>5, <1>6, <1>7, <1>8, <1>9, <1>10, <1>11, <1>12, <1>13,
       <1>14, <1>15, <1>16, <1>17, <1>18, <1>19 DEF AudioNext

\* Whatever fails on the way, in whatever order callers, facades and backends
\* open and close, every open runtime and session has someone who will close it,
\* but for the runtimes that a reload of the speaker model took the place of.
THEOREM BackendsLoseNothing == AudioSpec => []NothingIsLost
  <1>1. LostInv => NothingIsLost  BY DEF LostInv
  <1>2. QED  BY <1>1, LostInit, LostStep, PTL DEF AudioSpec

-----------------------------------------------------------------------------
(* The last event of a stream *)

\* A generator that is suspended over a stream whose last event was taken was
\* suspended when it came: none reaches a yield afterwards without being late.
SuspendedAreLate ==
  \A i \in Iterators : iter[i] = "suspended" /\ terminal[over[i]] => i \in late

EndInv == FieldsInv /\ SuspendedAreLate /\ NoPollAfterTheEnd

LEMMA EndInit == AudioInit => EndInv
  BY FieldsInit DEF AudioInit, EndInv, SuspendedAreLate, NoPollAfterTheEnd

\* Only a generator's own steps, and the polls of its stream, matter to it.
LEMMA ElsewhereKeepsEnd ==
  ASSUME EndInv, UNCHANGED <<terminal, over, late, pastEnd>>,
         \A i \in Iterators : iter'[i] = "suspended" => iter[i] = "suspended"
  PROVE  SuspendedAreLate' /\ NoPollAfterTheEnd'
  BY DEF EndInv, SuspendedAreLate, NoPollAfterTheEnd

LEMMA PollKeepsEnd ==
  ASSUME EndInv, NEW i \in Iterators, Poll(i)
  PROVE  SuspendedAreLate' /\ NoPollAfterTheEnd'
  <1> DEFINE v == over[i]
  <1>0. AudioTypeOK /\ SuspendedAreLate /\ NoPollAfterTheEnd
    BY DEF EndInv, FieldsInv
  <1>1. v \in Streams /\ over' = over
    BY DEF EndInv, FieldsInv, FieldsFit, Poll
  \* It polls past the end only if it was suspended, and so is late.
  <1>2. terminal[v] => iter[i] = "suspended" /\ i \in late
    BY <1>0 DEF Poll, Refuses, SuspendedAreLate
  <1>3. late \subseteq late' /\ pastEnd' = IF terminal[v] THEN pastEnd \cup {i} ELSE pastEnd
    BY DEF Poll
  <1>4. NoPollAfterTheEnd'
    BY <1>0, <1>2, <1>3 DEF NoPollAfterTheEnd
  <1>5. \A j \in Iterators \ {i} : iter'[j] = iter[j]
    BY <1>0 DEF Poll, AudioTypeOK
  <1>6. CASE UNCHANGED <<terminal, late>>
    <2>1. ASSUME NEW j \in Iterators, iter'[j] = "suspended", terminal[over[j]]
          PROVE  j \in late
      BY <1>0, <1>2, <1>5, <2>1 DEF SuspendedAreLate
    <2>2. QED  BY <1>1, <1>4, <1>6, <2>1 DEF SuspendedAreLate
  <1>7. CASE /\ iter' = [iter EXCEPT ![i] = "done"]
             /\ terminal' = [terminal EXCEPT ![v] = TRUE]
             /\ late' = late \cup {j \in Iterators \ {i} : over[j] = v /\ iter[j] = "suspended"}
    <2>1. ASSUME NEW j \in Iterators, iter'[j] = "suspended", terminal'[over[j]]
          PROVE  j \in late'
      <3>1. j # i /\ iter[j] = "suspended"
        BY <1>0, <1>5, <1>7, <2>1 DEF AudioTypeOK
      <3>2. over[j] \in Streams
        BY <3>1 DEF EndInv, FieldsInv, FieldsFit
      <3>3. CASE over[j] = v  BY <1>7, <3>1, <3>3
      <3>4. CASE over[j] # v
        <4>1. terminal'[over[j]] = terminal[over[j]]
          BY <1>0, <1>7, <3>2, <3>4 DEF AudioTypeOK
        <4>2. terminal[over[j]]  BY <2>1, <4>1, Zenon
        <4>3. QED  BY <1>0, <1>3, <3>1, <4>2 DEF SuspendedAreLate
      <3>5. QED  BY <3>3, <3>4
    <2>2. QED  BY <1>1, <1>4, <2>1 DEF SuspendedAreLate
  <1>8. QED  BY <1>6, <1>7 DEF Poll

LEMMA EndStep == EndInv /\ [AudioNext]_audioVars => EndInv'
  <1> SUFFICES ASSUME EndInv, [AudioNext]_audioVars PROVE EndInv'
    OBVIOUS
  <1>0. FieldsInv /\ FieldsInv' /\ AudioTypeOK
    BY FieldsStep DEF EndInv, FieldsInv
  <1> SUFFICES SuspendedAreLate' /\ NoPollAfterTheEnd'  BY <1>0 DEF EndInv
  <1>1. ASSUME UNCHANGED <<terminal, iterators>>
        PROVE  SuspendedAreLate' /\ NoPollAfterTheEnd'
    BY <1>1, ElsewhereKeepsEnd DEF iterators
  <1>2. CASE Callers
    BY <1>1, <1>2 DEF Callers, streams
  <1>3. CASE \E r \in Runtimes :
               \/ Inject(r) \/ \E b \in Backends : OpenBackend(b, r)
               \/ \E n \in Names : LoadModel(n, r)
    BY <1>1, <1>3 DEF Inject, OpenBackend, LoadModel, OpenRuntime, streams
  <1>4. CASE WarmItsModel \/ CloseItsModel \/ (\E m \in Models : OpenItsModel(m))
             \/ \E n \in Names : LoadThrows(n)
    BY <1>1, <1>4 DEF WarmItsModel, CloseItsModel, OpenItsModel, LoadThrows, streams
  <1>5. CASE \E b \in Backends :
               \/ Advertised(b) \/ GiveUp(b) \/ CloseBackend(b) \/ CloseItsRuntime(b)
               \/ Run(b) \/ Finally(b)
               \/ \E s \in Sessions : Probe(b, s) \/ Start(b, s)
    BY <1>1, <1>5 DEF Advertised, GiveUp, CloseBackend, CloseItsRuntime, Run, Finally, Probe,
       Start, streams
  <1>6. CASE \E w \in Streams :
               FeedChunk(w) \/ CloseStream(w) \/ \E s \in Sessions : OpenStream(w, s)
    BY <1>1, <1>6 DEF FeedChunk, CloseStream, OpenStream, streams
  \* A new generator is not suspended.
  <1>7. ASSUME NEW i \in Iterators, NEW w \in Streams, PollTransitions(i, w)
        PROVE  SuspendedAreLate' /\ NoPollAfterTheEnd'
    <2>1. /\ iter'[i] = "fresh"
          /\ \A j \in Iterators \ {i} : iter'[j] = iter[j] /\ over'[j] = over[j]
          /\ UNCHANGED <<terminal, late, pastEnd>>
      BY <1>0, <1>7 DEF PollTransitions, AudioTypeOK, streams
    <2>2. QED  BY <2>1 DEF EndInv, SuspendedAreLate, NoPollAfterTheEnd
  <1>8. ASSUME NEW i \in Iterators, End(i)
        PROVE  SuspendedAreLate' /\ NoPollAfterTheEnd'
    BY <1>0, <1>8, ElsewhereKeepsEnd DEF End, AudioTypeOK, streams
  <1>9. ASSUME NEW i \in Iterators, Poll(i)
        PROVE  SuspendedAreLate' /\ NoPollAfterTheEnd'
    BY <1>9, PollKeepsEnd
  <1>10. CASE UNCHANGED audioVars
    BY <1>1, <1>10 DEF audioVars, streams
  <1>11. QED
    BY <1>2, <1>3, <1>4, <1>5, <1>6, <1>7, <1>8, <1>9, <1>10 DEF AudioNext

\* However many generators poll one stream, and however callers interleave their
\* next() calls: after its last event only those polled it that were suspended
\* at a transition when it came.
THEOREM EndIsTheEnd == AudioSpec => []NoPollAfterTheEnd
  <1>1. EndInv => NoPollAfterTheEnd  BY DEF EndInv
  <1>2. QED  BY <1>1, EndInit, EndStep, PTL DEF AudioSpec
=============================================================================
