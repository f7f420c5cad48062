------------------------- MODULE NativeHandlesProofs -------------------------
(***************************************************************************)
(* NativeHandles keeps its invariants for any number of objects.           *)
(***************************************************************************)
EXTENDS NativeHandles, TLAPS

\* What an object believes of itself agrees with the library: a runtime or a
\* session is usable exactly while its handle is allocated, a model while it is
\* and the library has not failed to close it; a usable object's runtime is
\* allocated, and a session's model is usable as long as the session is open.
BeliefsHold ==
  /\ \A h \in Runtimes \cup Sessions : Usable(h) <=> h \in live
  /\ \A m \in Models : m \in live <=> state[m] \in {"open", "invalid"}
  /\ \A h \in Models \cup Sessions : Usable(h) => owner[h] \in live
  /\ \A s \in Sessions : Usable(s) /\ borrowed[s] # None => Usable(borrowed[s])
  /\ \A s \in Sessions : state[s] = "absent" => borrowed[s] = None

IInv ==
  /\ TypeOK
  /\ BeliefsHold
  /\ NoStrayCall
  /\ RegistriesAgree
  /\ NothingOutlivesItsRuntime

\* A usable object may be handed to the library.
LEMMA UsableIsValid ==
  ASSUME IInv, NEW h \in Handles, Usable(h)
  PROVE  Valid(h)
  BY DEF IInv, BeliefsHold, Valid, Usable, Handles, TypeOK

\* When a runtime closes, its sessions account for every borrower of its
\* models: none of them is busy, neither for the wrapper nor for the library.
LEMMA EveryModelCloses ==
  ASSUME IInv, NEW r \in Runtimes, Usable(r)
  PROVE  /\ Closable(r) = models[r]
         /\ \A m \in models[r] :
              ~ NativeBusy(m, (live \cap Sessions) \ sessions[r])
<1>1. ASSUME NEW m \in models[r], NEW s \in live \cap Sessions, borrowed[s] = m
      PROVE  s \in sessions[r]
  <2>1. m \in Models /\ owner[m] = r
    BY <1>1 DEF IInv, TypeOK, RegistriesAgree
  <2>2. owner[s] = r
    BY <1>1, <2>1, KindsAreDisjoint DEF IInv, TypeOK
  <2> QED BY <2>2 DEF IInv, RegistriesAgree
<1>2. \A m \in models[r] : Released(sessions[r])[m] = {}
  <2> SUFFICES ASSUME NEW m \in models[r] PROVE Released(sessions[r])[m] = {}
    OBVIOUS
  <2>1. m \in Models /\ Usable(m)
    BY DEF IInv, TypeOK, RegistriesAgree
  <2>2. borrowers[m] = {s \in live \cap Sessions : borrowed[s] = m}
    BY <2>1 DEF IInv, RegistriesAgree
  <2> QED BY <1>1, <2>1, <2>2 DEF Released
<1> QED BY <1>1, <1>2 DEF Closable, NativeBusy

LEMMA InitIInv == Init => IInv
  BY KindsAreDisjoint DEF Init, IInv, TypeOK, BeliefsHold, NoStrayCall, RegistriesAgree,
     NothingOutlivesItsRuntime, Usable, Handles
\* Opening a runtime disturbs what is known of that runtime only.
LEMMA OpenKeepsIInv ==
  ASSUME IInv, NEW r \in Runtimes, Open(r)
  PROVE  IInv'
<1>1. TypeOK'
  BY KindsAreDisjoint DEF IInv, TypeOK, Open, Handles
<1>2. \A s \in Sessions : s \in live' <=> s \in live
  BY KindsAreDisjoint DEF Open
<1>3. \A h \in Models \cup Sessions : state'[h] = state[h]
  BY KindsAreDisjoint DEF IInv, TypeOK, Open, Handles
<1>4. BeliefsHold'
  BY <1>3, KindsAreDisjoint DEF IInv, TypeOK, BeliefsHold, Open, Usable, Handles
<1>5. RegistriesAgree'
  BY <1>2, <1>3, KindsAreDisjoint DEF IInv, TypeOK, RegistriesAgree, Open, Usable
<1>6. NothingOutlivesItsRuntime'
  BY <1>3, KindsAreDisjoint DEF IInv, TypeOK, NothingOutlivesItsRuntime, Open
<1>7. NoStrayCall'
  BY DEF IInv, NoStrayCall, Open
<1> QED BY <1>1, <1>4, <1>5, <1>6, <1>7 DEF IInv

\* Nothing borrows a model before it is opened.
LEMMA OpenModelKeepsIInv ==
  ASSUME IInv, NEW r \in Runtimes, NEW m \in Models, OpenModel(r, m)
  PROVE  IInv'
<1>1. Valid(r) /\ r \in live
  BY UsableIsValid DEF OpenModel, Handles, Valid
<1>2. owner[m] = None /\ m \notin live
  BY DEF IInv, TypeOK, BeliefsHold, OpenModel
<1>3. \A s \in Sessions : borrowed[s] # m
  BY <1>2, KindsAreDisjoint DEF IInv, TypeOK, BeliefsHold
<1>4. /\ state' = [state EXCEPT ![m] = "open"] /\ owner' = [owner EXCEPT ![m] = r]
      /\ live' = live \cup {m} /\ UNCHANGED <<borrowed, borrowers, sessions>>
      /\ models' = [models EXCEPT ![r] = @ \cup {m}]
  BY DEF OpenModel
<1>5. NoStrayCall'
  BY <1>1 DEF IInv, NoStrayCall, OpenModel, CallWith
<1>6. TypeOK'
  BY <1>3, <1>4, <1>5, KindsAreDisjoint DEF IInv, TypeOK, Handles, NoStrayCall
<1>7. BeliefsHold'
  BY <1>1, <1>3, <1>4, KindsAreDisjoint DEF IInv, TypeOK, BeliefsHold, Usable, Handles
<1>8. RegistriesAgree'
  <2>1. \A s \in Sessions : (s \in live' <=> s \in live) /\ owner'[s] = owner[s]
    BY <1>4, KindsAreDisjoint DEF IInv, TypeOK
  <2>2. \A n \in Models : borrowers'[n] = {s \in live' \cap Sessions : borrowed'[s] = n}
    BY <1>4, <2>1 DEF IInv, RegistriesAgree
  <2>3. \A q \in Runtimes : sessions'[q] = {s \in live' \cap Sessions : owner'[s] = q}
    BY <1>4, <2>1 DEF IInv, RegistriesAgree
  <2>4. \A q \in Runtimes : models'[q] = {n \in Models : owner'[n] = q /\ Usable(n)'}
    BY <1>2, <1>4, KindsAreDisjoint DEF IInv, TypeOK, RegistriesAgree, Usable, Handles
  <2> QED BY <2>2, <2>3, <2>4 DEF RegistriesAgree
<1>9. NothingOutlivesItsRuntime'
  BY <1>1, <1>4, KindsAreDisjoint DEF IInv, TypeOK, NothingOutlivesItsRuntime, Handles
<1> QED BY <1>5, <1>6, <1>7, <1>8, <1>9 DEF IInv
\* A session is counted where its close will look for it: in its runtime, and in
\* the model it borrows.
LEMMA OpenSessionKeepsIInv ==
  ASSUME IInv, NEW r \in Runtimes, NEW m \in Models \cup {None}, NEW s \in Sessions,
         OpenSession(r, m, s)
  PROVE  IInv'
<1>1. Valid(r) /\ r \in live
  BY UsableIsValid DEF OpenSession, Handles, Valid
<1>2. m \in Models => Valid(m) /\ Usable(m) /\ owner[m] = r
  BY UsableIsValid, KindsAreDisjoint DEF OpenSession, MayBorrow, Handles
<1>3. owner[s] = None /\ s \notin live /\ borrowed[s] = None
  BY DEF IInv, TypeOK, BeliefsHold, OpenSession, Usable
<1>4. /\ state' = [state EXCEPT ![s] = "open"] /\ owner' = [owner EXCEPT ![s] = r]
      /\ borrowed' = [borrowed EXCEPT ![s] = m]
      /\ borrowers' = [n \in Models |-> IF n = m THEN borrowers[n] \cup {s} ELSE borrowers[n]]
      /\ sessions' = [sessions EXCEPT ![r] = @ \cup {s}]
      /\ live' = live \cup {s} /\ models' = models
  BY DEF OpenSession
<1>5. NoStrayCall'
  BY <1>1, <1>2 DEF IInv, NoStrayCall, OpenSession, CallWith
<1>6. TypeOK'
  BY <1>2, <1>4, <1>5, KindsAreDisjoint DEF IInv, TypeOK, Handles, NoStrayCall
<1>7. BeliefsHold'
  BY <1>1, <1>2, <1>4, KindsAreDisjoint DEF IInv, TypeOK, BeliefsHold, Usable, Handles
<1>8. RegistriesAgree'
  <2>1. \A n \in Models : borrowers'[n] = {t \in live' \cap Sessions : borrowed'[t] = n}
    BY <1>3, <1>4, KindsAreDisjoint DEF IInv, TypeOK, RegistriesAgree
  <2>2. \A q \in Runtimes : sessions'[q] = {t \in live' \cap Sessions : owner'[t] = q}
    BY <1>3, <1>4 DEF IInv, TypeOK, RegistriesAgree
  <2>3. \A q \in Runtimes : models'[q] = {n \in Models : owner'[n] = q /\ Usable(n)'}
    BY <1>4, KindsAreDisjoint DEF IInv, TypeOK, RegistriesAgree, Usable, Handles
  <2> QED BY <2>1, <2>2, <2>3 DEF RegistriesAgree
<1>9. NothingOutlivesItsRuntime'
  BY <1>1, <1>4, KindsAreDisjoint DEF IInv, TypeOK, NothingOutlivesItsRuntime, Handles
<1> QED BY <1>5, <1>6, <1>7, <1>8, <1>9 DEF IInv

\* Calls on a usable object change nothing, and are never stray.
LEMMA UseKeepsIInv ==
  ASSUME IInv, NEW h \in Sessions \cup Models, UseSession(h) \/ WarmModel(h)
  PROVE  IInv'
<1>1. Valid(h)
  BY UsableIsValid DEF UseSession, WarmModel, Handles
<1>2. stray' = stray
  BY <1>1 DEF UseSession, WarmModel, CallWith
<1> QED
  BY <1>2 DEF UseSession, WarmModel, IInv, TypeOK, BeliefsHold, NoStrayCall, RegistriesAgree,
     NothingOutlivesItsRuntime, Usable

\* The model a closed session borrowed counts it no more.
LEMMA CloseSessionKeepsIInv ==
  ASSUME IInv, NEW s \in Sessions, CloseSession(s)
  PROVE  IInv'
<1>1. Valid(s) /\ s \in live /\ owner[s] \in Runtimes
  BY UsableIsValid, KindsAreDisjoint DEF CloseSession, Handles, Valid, IInv, TypeOK, Usable
<1>2. /\ state' = [state EXCEPT ![s] = "closed"] /\ UNCHANGED <<owner, borrowed, models>>
      /\ borrowers' = [m \in Models |-> borrowers[m] \ {s}]
      /\ sessions' = [sessions EXCEPT ![owner[s]] = @ \ {s}]
      /\ live' = live \ {s}
  BY DEF CloseSession, Released
<1>3. NoStrayCall'
  BY <1>1 DEF IInv, NoStrayCall, CloseSession, CallWith
<1>4. state[s] = "open"
  BY DEF CloseSession, Usable
<1>5. TypeOK'
  BY <1>2, <1>3, <1>4, KindsAreDisjoint DEF IInv, TypeOK, Handles, NoStrayCall
<1>6. BeliefsHold'
  BY <1>1, <1>2, KindsAreDisjoint DEF IInv, TypeOK, BeliefsHold, Usable, Handles
<1>7. RegistriesAgree'
  <2>1. \A n \in Models : borrowers'[n] = {t \in live' \cap Sessions : borrowed'[t] = n}
    BY <1>2 DEF IInv, TypeOK, RegistriesAgree
  <2>2. \A q \in Runtimes : sessions'[q] = {t \in live' \cap Sessions : owner'[t] = q}
    BY <1>1, <1>2 DEF IInv, TypeOK, RegistriesAgree
  <2>3. \A q \in Runtimes : models'[q] = {n \in Models : owner'[n] = q /\ Usable(n)'}
    BY <1>2, KindsAreDisjoint DEF IInv, TypeOK, RegistriesAgree, Usable, Handles
  <2> QED BY <2>1, <2>2, <2>3 DEF RegistriesAgree
<1>8. NothingOutlivesItsRuntime'
  BY <1>1, <1>2, KindsAreDisjoint DEF IInv, TypeOK, NothingOutlivesItsRuntime, Handles
<1> QED BY <1>3, <1>5, <1>6, <1>7, <1>8 DEF IInv

\* A model that may close has no open session.
LEMMA CloseModelKeepsIInv ==
  ASSUME IInv, NEW m \in Models, CloseModel(m)
  PROVE  IInv'
<1>1. Valid(m) /\ Usable(m) /\ owner[m] \in Runtimes
  BY UsableIsValid, KindsAreDisjoint DEF CloseModel, Handles, IInv, TypeOK, Usable
<1>2. stray' = stray
  BY <1>1 DEF CloseModel, CallWith
<1>3. UNCHANGED <<owner, borrowed, borrowers, sessions>>
  BY DEF CloseModel
<1>4. CASE UNCHANGED <<live, state, models>>
  BY <1>2, <1>3, <1>4 DEF IInv, TypeOK, BeliefsHold, NoStrayCall, RegistriesAgree,
     NothingOutlivesItsRuntime, Usable
<1>5. CASE /\ live' = live \ {m}
           /\ state' = [state EXCEPT ![m] = "closed"]
           /\ models' = [models EXCEPT ![owner[m]] = @ \ {m}]
  <2>1. \A s \in Sessions : Usable(s) => borrowed[s] # m
    BY KindsAreDisjoint DEF CloseModel, IInv, RegistriesAgree, BeliefsHold
  <2>2. TypeOK'
    BY <1>1, <1>2, <1>3, <1>5, KindsAreDisjoint DEF IInv, TypeOK, Handles, Usable
  <2>3. BeliefsHold'
    BY <2>1, <1>1, <1>3, <1>5, KindsAreDisjoint DEF IInv, TypeOK, BeliefsHold, Usable, Handles
  <2>4. RegistriesAgree'
    <3>1. \A s \in Sessions : s \in live' <=> s \in live
      BY <1>5, KindsAreDisjoint
    <3>2. \A q \in Runtimes : models'[q] = {n \in Models : owner'[n] = q /\ Usable(n)'}
      BY <1>1, <1>3, <1>5, KindsAreDisjoint DEF IInv, TypeOK, RegistriesAgree, Usable, Handles
    <3> QED BY <1>3, <3>1, <3>2 DEF IInv, RegistriesAgree
  <2>5. NothingOutlivesItsRuntime'
    BY <1>3, <1>5, KindsAreDisjoint DEF IInv, TypeOK, NothingOutlivesItsRuntime, Handles
  <2> QED BY <1>2, <2>2, <2>3, <2>4, <2>5 DEF IInv, NoStrayCall
<1> QED BY <1>4, <1>5 DEF CloseModel
\* close() leaves nothing of its runtime that anyone could use: its sessions
\* close first, so that each of its models is free to close or is invalidated.
LEMMA CloseRuntimeKeepsIInv ==
  ASSUME IInv, NEW r \in Runtimes, CloseRuntime(r)
  PROVE  IInv'
<1> DEFINE ss == sessions[r]
           ms == models[r]
<1>1. /\ ss = {s \in live \cap Sessions : owner[s] = r}
      /\ ms = {m \in Models : owner[m] = r /\ Usable(m)}
  BY DEF IInv, RegistriesAgree
<1>2. Closable(r) = ms /\ \A m \in ms : ~ NativeBusy(m, (live \cap Sessions) \ ss)
  BY EveryModelCloses DEF CloseRuntime
<1>3. PICK failing \in SUBSET ms :
        /\ live' = live \ (ss \cup (ms \ failing) \cup {r})
        /\ state' = [h \in Handles |->
             IF h \in ss \cup (ms \ failing) \cup {r} THEN "closed"
             ELSE IF h \in failing THEN "invalid" ELSE state[h]]
        /\ borrowers' = [m \in Models |->
             IF m \in failing THEN {} ELSE borrowers[m] \ ss]
  <2>1. {m \in Closable(r) : ~ NativeBusy(m, (live \cap Sessions) \ ss)} = ms
    BY <1>2
  <2> DEFINE Closing(failing) ==
        /\ live' = live \ (ss \cup (ms \ failing) \cup {r})
        /\ state' = [h \in Handles |->
             IF h \in ss \cup (ms \ failing) \cup {r} THEN "closed"
             ELSE IF h \in failing THEN "invalid" ELSE state[h]]
        /\ borrowers' = [m \in Models |->
             IF m \in failing THEN {} ELSE Released(ss)[m]]
  <2>2. \E failing \in SUBSET ms : Closing(failing)
    BY <2>1 DEF CloseRuntime
  <2> QED BY <2>2 DEF Released
<1>4. /\ sessions' = [sessions EXCEPT ![r] = {}] /\ models' = [models EXCEPT ![r] = {}]
      /\ UNCHANGED <<owner, borrowed>>
  BY DEF CloseRuntime
<1>5. /\ r \in live /\ Usable(r) /\ Valid(r)
      /\ \A h \in ss \cup ms : Valid(h)
  <2>1. r \in live /\ Usable(r) /\ Valid(r)
    BY UsableIsValid DEF CloseRuntime, Handles, Valid
  <2>2. \A h \in ss \cup ms : Usable(h) /\ h \in Handles
    BY <1>1 DEF IInv, BeliefsHold, Handles
  <2> QED BY <2>1, <2>2, UsableIsValid
<1>6. stray' = stray
  BY <1>2, <1>5 DEF CloseRuntime, CallWith
<1>7. \A s \in Sessions :
        /\ s \in live' <=> (s \in live /\ owner[s] # r)
        /\ state'[s] = IF s \in live /\ owner[s] = r THEN "closed" ELSE state[s]
  BY <1>1, <1>3, KindsAreDisjoint DEF Handles
<1>8. \A m \in Models : state'[m] = IF m \in failing THEN "invalid"
                                    ELSE IF m \in ms THEN "closed" ELSE state[m]
  BY <1>1, <1>3, KindsAreDisjoint DEF Handles
<1>9. \A m \in Models : m \in live' <=> m \in live /\ (m \in ms => m \in failing)
  BY <1>1, <1>3, KindsAreDisjoint
<1>10. \A q \in Runtimes :
        /\ q \in live' <=> (q \in live /\ q # r)
        /\ state'[q] = IF q = r THEN "closed" ELSE state[q]
  BY <1>1, <1>3, KindsAreDisjoint DEF Handles
<1>11. TypeOK'
  <2>1. state' \in [Handles -> {"absent", "open", "closed", "invalid"}]
    BY <1>3 DEF IInv, TypeOK
  <2>2. \A h \in Models \cup Sessions : owner'[h] = None <=> state'[h] = "absent"
    BY <1>1, <1>4, <1>7, <1>8, KindsAreDisjoint DEF IInv, TypeOK, BeliefsHold, Usable
  <2>3. borrowers' \in [Models -> SUBSET Sessions]
    BY <1>3 DEF IInv, TypeOK
  <2> QED BY <1>3, <1>4, <1>6, <2>1, <2>2, <2>3 DEF IInv, TypeOK
<1>12. BeliefsHold'
  <2>1. \A h \in Runtimes \cup Sessions : Usable(h)' <=> h \in live'
    BY <1>7, <1>10 DEF IInv, BeliefsHold, Usable
  <2>2. \A m \in Models : m \in live' <=> state'[m] \in {"open", "invalid"}
    BY <1>1, <1>3, <1>8, <1>9 DEF IInv, BeliefsHold, Usable
  <2>3. \A h \in Models \cup Sessions : Usable(h)' => owner'[h] \in live'
    <3>1. \A h \in Models \cup Sessions : Usable(h)' => Usable(h) /\ owner[h] # r
      BY <1>1, <1>7, <1>8 DEF IInv, BeliefsHold, Usable
    <3>2. \A h \in Models \cup Sessions : Usable(h) => owner[h] \in Runtimes
      BY KindsAreDisjoint DEF IInv, TypeOK, Usable
    <3> SUFFICES ASSUME NEW h \in Models \cup Sessions, Usable(h)' PROVE owner[h] \in live'
      BY <1>4
    <3>3. Usable(h) /\ owner[h] # r /\ owner[h] \in Runtimes
      BY <3>1, <3>2
    <3>4. owner[h] \in live
      BY <3>3 DEF IInv, BeliefsHold
    <3> QED BY <1>10, <3>3, <3>4
  <2>4. \A s \in Sessions : Usable(s)' /\ borrowed'[s] # None => Usable(borrowed[s])'
    <3> SUFFICES ASSUME NEW s \in Sessions, Usable(s)', borrowed[s] # None
                 PROVE  Usable(borrowed[s])'
      BY <1>4
    <3>1. Usable(s) /\ owner[s] # r
      BY <1>7 DEF IInv, BeliefsHold, Usable
    <3>2. borrowed[s] \in Models /\ owner[borrowed[s]] # r /\ Usable(borrowed[s])
      BY <3>1 DEF IInv, TypeOK, BeliefsHold
    <3>3. state'[borrowed[s]] = "open"
      BY <1>1, <1>8, <3>2 DEF Usable
    <3> QED BY <1>4, <3>3 DEF Usable
  <2>5. \A s \in Sessions : state'[s] = "absent" => borrowed'[s] = None
    BY <1>4, <1>7 DEF IInv, BeliefsHold
  <2> QED BY <2>1, <2>2, <2>3, <2>4, <2>5 DEF BeliefsHold
<1>13. RegistriesAgree'
  <2>1. \A m \in Models : borrowers'[m] = {s \in live' \cap Sessions : borrowed'[s] = m}
    <3> SUFFICES ASSUME NEW m \in Models
                 PROVE  borrowers'[m] = {s \in live' \cap Sessions : borrowed[s] = m}
      BY <1>4
    <3>1. borrowers[m] \ ss = {s \in live' \cap Sessions : borrowed[s] = m}
      BY <1>1, <1>7 DEF IInv, RegistriesAgree
    <3>2. m \in failing => borrowers[m] \ ss = {}
      BY <1>2, <1>3 DEF Closable, Released
    <3> QED BY <1>3, <3>1, <3>2
  <2>2. \A q \in Runtimes : sessions'[q] = {s \in live' \cap Sessions : owner'[s] = q}
    BY <1>4, <1>7 DEF IInv, TypeOK, RegistriesAgree
  <2>3. \A q \in Runtimes : models'[q] = {m \in Models : owner'[m] = q /\ Usable(m)'}
    <3> SUFFICES ASSUME NEW q \in Runtimes
                 PROVE  models'[q] = {m \in Models : owner[m] = q /\ state'[m] = "open"}
      BY <1>4 DEF Usable
    <3>1. CASE q = r
      <4>1. models'[q] = {}
        BY <1>4, <3>1 DEF IInv, TypeOK
      <4>2. \A m \in Models : owner[m] = r => state'[m] # "open"
        BY <1>1, <1>8 DEF Usable
      <4> QED BY <3>1, <4>1, <4>2
    <3>2. CASE q # r
      <4>1. models'[q] = {m \in Models : owner[m] = q /\ state[m] = "open"}
        BY <1>4, <3>2 DEF IInv, TypeOK, RegistriesAgree, Usable
      <4>2. \A m \in Models : owner[m] = q => state'[m] = state[m]
        BY <1>1, <1>3, <1>8, <3>2
      <4> QED BY <4>1, <4>2
    <3> QED BY <3>1, <3>2
  <2> QED BY <2>1, <2>2, <2>3 DEF RegistriesAgree
<1>14. NothingOutlivesItsRuntime'
  <2>1. ASSUME NEW s \in Sessions, s \in live'
        PROVE  owner'[s] \in live' \/ state'[s] = "invalid"
    BY <1>4, <1>12, <2>1 DEF BeliefsHold
  <2>2. ASSUME NEW m \in Models, m \in live'
        PROVE  owner'[m] \in live' \/ state'[m] = "invalid"
    BY <1>12, <2>2 DEF BeliefsHold, Usable
  <2> QED BY <2>1, <2>2 DEF NothingOutlivesItsRuntime
<1> QED BY <1>6, <1>11, <1>12, <1>13, <1>14 DEF IInv, NoStrayCall

LEMMA StepIInv == IInv /\ [Next]_vars => IInv'
<1> SUFFICES ASSUME IInv, [Next]_vars PROVE IInv'
  OBVIOUS
<1>1. CASE UNCHANGED vars
  BY <1>1 DEF vars, IInv, TypeOK, BeliefsHold, NoStrayCall, RegistriesAgree,
     NothingOutlivesItsRuntime, Usable
<1>2. ASSUME NEW r \in Runtimes, Open(r) \/ CloseRuntime(r) PROVE IInv'
  BY <1>2, OpenKeepsIInv, CloseRuntimeKeepsIInv
<1>3. ASSUME NEW r \in Runtimes, NEW m \in Models, OpenModel(r, m) PROVE IInv'
  BY <1>3, OpenModelKeepsIInv
<1>4. ASSUME NEW r \in Runtimes, NEW m \in Models \cup {None}, NEW s \in Sessions,
             OpenSession(r, m, s)
      PROVE  IInv'
  BY <1>4, OpenSessionKeepsIInv
<1>5. ASSUME NEW s \in Sessions, UseSession(s) \/ CloseSession(s) PROVE IInv'
  BY <1>5, UseKeepsIInv, CloseSessionKeepsIInv
<1>6. ASSUME NEW m \in Models, WarmModel(m) \/ CloseModel(m) PROVE IInv'
  BY <1>6, UseKeepsIInv, CloseModelKeepsIInv
<1> QED BY <1>1, <1>2, <1>3, <1>4, <1>5, <1>6 DEF Next

THEOREM Invariant == Spec => []IInv
  BY InitIInv, StepIInv, PTL DEF Spec

\* The types, for any number of objects.
THEOREM HandlesTypeCorrect == Spec => []TypeOK
  BY Invariant, PTL DEF IInv

\* The library is never called with a freed handle: whatever runtimes, models
\* and sessions callers open, and in whatever order they use and close them.
THEOREM NoCallAfterFree == Spec => []NoStrayCall
  BY Invariant, PTL DEF IInv

\* The wrappers and the library count the same borrowers, and the registries
\* hold what is open.
THEOREM RegistriesExact == Spec => []RegistriesAgree
  BY Invariant, PTL DEF IInv

\* A closed runtime leaves nothing allocated that the library did not itself
\* fail to close.
THEOREM RuntimesCloseWhole == Spec => []NothingOutlivesItsRuntime
  BY Invariant, PTL DEF IInv
=============================================================================
