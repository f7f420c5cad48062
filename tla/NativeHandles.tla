---------------------------- MODULE NativeHandles ----------------------------
(***************************************************************************)
(* The objects NativeRuntime, NativeModel and NativeSession of             *)
(* src/runtime/native/loader.ts, each a wrapper of a handle of the C       *)
(* library.  A caller holds them for as long as it likes and calls their   *)
(* methods in any order; every method is synchronous, hence one action.    *)
(*                                                                         *)
(* A method that finds its object closed throws and changes nothing, and   *)
(* so does an open that the library refuses: neither is an action.         *)
(***************************************************************************)
CONSTANTS Runtimes, Models, Sessions, None

ASSUME KindsAreDisjoint ==
  /\ Runtimes \cap Models = {} /\ Runtimes \cap Sessions = {}
  /\ Models \cap Sessions = {} /\ None \notin Runtimes \cup Models \cup Sessions

Handles == Runtimes \cup Models \cup Sessions

VARIABLES
  state,      \* what an object knows of itself: absent, open, closed, invalid
  owner,      \* NativeModel._owner, NativeSession._owner
  borrowed,   \* NativeSession.borrowedModel
  borrowers,  \* NativeModel.borrowers
  sessions,   \* NativeRuntime.sessions
  models,     \* NativeRuntime.models
  live,       \* the handles the library has allocated and not freed
  stray       \* the handles the library was called with after their end

vars == <<state, owner, borrowed, borrowers, sessions, models, live, stray>>

Init ==
  /\ state = [h \in Handles |-> "absent"]
  /\ owner = [h \in Models \cup Sessions |-> None]
  /\ borrowed = [s \in Sessions |-> None]
  /\ borrowers = [m \in Models |-> {}]
  /\ sessions = [r \in Runtimes |-> {}]
  /\ models = [r \in Runtimes |-> {}]
  /\ live = {}
  /\ stray = {}

Usable(h) == state[h] = "open"

\* The library may be called with a handle it has not freed, of a runtime that
\* it has not freed.
Valid(h) == h \in live /\ (h \in Runtimes \/ owner[h] \in live)

\* The library is called with each of these handles.
CallWith(handles) == stray' = stray \cup {h \in handles : ~ Valid(h)}

\* The library refuses to free a model that an open session borrows.
NativeBusy(m, open) == \E s \in open : borrowed[s] = m
-----------------------------------------------------------------------------
Open(r) ==
  /\ state[r] = "absent"
  /\ state' = [state EXCEPT ![r] = "open"]
  /\ live' = live \cup {r}
  /\ UNCHANGED <<owner, borrowed, borrowers, sessions, models, stray>>

OpenModel(r, m) ==
  /\ Usable(r) /\ state[m] = "absent"
  /\ CallWith({r})
  /\ state' = [state EXCEPT ![m] = "open"]
  /\ owner' = [owner EXCEPT ![m] = r]
  /\ models' = [models EXCEPT ![r] = @ \cup {m}]
  /\ live' = live \cup {m}
  /\ UNCHANGED <<borrowed, borrowers, sessions>>

\* Bug: a model of another runtime is accepted.
MayBorrowAny(r, m) == m # None => Usable(m)

\* A session may borrow a usable model of its own runtime.
MayBorrow(r, m) == m # None => owner[m] = r /\ Usable(m)

OpenSession(r, m, s) ==
  /\ Usable(r) /\ MayBorrow(r, m) /\ state[s] = "absent"
  /\ CallWith({r} \cup ({m} \cap Models))
  /\ state' = [state EXCEPT ![s] = "open"]
  /\ owner' = [owner EXCEPT ![s] = r]
  /\ borrowed' = [borrowed EXCEPT ![s] = m]
  /\ borrowers' = [n \in Models |-> IF n = m THEN borrowers[n] \cup {s} ELSE borrowers[n]]
  /\ sessions' = [sessions EXCEPT ![r] = @ \cup {s}]
  /\ live' = live \cup {s}
  /\ UNCHANGED models

\* sendAudio, sendText, sendImage, pollEvent, cancel.
UseSession(s) ==
  /\ Usable(s)
  /\ CallWith({s})
  /\ UNCHANGED <<state, owner, borrowed, borrowers, sessions, models, live>>

WarmModel(m) ==
  /\ Usable(m)
  /\ CallWith({m})
  /\ UNCHANGED <<state, owner, borrowed, borrowers, sessions, models, live>>
-----------------------------------------------------------------------------
\* Bug: close() forgets to release the model.
ReleasedNever(closing) == borrowers

\* The borrowers that are left when these sessions have closed.
Released(closing) == [m \in Models |-> borrowers[m] \ closing]

CloseSession(s) ==
  /\ Usable(s)
  /\ CallWith({s})
  /\ live' = live \ {s}
  /\ state' = [state EXCEPT ![s] = "closed"]
  /\ borrowers' = Released({s})
  /\ sessions' = [sessions EXCEPT ![owner[s]] = @ \ {s}]
  /\ UNCHANGED <<owner, borrowed, models>>

\* A model that is borrowed is busy and stays as it is, and so does one that
\* the library calls busy or fails to close.
CloseModel(m) ==
  /\ Usable(m)
  /\ borrowers[m] = {}
  /\ CallWith({m})
  /\ \/ /\ ~ NativeBusy(m, live \cap Sessions)
        /\ live' = live \ {m}
        /\ state' = [state EXCEPT ![m] = "closed"]
        /\ models' = [models EXCEPT ![owner[m]] = @ \ {m}]
     \/ UNCHANGED <<live, state, models>>
  /\ UNCHANGED <<owner, borrowed, borrowers, sessions>>

\* Bug: the models are closed before the sessions that borrow them.
ClosableFirst(r) == {m \in models[r] : borrowers[m] = {}}

\* The models that close() finds free, once its sessions are closed.
Closable(r) == {m \in models[r] : Released(sessions[r])[m] = {}}

\* close() closes its sessions, then its models, then frees the runtime.  A
\* model that the library fails to close is invalidated, one that is busy is
\* left as it is.
CloseRuntime(r) ==
  LET left == (live \cap Sessions) \ sessions[r]
      free == {m \in Closable(r) : ~ NativeBusy(m, left)}
  IN /\ Usable(r)
     /\ CallWith(sessions[r] \cup Closable(r) \cup {r})
     /\ \E failing \in SUBSET free :
          /\ live' = live \ (sessions[r] \cup (free \ failing) \cup {r})
          /\ state' = [h \in Handles |->
               IF h \in sessions[r] \cup (free \ failing) \cup {r} THEN "closed"
               ELSE IF h \in failing THEN "invalid" ELSE state[h]]
          /\ borrowers' = [m \in Models |->
               IF m \in failing THEN {} ELSE Released(sessions[r])[m]]
     /\ sessions' = [sessions EXCEPT ![r] = {}]
     /\ models' = [models EXCEPT ![r] = {}]
     /\ UNCHANGED <<owner, borrowed>>
-----------------------------------------------------------------------------
Next ==
  \/ \E r \in Runtimes : Open(r) \/ CloseRuntime(r)
  \/ \E r \in Runtimes, m \in Models : OpenModel(r, m)
  \/ \E r \in Runtimes, m \in Models \cup {None}, s \in Sessions : OpenSession(r, m, s)
  \/ \E s \in Sessions : UseSession(s) \/ CloseSession(s)
  \/ \E m \in Models : WarmModel(m) \/ CloseModel(m)

Spec == Init /\ [][Next]_vars
-----------------------------------------------------------------------------
(* Properties *)

\* The type invariant: an object has an owner from its opening on, and what a
\* session borrows is a model of its own runtime.
TypeOK ==
  /\ state \in [Handles -> {"absent", "open", "closed", "invalid"}]
  /\ owner \in [Models \cup Sessions -> Runtimes \cup {None}]
  /\ \A h \in Models \cup Sessions : owner[h] = None <=> state[h] = "absent"
  /\ borrowed \in [Sessions -> Models \cup {None}]
  /\ \A s \in Sessions : borrowed[s] # None => owner[borrowed[s]] = owner[s]
  /\ borrowers \in [Models -> SUBSET Sessions]
  /\ sessions \in [Runtimes -> SUBSET Sessions]
  /\ models \in [Runtimes -> SUBSET Models]
  /\ live \subseteq Handles
  /\ stray \subseteq Handles

\* In whatever order a caller uses and closes the objects it holds, the library
\* is never called with a handle it has freed, or whose runtime it has freed:
\* the checks of openSession, assertOpen and the closes keep every object from
\* outliving its runtime.
NoStrayCall == stray = {}

\* The borrowers that a model counts are the sessions the library counts, and a
\* runtime's registries hold exactly the objects that are open on it: a close
\* is neither refused without a reason nor forgotten by NativeRuntime.close.
RegistriesAgree ==
  /\ \A m \in Models : borrowers[m] = {s \in live \cap Sessions : borrowed[s] = m}
  /\ \A r \in Runtimes :
       /\ sessions[r] = {s \in live \cap Sessions : owner[s] = r}
       /\ models[r] = {m \in Models : owner[m] = r /\ Usable(m)}

\* Closing a runtime frees whatever was opened on it, in an order that lets it:
\* only a model that the library itself failed to close is left, and nobody can
\* use that one.
NothingOutlivesItsRuntime ==
  \A h \in Models \cup Sessions : h \in live =>
    owner[h] \in live \/ state[h] = "invalid"
=============================================================================
