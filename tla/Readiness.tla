------------------------------ MODULE Readiness ------------------------------
(***************************************************************************)
(* ModelReadinessManager and ModelCatalogService of src/manifest, joined   *)
(* by a listener for each managed model.  An update is handed to the       *)
(* listeners one after the other, and a listener of the app may do as it   *)
(* likes when its turn comes: wait for a model, subscribe, unsubscribe.    *)
(***************************************************************************)
EXTENDS Sequences, Naturals, FiniteSets

CONSTANTS
  Managed,     \* the managed models of the manifest
  Paths,       \* where a download may end up
  Listeners,   \* the listeners that the app subscribes
  Waiters,     \* calls of awaitReady
  Unset

ASSUME ReadinessAssumption ==
  /\ IsFiniteSet(Managed) /\ Managed \cap Listeners = {}
  /\ {"none", "failed", Unset} \cap Paths = {}

VARIABLES
  readyModels,    \* readyModels: the path of a model that is ready
  activeEntries,  \* activeEntries
  waiting,        \* pendingResolvers: the calls that wait for a model
  settled,        \* what a call of awaitReady was answered
  listeners,      \* listeners: the app's, and the catalog's under its model's name
  idRuntimes,     \* idRuntimes: the path of the runtime that serves a model
  bootstrapped,   \* bootstrap has been called
  update,         \* the event that is being emitted, or Quiet
  turn,           \* whose turn it is: an index of listeners
  inside,         \* a listener of the app is running
  removedOne,     \* history: a listener went during this update
  skipped         \* history: the models whose last update one went during

readinessVars ==
  <<readyModels, activeEntries, waiting, settled, listeners, idRuntimes, bootstrapped,
    update, turn, inside, removedOne, skipped>>

Quiet == [of |-> "none", path |-> "none"]

ReadinessInit ==
  /\ readyModels = [m \in Managed |-> Unset] /\ activeEntries = {}
  /\ waiting = [m \in Managed |-> {}] /\ settled = [w \in Waiters |-> Unset]
  /\ listeners = <<>> /\ idRuntimes = [m \in Managed |-> Unset]
  /\ bootstrapped = FALSE
  /\ update = Quiet /\ turn = 0 /\ inside = FALSE
  /\ removedOne = FALSE /\ skipped = {}

Subscribed == {listeners[k] : k \in DOMAIN listeners}
-----------------------------------------------------------------------------
(* What the app does, at any time or as a listener *)

AppsTurn == update = Quiet \/ inside

OnUpdate(l) ==
  /\ AppsTurn /\ l \notin Subscribed
  /\ listeners' = Append(listeners, l)
  /\ UNCHANGED <<readyModels, activeEntries, waiting, settled, idRuntimes, bootstrapped,
                 update, turn, inside, removedOne, skipped>>

\* The array closes the gap, under the loop that is going through it.
Unsubscribe(l) ==
  \E k \in DOMAIN listeners :
    /\ AppsTurn /\ listeners[k] = l
    /\ listeners' = [j \in 1 .. Len(listeners) - 1 |-> listeners[IF j < k THEN j ELSE j + 1]]
    /\ removedOne' = (update # Quiet)
    /\ UNCHANGED <<readyModels, activeEntries, waiting, settled, idRuntimes, bootstrapped,
                   update, turn, inside, skipped>>

AwaitReady(w, m) ==
  /\ AppsTurn /\ settled[w] = Unset /\ \A n \in Managed : w \notin waiting[n]
  /\ IF readyModels[m] # Unset
     THEN settled' = [settled EXCEPT ![w] = readyModels[m]] /\ UNCHANGED waiting
     ELSE waiting' = [waiting EXCEPT ![m] = @ \cup {w}] /\ UNCHANGED settled
  /\ UNCHANGED <<readyModels, activeEntries, listeners, idRuntimes, bootstrapped, update,
                 turn, inside, removedOne, skipped>>

\* Each managed entry is enqueued and listened for, in the manifest's order.
Bootstrap(order) ==
  /\ update = Quiet /\ ~ bootstrapped
  /\ bootstrapped' = TRUE
  /\ activeEntries' = Managed
  /\ listeners' = listeners \o order
  /\ UNCHANGED <<readyModels, waiting, settled, idRuntimes, update, turn, inside,
                 removedOne, skipped>>
-----------------------------------------------------------------------------
(* _markReady and _markFailed *)

Emit(m, path) ==
  /\ update = Quiet /\ bootstrapped
  /\ activeEntries' = activeEntries \ {m}
  /\ update' = [of |-> m, path |-> path]
  /\ turn' = 1 /\ removedOne' = FALSE
  /\ UNCHANGED <<waiting, settled, listeners, idRuntimes, bootstrapped, inside,
                 skipped>>

\* Mutant: the first path of a model is kept.
MarkReadyOnce(m, path) ==
  /\ readyModels' = [readyModels EXCEPT ![m] = IF @ = Unset THEN path ELSE @]
  /\ Emit(m, path)

MarkReady(m, path) ==
  /\ readyModels' = [readyModels EXCEPT ![m] = path]
  /\ Emit(m, path)

MarkFailed(m) == Emit(m, "failed") /\ UNCHANGED readyModels

\* The listener whose turn it is is called: the app's does as it likes; the
\* catalog's registers a runtime on the path when its model is the one that is
\* ready.
Call ==
  /\ update # Quiet /\ ~ inside /\ turn \in DOMAIN listeners
  /\ IF listeners[turn] \in Listeners
     THEN inside' = TRUE /\ UNCHANGED <<turn, idRuntimes>>
     ELSE /\ turn' = turn + 1
          /\ idRuntimes' = IF listeners[turn] = update.of /\ update.path \in Paths
                           THEN [idRuntimes EXCEPT ![update.of] = update.path]
                           ELSE idRuntimes
          /\ UNCHANGED inside
  /\ UNCHANGED <<readyModels, activeEntries, waiting, settled, listeners, bootstrapped,
                 update, removedOne, skipped>>

\* The app's listener returns, or throws, which is swallowed: the next index is
\* next, whatever has become of the array.
Return ==
  /\ inside
  /\ inside' = FALSE /\ turn' = turn + 1
  /\ UNCHANGED <<readyModels, activeEntries, waiting, settled, listeners, idRuntimes,
                 bootstrapped, update, removedOne, skipped>>

\* After the last listener, those who wait are resolved or rejected.
Settle ==
  LET m == update.of
  IN /\ update # Quiet /\ ~ inside /\ turn \notin DOMAIN listeners
     /\ settled' = [w \in Waiters |-> IF w \in waiting[m] THEN update.path ELSE settled[w]]
     /\ waiting' = [waiting EXCEPT ![m] = {}]
     /\ skipped' = IF removedOne THEN skipped \cup {m}
                   ELSE IF update.path \in Paths THEN skipped \ {m} ELSE skipped
     /\ update' = Quiet /\ turn' = 0 /\ removedOne' = FALSE
     /\ UNCHANGED <<readyModels, activeEntries, listeners, idRuntimes, bootstrapped, inside>>
-----------------------------------------------------------------------------
\* The orders in which a manifest may name its models.
Orders ==
  {s \in [1 .. Cardinality(Managed) -> Managed] : {s[k] : k \in DOMAIN s} = Managed}

ReadinessNext ==
  \/ \E l \in Listeners : OnUpdate(l) \/ Unsubscribe(l)
  \/ \E w \in Waiters, m \in Managed : AwaitReady(w, m)
  \/ \E order \in Orders : Bootstrap(order)
  \/ \E m \in Managed : MarkFailed(m) \/ \E path \in Paths : MarkReady(m, path)
  \/ Call \/ Return \/ Settle

ReadinessSpec == ReadinessInit /\ [][ReadinessNext]_readinessVars
-----------------------------------------------------------------------------
(* Properties *)

\* Between updates, nobody waits for a model that is ready, and the catalog
\* serves it from the very path that awaitReady gives, also after a later
\* download of it and a later failure: unless a listener went while the update
\* was handed round, which makes the loop pass over another.
ReadyIsServed ==
  update = Quiet =>
    \A m \in Managed : readyModels[m] # Unset =>
      waiting[m] = {} /\ (m \notin skipped => idRuntimes[m] = readyModels[m])
=============================================================================
