---------------------------- MODULE OctomilClient ----------------------------
(***************************************************************************)
(* OctomilClient's models: pull and getModel of src/client.ts, the file    *)
(* cache and its manifest on disk, the downloader, ModelsClient and the    *)
(* Model objects they hand out.  Calls interleave at every await, users    *)
(* unload, clear and close meanwhile, and the process may die.             *)
(*                                                                         *)
(* A version stands for its bytes and for their checksum.  A call makes at *)
(* most one Model object, which has the call's name.                       *)
(***************************************************************************)
CONSTANTS
  Refs,        \* model references; each has one path in the cache directory
  Versions,    \* what the registry may resolve a reference to
  Calls,       \* calls of pull, of predict (getModel) and of models.load
  Junk,        \* any other bytes: a download under way, broken off, corrupted
  NoChecksum,  \* the registry gave no checksum
  None

ASSUME ContentsAreDistinct ==
  /\ None \notin Calls \cup Versions
  /\ {Junk, NoChecksum, None} \cap Versions = {}
  /\ Junk # None /\ NoChecksum # None

VARIABLES
  file,             \* the bytes at a reference's path, None when there is no file
  writing,          \* the calls that have the file at that path open for writing
  entry,            \* manifest.json: the checksum registered for a reference, or None
  loadedModels,     \* _loadedModels
  activeDownloads,  \* _activeDownloads
  errorModels,      \* _errorModels
  pc,               \* where a call is
  via,              \* pull, get (getModel) or load (models.load)
  ref,              \* the reference a call is about
  claim,            \* pullResult.checksum
  model,            \* the Model a call works on or was given
  session,          \* Model.session is not null
  disposed,         \* Model._disposed
  bytes,            \* what the session was created from
  clean,            \* history: the last write to the path was verified, and is the entry's
  steady,           \* history: the calls on whose path no other call has written
  overlapped,       \* history: the calls of getModel that met another for the same model
  lastLoad          \* history: the latest models.load of a reference

disk == <<file, writing, entry>>
client == <<loadedModels, activeDownloads, errorModels>>
call == <<via, ref, claim>>
objects == <<session, disposed, bytes>>
history == <<clean, steady, overlapped, lastLoad>>
vars == <<disk, client, pc, call, model, objects, history>>

Stages == {"resolving", "fetching", "writing", "hashing", "verified", "creating", "loaded"}
InFlight == {c \in Calls : pc[c] \in Stages}

\* Model.isLoaded
IsLoaded(c) == session[c] /\ ~ disposed[c]

Init ==
  /\ file = [r \in Refs |-> None] /\ entry = [r \in Refs |-> None]
  /\ writing = [r \in Refs |-> {}]
  /\ loadedModels = [r \in Refs |-> None]
  /\ activeDownloads = {} /\ errorModels = {}
  /\ pc = [c \in Calls |-> "idle"] /\ via = [c \in Calls |-> "none"]
  /\ ref = [c \in Calls |-> None] /\ claim = [c \in Calls |-> NoChecksum]
  /\ model = [c \in Calls |-> None]
  /\ session = [c \in Calls |-> FALSE] /\ disposed = [c \in Calls |-> FALSE]
  /\ bytes = [c \in Calls |-> None]
  /\ clean = [r \in Refs |-> FALSE] /\ steady = {} /\ overlapped = {}
  /\ lastLoad = [r \in Refs |-> None]

Become(c, where) == pc' = [pc EXCEPT ![c] = where]
-----------------------------------------------------------------------------
(* getModel and models.load, up to pull *)

\* The calls of getModel that are under way for a reference.
Rivals(r) == {d \in InFlight : ref[d] = r /\ via[d] # "pull"}

\* models.load announces itself to models.status.
Announce(c, how, r) ==
  IF how = "load"
  THEN /\ activeDownloads' = activeDownloads \cup {r}
       /\ errorModels' = errorModels \ {r}
       /\ lastLoad' = [lastLoad EXCEPT ![r] = c]
  ELSE UNCHANGED <<activeDownloads, errorModels, lastLoad>>

\* getModel answers from memory when the model it finds is loaded, whichever
\* version the caller asks for.
InMemory(how, r) ==
  how # "pull" /\ loadedModels[r] # None /\ IsLoaded(loadedModels[r])

Begin(c, how, r) ==
  /\ pc[c] = "idle"
  /\ via' = [via EXCEPT ![c] = how]
  /\ ref' = [ref EXCEPT ![c] = r]
  /\ Announce(c, how, r)
  /\ overlapped' = IF how = "pull" \/ Rivals(r) = {} THEN overlapped
                   ELSE overlapped \cup Rivals(r) \cup {c}
  /\ IF InMemory(how, r)
     THEN /\ model' = [model EXCEPT ![c] = loadedModels[r]]
          /\ Become(c, IF how = "load" THEN "loaded" ELSE "done")
     ELSE Become(c, "resolving") /\ UNCHANGED model
  /\ UNCHANGED <<disk, loadedModels, claim, objects, clean, steady>>

\* Mutant: a failed load stays active.
FailKeepsActive(c) ==
  /\ Become(c, "failed")
  /\ IF via[c] = "load"
     THEN errorModels' = errorModels \cup {ref[c]} /\ UNCHANGED activeDownloads
     ELSE UNCHANGED <<errorModels, activeDownloads>>

\* A call throws; models.load notes it.
Fail(c) ==
  /\ Become(c, "failed")
  /\ IF via[c] = "load"
     THEN /\ errorModels' = errorModels \cup {ref[c]}
          /\ activeDownloads' = activeDownloads \ {ref[c]}
     ELSE UNCHANGED <<errorModels, activeDownloads>>
-----------------------------------------------------------------------------
(* pull *)

\* Mutant: whatever is registered for the reference will do.
HasAny(r, sum) == entry[r] # None /\ file[r] # None

\* FileCache.has
Has(r, sum) ==
  /\ entry[r] # None /\ file[r] # None
  /\ sum # NoChecksum => entry[r] = sum

\* pull returns a Model on the path; getModel goes on to load it.
MakeModel(c) ==
  /\ model' = [model EXCEPT ![c] = c]
  /\ Become(c, IF via[c] = "pull" THEN "done" ELSE "creating")

\* The registry answers; the cache is asked unless the caller forces a download.
Resolve(c, sum, force) ==
  /\ pc[c] = "resolving"
  /\ claim' = [claim EXCEPT ![c] = sum]
  /\ IF ~ force /\ Has(ref[c], sum)
     THEN /\ MakeModel(c)
          /\ steady' = IF clean[ref[c]] THEN steady \cup {c} ELSE steady
     ELSE Become(c, "fetching") /\ UNCHANGED <<model, steady>>
  /\ UNCHANGED <<disk, client, via, ref, objects, clean, overlapped, lastLoad>>

\* The calls on a reference whose session has yet to read the file.
Unread(r) == {d \in Calls : ref[d] = r /\ bytes[d] = None}

\* The body begins to arrive: createWriteStream truncates what is at the path.
Open(c) ==
  LET r == ref[c]
  IN /\ pc[c] = "fetching"
     /\ file' = [file EXCEPT ![r] = Junk]
     /\ writing' = [writing EXCEPT ![r] = @ \cup {c}]
     /\ clean' = [clean EXCEPT ![r] = FALSE]
     /\ steady' = (steady \ Unread(r)) \cup (IF writing[r] = {} THEN {c} ELSE {})
     /\ Become(c, "writing")
     /\ UNCHANGED <<entry, client, call, model, objects, overlapped, lastLoad>>

\* A chunk is written to a file that another call has completed meanwhile.
WriteChunk(c) ==
  /\ pc[c] = "writing" /\ c \in writing[ref[c]]
  /\ file' = [file EXCEPT ![ref[c]] = Junk]
  /\ UNCHANGED <<writing, entry, client, pc, call, model, objects, history>>

\* Mutant: what was downloaded is taken to be what was asked for.
NextToDo(c) == "verified"

\* Without a checksum there is nothing to verify.
AfterDownload(c) == IF claim[c] = NoChecksum THEN "verified" ELSE "hashing"

\* The last chunk is written.  A file that was unlinked meanwhile is no longer
\* the one at the path.
Written(c) ==
  LET r == ref[c]
  IN /\ pc[c] = "writing"
     /\ writing' = [writing EXCEPT ![r] = @ \ {c}]
     /\ IF c \in writing[r]
        THEN \E b \in {Junk} \cup (IF claim[c] = NoChecksum THEN Versions ELSE {claim[c]}) :
               file' = [file EXCEPT ![r] = b]
        ELSE UNCHANGED file
     /\ Become(c, AfterDownload(c))
     /\ UNCHANGED <<entry, client, call, model, objects, history>>

\* computeFileHash reads the path again.
Hash(c) ==
  /\ pc[c] = "hashing"
  /\ IF file[ref[c]] = claim[c]
     THEN Become(c, "verified") /\ UNCHANGED client
     ELSE Fail(c) /\ UNCHANGED loadedModels
  /\ UNCHANGED <<disk, call, model, objects, history>>

\* FileCache.register
Register(c) ==
  LET r == ref[c]
  IN /\ pc[c] = "verified"
     /\ entry' = [entry EXCEPT ![r] = claim[c]]
     /\ clean' = [clean EXCEPT ![r] = c \in steady /\ claim[c] # NoChecksum]
     /\ MakeModel(c)
     /\ UNCHANGED <<file, writing, client, call, objects, steady, overlapped, lastLoad>>

\* Mutant: the file of a call that fails stays open.
ThrowOpen(c) ==
  /\ pc[c] \in {"resolving", "fetching", "writing", "creating"}
  /\ Fail(c)
  /\ UNCHANGED <<disk, loadedModels, call, model, objects, history>>

\* The registry or the download answers with an error, the body breaks off, or
\* the runtime rejects the file.
Throw(c) ==
  /\ pc[c] \in {"resolving", "fetching", "writing", "creating"}
  /\ Fail(c)
  /\ writing' = [r \in Refs |-> writing[r] \ {c}]
  /\ UNCHANGED <<file, entry, loadedModels, call, model, objects, history>>
-----------------------------------------------------------------------------
(* Model.load, and what getModel and models.load do after it *)

\* load looks at _disposed before it waits for the session, not after.
Create(c) ==
  LET r == ref[c]
  IN /\ pc[c] = "creating" /\ file[r] # None
     /\ session' = [session EXCEPT ![c] = TRUE]
     /\ bytes' = [bytes EXCEPT ![c] = file[r]]
     /\ Become(c, IF via[c] = "load" THEN "loaded" ELSE "done")
     /\ loadedModels' = IF via[c] = "pull" THEN loadedModels
                        ELSE [loadedModels EXCEPT ![r] = c]
     /\ UNCHANGED <<disk, activeDownloads, errorModels, call, model, disposed, history>>

\* models.load sets what getModel has set already, and is no longer active.
LoadReturns(c) ==
  /\ pc[c] = "loaded"
  /\ loadedModels' = [loadedModels EXCEPT ![ref[c]] = model[c]]
  /\ activeDownloads' = activeDownloads \ {ref[c]}
  /\ Become(c, "done")
  /\ UNCHANGED <<disk, errorModels, call, model, objects, history>>

\* The caller of pull loads the Model it was given.
LoadPulled(c) ==
  /\ pc[c] = "done" /\ via[c] = "pull" /\ ~ disposed[c] /\ bytes[c] = None
  /\ Become(c, "creating")
  /\ UNCHANGED <<disk, client, call, model, objects, history>>
-----------------------------------------------------------------------------
(* Model.close, unload, clearCache, removeCache, close *)

\* Mutant: a model that is dropped from the map is left open.
DisposeNone(gone) == UNCHANGED <<session, disposed>>

\* Model.close of each of these.
Dispose(gone) ==
  /\ session' = [c \in Calls |-> session[c] /\ c \notin gone]
  /\ disposed' = [c \in Calls |-> disposed[c] \/ c \in gone]

\* A caller closes the Model it was given.
CloseModel(c) ==
  /\ via[c] \in {"pull", "load"} /\ model[c] # None
  /\ pc[c] = "done" \/ (pc[c] = "creating" /\ via[c] = "pull")
  /\ Dispose({model[c]})
  /\ UNCHANGED <<disk, client, pc, call, model, bytes, history>>

\* The models of these references go, disposed.
Release(refs) ==
  /\ Dispose({loadedModels[r] : r \in refs} \ {None})
  /\ loadedModels' = [r \in Refs |-> IF r \in refs THEN None ELSE loadedModels[r]]

Unload(r) ==
  /\ Release({r})
  /\ UNCHANGED <<disk, activeDownloads, errorModels, pc, call, model, bytes, history>>

\* FileCache.remove of each of these.  A file without an entry stays; one that
\* is being written is unlinked all the same.
Remove(refs) ==
  LET unlinked == {r \in refs : entry[r] # None /\ file[r] # None}
  IN /\ file' = [r \in Refs |-> IF r \in unlinked THEN None ELSE file[r]]
     /\ writing' = [r \in Refs |-> IF r \in unlinked THEN {} ELSE writing[r]]
     /\ entry' = [r \in Refs |-> IF r \in refs THEN None ELSE entry[r]]
     /\ clean' = [r \in Refs |-> clean[r] /\ r \notin refs]
     /\ steady' = steady \ UNION {Unread(r) : r \in refs}
     /\ UNCHANGED <<overlapped, lastLoad>>

RemoveCache(r) ==
  /\ Remove({r})
  /\ UNCHANGED <<client, pc, call, model, objects>>

\* FileCache.list knows the entries that have a file.
ClearCache ==
  LET listed == {r \in Refs : entry[r] # None /\ file[r] # None}
  IN /\ Release(listed)
     /\ Remove(listed)
     /\ UNCHANGED <<activeDownloads, errorModels, pc, call, model, bytes>>

\* close() disposes what is loaded; a call under way goes on.
Close ==
  /\ Release(Refs)
  /\ UNCHANGED <<disk, activeDownloads, errorModels, pc, call, model, bytes, history>>

\* The process dies and another starts on the same directory.  manifest.json is
\* written in place: a torn one reads as an empty one.
Crash ==
  /\ entry' \in {entry, [r \in Refs |-> None]}
  /\ writing' = [r \in Refs |-> {}]
  /\ loadedModels' = [r \in Refs |-> None] /\ activeDownloads' = {} /\ errorModels' = {}
  /\ pc' = [c \in Calls |-> IF pc[c] = "idle" THEN "idle" ELSE "dead"]
  /\ via' = [c \in Calls |-> "none"]
  /\ ref' = [c \in Calls |-> None] /\ claim' = [c \in Calls |-> NoChecksum]
  /\ model' = [c \in Calls |-> None] /\ bytes' = [c \in Calls |-> None]
  /\ session' = [c \in Calls |-> FALSE] /\ disposed' = [c \in Calls |-> FALSE]
  /\ steady' = {} /\ overlapped' = {} /\ lastLoad' = [r \in Refs |-> None]
  /\ UNCHANGED <<file, clean>>
-----------------------------------------------------------------------------
Next ==
  \/ \E c \in Calls, r \in Refs, how \in {"pull", "get", "load"} : Begin(c, how, r)
  \/ \E c \in Calls, sum \in Versions \cup {NoChecksum}, force \in BOOLEAN :
       Resolve(c, sum, force)
  \/ \E c \in Calls :
       \/ Open(c) \/ WriteChunk(c) \/ Written(c) \/ Hash(c) \/ Register(c) \/ Throw(c)
       \/ Create(c) \/ LoadReturns(c) \/ LoadPulled(c) \/ CloseModel(c)
  \/ \E r \in Refs : Unload(r) \/ RemoveCache(r)
  \/ ClearCache \/ Close \/ Crash

Spec == Init /\ [][Next]_vars
-----------------------------------------------------------------------------
(* Properties *)

\* The type invariant: a call works on a Model of its own reference, and only
\* those that write have the path open.
TypeOK ==
  /\ file \in [Refs -> Versions \cup {Junk, None}]
  /\ entry \in [Refs -> Versions \cup {NoChecksum, None}]
  /\ writing \in [Refs -> SUBSET Calls]
  /\ \A r \in Refs : \A c \in writing[r] : ref[c] = r /\ pc[c] = "writing"
  /\ loadedModels \in [Refs -> Calls \cup {None}]
  /\ \A r \in Refs : loadedModels[r] # None => ref[loadedModels[r]] = r
  /\ activeDownloads \subseteq Refs /\ errorModels \subseteq Refs
  /\ pc \in [Calls -> Stages \cup {"idle", "done", "failed", "dead"}]
  /\ via \in [Calls -> {"none", "pull", "get", "load"}]
  /\ ref \in [Calls -> Refs \cup {None}]
  /\ \A c \in Calls : pc[c] \notin {"idle", "dead"} => ref[c] \in Refs /\ via[c] # "none"
  /\ claim \in [Calls -> Versions \cup {NoChecksum}]
  /\ model \in [Calls -> Calls \cup {None}]
  /\ \A c \in Calls : model[c] # None => ref[model[c]] = ref[c]
  /\ session \in [Calls -> BOOLEAN] /\ disposed \in [Calls -> BOOLEAN]
  /\ bytes \in [Calls -> Versions \cup {Junk, None}]
  /\ clean \in [Refs -> BOOLEAN] /\ steady \subseteq Calls /\ overlapped \subseteq Calls
  /\ lastLoad \in [Refs -> Calls \cup {None}]

\* A model runs on the bytes the registry resolved for its call, whether they
\* were downloaded or found in the cache by this process or by one that died
\* since, as long as no other download has written to the path in between.  (One
\* that has, and failed its own verification, leaves the older entry in place.)
RunsWhatWasResolved ==
  \A c \in steady :
    bytes[c] # None /\ claim[c] # NoChecksum => bytes[c] = claim[c]

\* A model that predict or models.load brought into memory is one that unload
\* and close still find, unless two of these calls for its reference overlapped:
\* then the one that ends first stays loaded behind the other.
OnlyOverlapsLeak ==
  \A c \in Calls \ overlapped :
    IsLoaded(c) /\ via[c] # "pull" => loadedModels[ref[c]] = c

\* models.status tells of a load that did not overlap another: "downloading"
\* exactly while it is under way, and "error" afterwards exactly if it failed.
StatusTellsOfTheLoad ==
  /\ \A r \in activeDownloads : \E c \in InFlight : ref[c] = r /\ via[c] = "load"
  /\ \A r \in Refs :
       LET c == lastLoad[r]
       IN c \in Calls \ overlapped =>
            /\ r \in activeDownloads <=> c \in InFlight
            /\ r \in errorModels <=> pc[c] = "failed"
=============================================================================
