------------------------- MODULE OctomilClientProofs -------------------------
(***************************************************************************)
(* Proofs about OctomilClient's models: what a session was created from,   *)
(* which models unload and close find, and what models.status tells.       *)
(***************************************************************************)
EXTENDS OctomilClient, TLAPS

Begun(c) == pc[c] \notin {"idle", "dead"}

\* The Model objects.  Until its load ends a call's Model has read nothing.
Objects ==
  /\ \A c \in Calls : pc[c] \in {"idle", "dead"} \cup (Stages \ {"loaded"}) => bytes[c] = None
  /\ \A c \in Calls : bytes[c] = None => session[c] = FALSE
  /\ \A c \in Calls : model[c] # None => Begun(model[c])
  /\ \A c \in Calls : pc[c] = "idle" => model[c] = None
  /\ \A r \in Refs : loadedModels[r] # None => Begun(loadedModels[r])
  /\ \A c \in Calls : pc[c] = "creating" => model[c] = c
  /\ \A c \in Calls : pc[c] = "done" /\ via[c] = "pull" => model[c] = c
  /\ \A c \in Calls : pc[c] = "loaded" => via[c] = "load"

\* A path whose last write was verified holds the bytes of its entry.
CleanPaths ==
  \A r \in Refs : clean[r] =>
    /\ writing[r] = {}
    /\ entry[r] # None => file[r] = entry[r] /\ entry[r] # NoChecksum

\* A steady call is alone with its path until its session has read it, and from
\* the verification on the path holds what the registry resolved.
SteadyCalls ==
  \A c \in steady :
    /\ pc[c] \notin {"idle", "resolving", "fetching"}
    /\ pc[c] = "loaded" => bytes[c] # None
    /\ bytes[c] = None /\ pc[c] \in {"writing", "hashing", "verified", "creating", "done"} =>
         writing[ref[c]] \subseteq {c}
    /\ bytes[c] = None /\ claim[c] # NoChecksum /\ pc[c] \in {"verified", "creating", "done"} =>
         file[ref[c]] = claim[c]
    /\ bytes[c] # None /\ claim[c] # NoChecksum => bytes[c] = claim[c]

\* Two calls that load the same model at the same time are known to overlap.
RivalsOverlap ==
  \A c, d \in Calls :
    /\ c # d /\ pc[c] \in Stages /\ pc[d] \in Stages
    /\ ref[c] = ref[d] /\ via[c] # "pull" /\ via[d] # "pull"
    => c \in overlapped

\* A model in memory that met no rival is the one that is found, and the calls
\* under way for it have found it.
FoundAgain ==
  \A c \in Calls \ overlapped :
    session[c] = TRUE /\ disposed[c] = FALSE /\ via[c] # "pull" =>
      /\ loadedModels[ref[c]] = c
      /\ \A d \in Calls :
           pc[d] \in Stages /\ ref[d] = ref[c] /\ via[d] # "pull" =>
             pc[d] = "loaded" /\ model[d] = c

\* The latest load of a model, if it met no rival, is the only one that can still
\* change what is told of it.
Status ==
  /\ \A r \in activeDownloads :
       \E c \in Calls : pc[c] \in Stages /\ ref[c] = r /\ via[c] = "load"
  /\ \A r \in Refs : \A c \in Calls : lastLoad[r] = c =>
       /\ Begun(c) /\ ref[c] = r /\ via[c] = "load"
       /\ c \notin overlapped =>
            /\ r \in activeDownloads <=> pc[c] \in Stages
            /\ r \in errorModels <=> pc[c] = "failed"
            /\ \A d \in Calls : pc[d] \in Stages /\ ref[d] = r /\ via[d] = "load" => d = c

ClientInv ==
  /\ TypeOK /\ Objects /\ CleanPaths /\ SteadyCalls
  /\ RivalsOverlap /\ FoundAgain /\ Status

LEMMA ClientInitially == Init => ClientInv
  <1> SUFFICES ASSUME Init PROVE ClientInv  OBVIOUS
  <1> USE ContentsAreDistinct
  <1>1. TypeOK  BY DEF Init, TypeOK, Stages
  <1>2. Objects  BY DEF Init, Objects, Stages
  <1>3. CleanPaths /\ SteadyCalls  BY DEF Init, CleanPaths, SteadyCalls
  <1>4. RivalsOverlap /\ FoundAgain  BY DEF Init, RivalsOverlap, FoundAgain, Stages
  <1>5. Status  BY DEF Init, Status
  <1>6. QED  BY <1>1, <1>2, <1>3, <1>4, <1>5 DEF ClientInv

\* What is still loaded when these Models have been closed was not one of them.
LEMMA Disposed ==
  ASSUME TypeOK, NEW gone, Dispose(gone)
  PROVE  /\ session' \in [Calls -> BOOLEAN] /\ disposed' \in [Calls -> BOOLEAN]
         /\ \A c \in Calls : session'[c] = TRUE /\ disposed'[c] = FALSE =>
              session[c] = TRUE /\ disposed[c] = FALSE /\ c \notin gone
         /\ \A c \in Calls : session[c] = FALSE => session'[c] = FALSE
  <1>1. \A c \in Calls : /\ session[c] \in BOOLEAN /\ disposed[c] \in BOOLEAN
                         /\ session'[c] = (session[c] /\ c \notin gone)
                         /\ disposed'[c] = (disposed[c] \/ c \in gone)
    BY DEF TypeOK, Dispose
  <1>2. session' \in [Calls -> BOOLEAN] /\ disposed' \in [Calls -> BOOLEAN]
    BY DEF Dispose
  <1>3. ASSUME NEW c \in Calls, session'[c] = TRUE, disposed'[c] = FALSE
        PROVE  session[c] = TRUE /\ disposed[c] = FALSE /\ c \notin gone
    BY <1>1, <1>3
  <1>4. ASSUME NEW c \in Calls, session[c] = FALSE PROVE session'[c] = FALSE
    BY <1>1, <1>4
  <1>5. QED  BY <1>2, <1>3, <1>4
-----------------------------------------------------------------------------
(* Each step *)

LEMMA OpenStep ==
  ASSUME ClientInv, NEW c \in Calls, Open(c)
  PROVE  ClientInv'
  <1> USE ContentsAreDistinct DEF ClientInv
  <1>1. TypeOK'
    BY DEF Open, Become, Unread, disk, client, call, objects, history, Stages, TypeOK,
           Objects, Begun
  <1>2. Objects'
    BY DEF Open, Become, Unread, disk, client, call, objects, history, Stages, TypeOK,
           Objects, Begun
  <1>3. CleanPaths'
    BY DEF Open, Become, Unread, disk, client, call, objects, history, Stages, TypeOK,
           Objects, CleanPaths, SteadyCalls
  <1>4. SteadyCalls'
    BY DEF Open, Become, Unread, disk, client, call, objects, history, Stages, TypeOK,
           Objects, CleanPaths, SteadyCalls
  <1>5. RivalsOverlap'
    BY DEF Open, Become, Unread, disk, client, call, objects, history, Stages, TypeOK,
           RivalsOverlap
  <1>6. FoundAgain'
    BY DEF Open, Become, Unread, disk, client, call, objects, history, Stages, TypeOK,
           Objects, RivalsOverlap, FoundAgain
  <1>7. Status'
    BY DEF Open, Become, Unread, disk, client, call, objects, history, Stages, TypeOK,
           Objects, RivalsOverlap, Status, Begun
  <1>8. QED  BY <1>1, <1>2, <1>3, <1>4, <1>5, <1>6, <1>7

LEMMA WriteChunkStep ==
  ASSUME ClientInv, NEW c \in Calls, WriteChunk(c)
  PROVE  ClientInv'
  <1> USE ContentsAreDistinct DEF ClientInv
  <1>1. TypeOK'
    BY DEF WriteChunk, disk, client, call, objects, history, Stages, TypeOK, Objects, Begun
  <1>2. Objects'
    BY DEF WriteChunk, disk, client, call, objects, history, Stages, TypeOK, Objects, Begun
  <1>3. CleanPaths'
    BY DEF WriteChunk, disk, client, call, objects, history, Stages, TypeOK, Objects,
           CleanPaths, SteadyCalls
  <1>4. SteadyCalls'
    BY DEF WriteChunk, disk, client, call, objects, history, Stages, TypeOK, Objects,
           CleanPaths, SteadyCalls
  <1>5. RivalsOverlap'
    BY DEF WriteChunk, disk, client, call, objects, history, Stages, TypeOK, RivalsOverlap
  <1>6. FoundAgain'
    BY DEF WriteChunk, disk, client, call, objects, history, Stages, TypeOK, Objects,
           RivalsOverlap, FoundAgain
  <1>7. Status'
    BY DEF WriteChunk, disk, client, call, objects, history, Stages, TypeOK, Objects,
           RivalsOverlap, Status, Begun
  <1>8. QED  BY <1>1, <1>2, <1>3, <1>4, <1>5, <1>6, <1>7

LEMMA WrittenStep ==
  ASSUME ClientInv, NEW c \in Calls, Written(c)
  PROVE  ClientInv'
  <1> USE ContentsAreDistinct DEF ClientInv
  <1>1. TypeOK'
    BY DEF Written, Become, AfterDownload, disk, client, call, objects, history, Stages,
           TypeOK, Objects, Begun
  <1>2. Objects'
    BY DEF Written, Become, AfterDownload, disk, client, call, objects, history, Stages,
           TypeOK, Objects, Begun
  <1>3. CleanPaths'
    BY DEF Written, Become, AfterDownload, disk, client, call, objects, history, Stages,
           TypeOK, Objects, CleanPaths, SteadyCalls
  <1>4. SteadyCalls'
    BY DEF Written, Become, AfterDownload, disk, client, call, objects, history, Stages,
           TypeOK, Objects, CleanPaths, SteadyCalls
  <1>5. RivalsOverlap'
    BY DEF Written, Become, AfterDownload, disk, client, call, objects, history, Stages,
           TypeOK, RivalsOverlap
  <1>6. FoundAgain'
    BY DEF Written, Become, AfterDownload, disk, client, call, objects, history, Stages,
           TypeOK, Objects, RivalsOverlap, FoundAgain
  <1>7. Status'
    BY DEF Written, Become, AfterDownload, disk, client, call, objects, history, Stages,
           TypeOK, Objects, RivalsOverlap, Status, Begun
  <1>8. QED  BY <1>1, <1>2, <1>3, <1>4, <1>5, <1>6, <1>7

LEMMA HashStep ==
  ASSUME ClientInv, NEW c \in Calls, Hash(c)
  PROVE  ClientInv'
  <1> USE ContentsAreDistinct DEF ClientInv
  <1>1. TypeOK'
    BY DEF Hash, Become, Fail, disk, client, call, objects, history, Stages, TypeOK, Objects,
           Begun
  <1>2. Objects'
    BY DEF Hash, Become, Fail, disk, client, call, objects, history, Stages, TypeOK, Objects,
           Begun
  <1>3. CleanPaths'
    BY DEF Hash, Become, Fail, disk, client, call, objects, history, Stages, TypeOK, Objects,
           CleanPaths, SteadyCalls
  <1>4. SteadyCalls'
    BY DEF Hash, Become, Fail, disk, client, call, objects, history, Stages, TypeOK, Objects,
           CleanPaths, SteadyCalls
  <1>5. RivalsOverlap'
    BY DEF Hash, Become, Fail, disk, client, call, objects, history, Stages, TypeOK,
           RivalsOverlap
  <1>6. FoundAgain'
    BY DEF Hash, Become, Fail, disk, client, call, objects, history, Stages, TypeOK, Objects,
           RivalsOverlap, FoundAgain
  <1>7. Status'
    BY DEF Hash, Become, Fail, disk, client, call, objects, history, Stages, TypeOK, Objects,
           RivalsOverlap, Status, Begun
  <1>8. QED  BY <1>1, <1>2, <1>3, <1>4, <1>5, <1>6, <1>7

LEMMA RegisterStep ==
  ASSUME ClientInv, NEW c \in Calls, Register(c)
  PROVE  ClientInv'
  <1> USE ContentsAreDistinct DEF ClientInv
  <1>1. TypeOK'
    BY DEF Register, MakeModel, Become, disk, client, call, objects, history, Stages, TypeOK,
           Objects, Begun
  <1>2. Objects'
    BY DEF Register, MakeModel, Become, disk, client, call, objects, history, Stages, TypeOK,
           Objects, Begun
  <1>3. CleanPaths'
    BY DEF Register, MakeModel, Become, disk, client, call, objects, history, Stages, TypeOK,
           Objects, CleanPaths, SteadyCalls
  <1>4. SteadyCalls'
    BY DEF Register, MakeModel, Become, disk, client, call, objects, history, Stages, TypeOK,
           Objects, CleanPaths, SteadyCalls
  <1>5. RivalsOverlap'
    BY DEF Register, MakeModel, Become, disk, client, call, objects, history, Stages, TypeOK,
           RivalsOverlap
  <1>6. FoundAgain'
    BY DEF Register, MakeModel, Become, disk, client, call, objects, history, Stages, TypeOK,
           Objects, RivalsOverlap, FoundAgain
  <1>7. Status'
    BY DEF Register, MakeModel, Become, disk, client, call, objects, history, Stages, TypeOK,
           Objects, RivalsOverlap, Status, Begun
  <1>8. QED  BY <1>1, <1>2, <1>3, <1>4, <1>5, <1>6, <1>7

LEMMA ThrowStep ==
  ASSUME ClientInv, NEW c \in Calls, Throw(c)
  PROVE  ClientInv'
  <1> USE ContentsAreDistinct DEF ClientInv
  <1>1. TypeOK'
    BY DEF Throw, Fail, Become, disk, client, call, objects, history, Stages, TypeOK, Objects,
           Begun
  <1>2. Objects'
    BY DEF Throw, Fail, Become, disk, client, call, objects, history, Stages, TypeOK, Objects,
           Begun
  <1>3. CleanPaths'
    BY DEF Throw, Fail, Become, disk, client, call, objects, history, Stages, TypeOK, Objects,
           CleanPaths, SteadyCalls
  <1>4. SteadyCalls'
    BY DEF Throw, Fail, Become, disk, client, call, objects, history, Stages, TypeOK, Objects,
           CleanPaths, SteadyCalls
  <1>5. RivalsOverlap'
    BY DEF Throw, Fail, Become, disk, client, call, objects, history, Stages, TypeOK,
           RivalsOverlap
  <1>6. FoundAgain'
    BY DEF Throw, Fail, Become, disk, client, call, objects, history, Stages, TypeOK, Objects,
           RivalsOverlap, FoundAgain
  <1>7. Status'
    BY DEF Throw, Fail, Become, disk, client, call, objects, history, Stages, TypeOK, Objects,
           RivalsOverlap, Status, Begun
  <1>8. QED  BY <1>1, <1>2, <1>3, <1>4, <1>5, <1>6, <1>7

LEMMA CreateStep ==
  ASSUME ClientInv, NEW c \in Calls, Create(c)
  PROVE  ClientInv'
  <1> USE ContentsAreDistinct DEF ClientInv
  <1>1. TypeOK'
    BY DEF Create, Become, disk, client, call, objects, history, Stages, TypeOK, Objects,
           Begun
  <1>2. Objects'
    BY DEF Create, Become, disk, client, call, objects, history, Stages, TypeOK, Objects,
           Begun
  <1>3. CleanPaths'
    BY DEF Create, Become, disk, client, call, objects, history, Stages, TypeOK, Objects,
           CleanPaths, SteadyCalls
  <1>4. SteadyCalls'
    BY DEF Create, Become, disk, client, call, objects, history, Stages, TypeOK, Objects,
           CleanPaths, SteadyCalls
  <1>5. RivalsOverlap'
    BY DEF Create, Become, disk, client, call, objects, history, Stages, TypeOK, RivalsOverlap
  <1>6. FoundAgain'
    BY DEF Create, Become, disk, client, call, objects, history, Stages, TypeOK, Objects,
           RivalsOverlap, FoundAgain
  <1>7. Status'
    BY DEF Create, Become, disk, client, call, objects, history, Stages, TypeOK, Objects,
           RivalsOverlap, Status, Begun
  <1>8. QED  BY <1>1, <1>2, <1>3, <1>4, <1>5, <1>6, <1>7

LEMMA LoadReturnsStep ==
  ASSUME ClientInv, NEW c \in Calls, LoadReturns(c)
  PROVE  ClientInv'
  <1> USE ContentsAreDistinct DEF ClientInv
  <1>1. TypeOK'
    BY DEF LoadReturns, Become, disk, client, call, objects, history, Stages, TypeOK, Objects,
           Begun
  <1>2. Objects'
    BY DEF LoadReturns, Become, disk, client, call, objects, history, Stages, TypeOK, Objects,
           Begun
  <1>3. CleanPaths'
    BY DEF LoadReturns, Become, disk, client, call, objects, history, Stages, TypeOK, Objects,
           CleanPaths, SteadyCalls
  <1>4. SteadyCalls'
    BY DEF LoadReturns, Become, disk, client, call, objects, history, Stages, TypeOK, Objects,
           CleanPaths, SteadyCalls
  <1>5. RivalsOverlap'
    BY DEF LoadReturns, Become, disk, client, call, objects, history, Stages, TypeOK,
           RivalsOverlap
  <1>6. FoundAgain'
    BY DEF LoadReturns, Become, disk, client, call, objects, history, Stages, TypeOK, Objects,
           RivalsOverlap, FoundAgain
  <1>7. Status'
    BY DEF LoadReturns, Become, disk, client, call, objects, history, Stages, TypeOK, Objects,
           RivalsOverlap, Status, Begun
  <1>8. QED  BY <1>1, <1>2, <1>3, <1>4, <1>5, <1>6, <1>7

LEMMA LoadPulledStep ==
  ASSUME ClientInv, NEW c \in Calls, LoadPulled(c)
  PROVE  ClientInv'
  <1> USE ContentsAreDistinct DEF ClientInv
  <1>1. TypeOK'
    BY DEF LoadPulled, Become, disk, client, call, objects, history, Stages, TypeOK, Objects,
           Begun
  <1>2. Objects'
    BY DEF LoadPulled, Become, disk, client, call, objects, history, Stages, TypeOK, Objects,
           Begun
  <1>3. CleanPaths'
    BY DEF LoadPulled, Become, disk, client, call, objects, history, Stages, TypeOK, Objects,
           CleanPaths, SteadyCalls
  <1>4. SteadyCalls'
    BY DEF LoadPulled, Become, disk, client, call, objects, history, Stages, TypeOK, Objects,
           CleanPaths, SteadyCalls
  <1>5. RivalsOverlap'
    BY DEF LoadPulled, Become, disk, client, call, objects, history, Stages, TypeOK,
           RivalsOverlap
  <1>6. FoundAgain'
    BY DEF LoadPulled, Become, disk, client, call, objects, history, Stages, TypeOK, Objects,
           RivalsOverlap, FoundAgain
  <1>7. Status'
    BY DEF LoadPulled, Become, disk, client, call, objects, history, Stages, TypeOK, Objects,
           RivalsOverlap, Status, Begun
  <1>8. QED  BY <1>1, <1>2, <1>3, <1>4, <1>5, <1>6, <1>7

LEMMA CloseModelStep ==
  ASSUME ClientInv, NEW c \in Calls, CloseModel(c)
  PROVE  ClientInv'
  <1> USE ContentsAreDistinct DEF ClientInv
  <1> DEFINE gone == {model[c]}
  <1>a. Dispose(gone)  BY DEF CloseModel
  <1>0. /\ session' \in [Calls -> BOOLEAN] /\ disposed' \in [Calls -> BOOLEAN]
        /\ \A d \in Calls : session'[d] = TRUE /\ disposed'[d] = FALSE =>
             session[d] = TRUE /\ disposed[d] = FALSE /\ d \notin gone
        /\ \A d \in Calls : session[d] = FALSE => session'[d] = FALSE
    BY <1>a, Disposed
  <1>1. TypeOK'
    BY <1>0 DEF CloseModel, disk, client, call, objects, history, Stages, TypeOK, Objects,
                Begun
  <1>2. Objects'
    BY <1>0 DEF CloseModel, disk, client, call, objects, history, Stages, TypeOK, Objects,
                Begun
  <1>3. CleanPaths'
    BY DEF CloseModel, disk, client, call, objects, history, Stages, TypeOK, Objects,
           CleanPaths, SteadyCalls
  <1>4. SteadyCalls'
    BY DEF CloseModel, disk, client, call, objects, history, Stages, TypeOK, Objects,
           CleanPaths, SteadyCalls
  <1>5. RivalsOverlap'
    BY DEF CloseModel, disk, client, call, objects, history, Stages, TypeOK, RivalsOverlap
  <1>6. FoundAgain'
    BY <1>0 DEF CloseModel, disk, client, call, objects, history, Stages, TypeOK, Objects,
                RivalsOverlap, FoundAgain
  <1>7. Status'
    BY DEF CloseModel, disk, client, call, objects, history, Stages, TypeOK, Objects,
           RivalsOverlap, Status, Begun
  <1>8. QED  BY <1>1, <1>2, <1>3, <1>4, <1>5, <1>6, <1>7

LEMMA ResolveStep ==
  ASSUME ClientInv, NEW c \in Calls, NEW sum \in Versions \cup {NoChecksum},
         NEW force \in BOOLEAN, Resolve(c, sum, force)
  PROVE  ClientInv'
  <1> USE ContentsAreDistinct DEF ClientInv
  <1>d. \A d \in Calls : d # c => pc'[d] = pc[d] /\ model'[d] = model[d]
    BY DEF Resolve, MakeModel, Become, TypeOK
  <1>e. /\ bytes[c] = None /\ pc'[c] \notin {"idle", "dead", "loaded"}
        /\ model'[c] \in {model[c], c}
        /\ pc'[c] \in {"creating", "done"} => model'[c] = c
    BY DEF Resolve, MakeModel, Become, TypeOK, Objects, Stages
  <1>f. UNCHANGED <<bytes, session, loadedModels, via>>
    BY DEF Resolve, objects, client
  <1>g. /\ pc[c] = "resolving"
        /\ UNCHANGED <<disk, client, via, ref, objects, clean, overlapped, lastLoad>>
        /\ pc' \in [Calls -> Stages \cup {"idle", "done", "failed", "dead"}]
        /\ model' \in [Calls -> Calls \cup {None}]
        /\ claim' \in [Calls -> Versions \cup {NoChecksum}]
        /\ steady' \subseteq Calls
        /\ pc'[c] = "done" => via[c] = "pull"
        /\ pc'[c] \in Stages \cup {"done"}
    BY DEF Resolve, MakeModel, Become, TypeOK, Stages
  <1>1. TypeOK'
    BY <1>d, <1>e, <1>f, <1>g DEF TypeOK, disk, client, objects
  <1>2. Objects'
    BY <1>d, <1>e, <1>f DEF TypeOK, Objects, Begun
  <1>3. CleanPaths'
    BY DEF Resolve, MakeModel, Become, Has, disk, client, call, objects, history, Stages,
           TypeOK, Objects, CleanPaths, SteadyCalls
  <1>4. SteadyCalls'
    BY DEF Resolve, MakeModel, Become, Has, disk, client, call, objects, history, Stages,
           TypeOK, Objects, CleanPaths, SteadyCalls
  <1>5. RivalsOverlap'
    BY DEF Resolve, MakeModel, Become, Has, disk, client, call, objects, history, Stages,
           TypeOK, RivalsOverlap
  <1>6. FoundAgain'
    BY DEF Resolve, MakeModel, Become, Has, disk, client, call, objects, history, Stages,
           TypeOK, Objects, RivalsOverlap, FoundAgain
  <1>7. Status'
    <2>1. \A d \in Calls : pc'[d] \in Stages /\ via'[d] = "load" <=>
                         pc[d] \in Stages /\ via[d] = "load"
      BY <1>d, <1>g DEF Stages
    <2>2. \A d \in Calls : via[d] = "load" =>
            /\ Begun(d)' <=> Begun(d)
            /\ pc'[d] \in Stages <=> pc[d] \in Stages
            /\ pc'[d] = "failed" <=> pc[d] = "failed"
      BY <1>d, <1>g DEF Begun, Stages
    <2>3. UNCHANGED <<activeDownloads, errorModels, ref, via, overlapped, lastLoad>>
      BY <1>g DEF client
    <2>4. QED  BY <2>1, <2>2, <2>3 DEF Status
  <1>8. QED  BY <1>1, <1>2, <1>3, <1>4, <1>5, <1>6, <1>7

LEMMA BeginStep ==
  ASSUME ClientInv, NEW c \in Calls, NEW r \in Refs,
         NEW how \in {"pull", "get", "load"}, Begin(c, how, r)
  PROVE  ClientInv'
  <1> USE ContentsAreDistinct DEF ClientInv
  <1>a. /\ pc[c] = "idle" /\ model[c] = None /\ bytes[c] = None
        /\ via' = [via EXCEPT ![c] = how] /\ ref' = [ref EXCEPT ![c] = r]
        /\ UNCHANGED <<disk, loadedModels, claim, objects, clean, steady>>
    BY DEF Begin, Objects
  <1>b. /\ via'[c] = how /\ ref'[c] = r /\ via' \in [Calls -> {"none", "pull", "get", "load"}]
        /\ ref' \in [Calls -> Refs \cup {None}]
        /\ \A d \in Calls : d # c => via'[d] = via[d] /\ ref'[d] = ref[d]
    BY <1>a DEF TypeOK
  <1>c. /\ pc' \in [Calls -> Stages \cup {"idle", "done", "failed", "dead"}]
        /\ pc'[c] \in {"resolving", "loaded", "done"}
        /\ pc'[c] = "loaded" => how = "load"
        /\ pc'[c] = "done" => how = "get"
        /\ \A d \in Calls : d # c => pc'[d] = pc[d]
    BY DEF Begin, Become, InMemory, TypeOK, Stages
  <1>d. /\ model' \in [Calls -> Calls \cup {None}]
        /\ \A d \in Calls : d # c => model'[d] = model[d]
        /\ model'[c] # None => model'[c] = loadedModels[r]
        /\ loadedModels[r] \in Calls \cup {None}
    BY <1>a DEF Begin, TypeOK
  <1>e. /\ activeDownloads' \subseteq Refs /\ errorModels' \subseteq Refs
        /\ overlapped' \subseteq Calls /\ lastLoad' \in [Refs -> Calls \cup {None}]
    BY DEF Begin, Announce, Rivals, InFlight, TypeOK
  <1>1. TypeOK'
    <2>1. /\ file' \in [Refs -> Versions \cup {Junk, None}]
          /\ entry' \in [Refs -> Versions \cup {NoChecksum, None}]
          /\ writing' \in [Refs -> SUBSET Calls]
          /\ loadedModels' \in [Refs -> Calls \cup {None}]
          /\ claim' \in [Calls -> Versions \cup {NoChecksum}]
          /\ session' \in [Calls -> BOOLEAN] /\ disposed' \in [Calls -> BOOLEAN]
          /\ bytes' \in [Calls -> Versions \cup {Junk, None}]
          /\ clean' \in [Refs -> BOOLEAN] /\ steady' \subseteq Calls
      BY <1>a DEF TypeOK, disk, objects
    <2>2. \A q \in Refs : \A d \in writing'[q] : ref'[d] = q /\ pc'[d] = "writing"
      BY <1>a, <1>b, <1>c DEF TypeOK, disk
    <2>3. \A q \in Refs : loadedModels'[q] # None => ref'[loadedModels'[q]] = q
      BY <1>a, <1>b DEF TypeOK, Objects, Begun
    <2>4. \A d \in Calls : pc'[d] \notin {"idle", "dead"} => ref'[d] \in Refs /\ via'[d] # "none"
      BY <1>a, <1>b, <1>c DEF TypeOK
    <2>5. \A d \in Calls : model'[d] # None => ref'[model'[d]] = ref'[d]
      <3>1. ASSUME NEW d \in Calls, d # c, model[d] # None PROVE ref'[model[d]] = ref'[d]
        <4>1. model[d] \in Calls /\ model[d] # c  BY <1>a, <3>1 DEF TypeOK, Objects, Begun
        <4>2. QED  BY <1>b, <3>1, <4>1 DEF TypeOK
      <3>2. model'[c] # None => ref'[model'[c]] = ref'[c]
        BY <1>a, <1>b, <1>d, <2>3
      <3>3. QED  BY <1>d, <3>1, <3>2
    <2>6. QED  BY <1>b, <1>c, <1>d, <1>e, <2>1, <2>2, <2>3, <2>4, <2>5 DEF TypeOK
  <1>2. Objects'
    <2>1. \A d \in Calls : Begun(d) => pc'[d] \notin {"idle", "dead"}  BY <1>c DEF Begun
    <2>2. ASSUME NEW d \in Calls, model'[d] # None PROVE pc'[model'[d]] \notin {"idle", "dead"}
      <3>1. CASE d # c
        <4>1. model'[d] = model[d] /\ model[d] \in Calls  BY <1>d, <2>2, <3>1 DEF TypeOK
        <4>2. Begun(model[d])  BY <2>2, <4>1 DEF Objects
        <4>3. QED  BY <2>1, <4>1, <4>2
      <3>2. CASE d = c
        <4>1. model'[d] = loadedModels[r] /\ loadedModels[r] \in Calls  BY <1>d, <2>2, <3>2
        <4>2. Begun(loadedModels[r])  BY <2>2, <4>1 DEF Objects
        <4>3. QED  BY <2>1, <4>1, <4>2
      <3>3. QED  BY <3>1, <3>2
    <2>3. ASSUME NEW q \in Refs, loadedModels[q] # None
          PROVE  pc'[loadedModels[q]] \notin {"idle", "dead"}
      <3>1. loadedModels[q] \in Calls  BY <2>3 DEF TypeOK
      <3>2. Begun(loadedModels[q])  BY <2>3 DEF Objects
      <3>3. QED  BY <2>1, <3>1, <3>2
    <2>4. \A d \in Calls : bytes'[d] = bytes[d] /\ session'[d] = session[d]
      BY <1>a DEF objects
    <2>5. ASSUME NEW d \in Calls
          PROVE  /\ pc'[d] \in {"idle", "dead"} \cup (Stages \ {"loaded"}) => bytes'[d] = None
                 /\ pc'[d] = "idle" => model'[d] = None
                 /\ pc'[d] = "creating" => model'[d] = d
                 /\ pc'[d] = "done" /\ via'[d] = "pull" => model'[d] = d
                 /\ pc'[d] = "loaded" => via'[d] = "load"
      <3>1. CASE d # c  BY <1>b, <1>c, <1>d, <2>4, <3>1 DEF Objects
      <3>2. CASE d = c  BY <1>a, <1>b, <1>c, <2>4, <3>2
      <3>3. QED  BY <3>1, <3>2
    <2>6. QED  BY <1>a, <2>2, <2>3, <2>4, <2>5 DEF Objects, Begun
  <1>3. CleanPaths'
    BY DEF Begin, Announce, Become, Rivals, InFlight, InMemory, IsLoaded, disk, client, call,
           objects, history, Stages, TypeOK, Objects, CleanPaths, SteadyCalls
  <1>4. SteadyCalls'
    BY DEF Begin, Announce, Become, Rivals, InFlight, InMemory, IsLoaded, disk, client, call,
           objects, history, Stages, TypeOK, Objects, CleanPaths, SteadyCalls
  <1>5. RivalsOverlap'
    BY DEF Begin, Announce, Become, Rivals, InFlight, InMemory, IsLoaded, disk, client, call,
           objects, history, Stages, TypeOK, RivalsOverlap
  <1>6. FoundAgain'
    BY DEF Begin, Announce, Become, Rivals, InFlight, InMemory, IsLoaded, disk, client, call,
           objects, history, Stages, TypeOK, Objects, RivalsOverlap, FoundAgain
  <1>7. Status'
    BY DEF Begin, Announce, Become, Rivals, InFlight, InMemory, IsLoaded, disk, client, call,
           objects, history, Stages, TypeOK, Objects, RivalsOverlap, Status, Begun
  <1>8. QED  BY <1>1, <1>2, <1>3, <1>4, <1>5, <1>6, <1>7

LEMMA UnloadStep ==
  ASSUME ClientInv, NEW r \in Refs, Unload(r)
  PROVE  ClientInv'
  <1> USE ContentsAreDistinct DEF ClientInv
  <1> DEFINE gone == {loadedModels[d] : d \in {r}} \ {None}
  <1>a. Dispose(gone)  BY DEF Unload, Release
  <1>0. /\ session' \in [Calls -> BOOLEAN] /\ disposed' \in [Calls -> BOOLEAN]
        /\ \A c \in Calls : session'[c] = TRUE /\ disposed'[c] = FALSE =>
             session[c] = TRUE /\ disposed[c] = FALSE /\ c \notin gone
        /\ \A c \in Calls : session[c] = FALSE => session'[c] = FALSE
    BY <1>a, Disposed
  <1>b. ASSUME NEW c \in Calls, session'[c] = TRUE, disposed'[c] = FALSE, NEW d \in Refs,
               loadedModels[d] = c
        PROVE  loadedModels'[d] = c
    <2>1. c \notin gone /\ c # None  BY <1>0, <1>b
    <2>2. QED  BY <1>b, <2>1 DEF TypeOK, Unload, Release
  <1>c. \A c \in Calls : session[c] = TRUE => ref[c] \in Refs
    BY DEF TypeOK, Objects
  <1>1. TypeOK'
    BY <1>0 DEF Unload, Release, disk, client, call, objects, history, Stages, TypeOK,
                Objects, Begun
  <1>2. Objects'
    BY <1>0 DEF Unload, Release, disk, client, call, objects, history, Stages, TypeOK,
                Objects, Begun
  <1>3. CleanPaths'
    BY DEF Unload, Release, disk, client, call, objects, history, Stages, TypeOK, Objects,
           CleanPaths, SteadyCalls
  <1>4. SteadyCalls'
    BY DEF Unload, Release, disk, client, call, objects, history, Stages, TypeOK, Objects,
           CleanPaths, SteadyCalls
  <1>5. RivalsOverlap'
    BY DEF Unload, Release, disk, client, call, objects, history, Stages, TypeOK,
           RivalsOverlap
  <1>6. FoundAgain'
    BY <1>0, <1>b, <1>c DEF Unload, Release, disk, client, call, objects, history, Stages,
                            TypeOK, Objects, RivalsOverlap, FoundAgain
  <1>7. Status'
    BY DEF Unload, Release, disk, client, call, objects, history, Stages, TypeOK, Objects,
           RivalsOverlap, Status, Begun
  <1>8. QED  BY <1>1, <1>2, <1>3, <1>4, <1>5, <1>6, <1>7

LEMMA RemoveCacheStep ==
  ASSUME ClientInv, NEW r \in Refs, RemoveCache(r)
  PROVE  ClientInv'
  <1> USE ContentsAreDistinct DEF ClientInv
  <1>1. TypeOK'
    BY DEF RemoveCache, Remove, Unread, disk, client, call, objects, history, Stages, TypeOK,
           Objects, Begun
  <1>2. Objects'
    BY DEF RemoveCache, Remove, Unread, disk, client, call, objects, history, Stages, TypeOK,
           Objects, Begun
  <1>3. CleanPaths'
    BY DEF RemoveCache, Remove, Unread, disk, client, call, objects, history, Stages, TypeOK,
           Objects, CleanPaths, SteadyCalls
  <1>4. SteadyCalls'
    BY DEF RemoveCache, Remove, Unread, disk, client, call, objects, history, Stages, TypeOK,
           Objects, CleanPaths, SteadyCalls
  <1>5. RivalsOverlap'
    BY DEF RemoveCache, Remove, Unread, disk, client, call, objects, history, Stages, TypeOK,
           RivalsOverlap
  <1>6. FoundAgain'
    BY DEF RemoveCache, Remove, Unread, disk, client, call, objects, history, Stages, TypeOK,
           Objects, RivalsOverlap, FoundAgain
  <1>7. Status'
    BY DEF RemoveCache, Remove, Unread, disk, client, call, objects, history, Stages, TypeOK,
           Objects, RivalsOverlap, Status, Begun
  <1>8. QED  BY <1>1, <1>2, <1>3, <1>4, <1>5, <1>6, <1>7

LEMMA ClearCacheStep ==
  ASSUME ClientInv, ClearCache
  PROVE  ClientInv'
  <1> USE ContentsAreDistinct DEF ClientInv
  <1> DEFINE listed == {r \in Refs : entry[r] # None /\ file[r] # None}
  <1> DEFINE gone == {loadedModels[d] : d \in listed} \ {None}
  <1>a. Dispose(gone)  BY DEF ClearCache, Release
  <1>0. /\ session' \in [Calls -> BOOLEAN] /\ disposed' \in [Calls -> BOOLEAN]
        /\ \A c \in Calls : session'[c] = TRUE /\ disposed'[c] = FALSE =>
             session[c] = TRUE /\ disposed[c] = FALSE /\ c \notin gone
        /\ \A c \in Calls : session[c] = FALSE => session'[c] = FALSE
    BY <1>a, Disposed
  <1>b. ASSUME NEW c \in Calls, session'[c] = TRUE, disposed'[c] = FALSE, NEW d \in Refs,
               loadedModels[d] = c
        PROVE  loadedModels'[d] = c
    <2>1. c \notin gone /\ c # None  BY <1>0, <1>b
    <2>2. QED  BY <1>b, <2>1 DEF TypeOK, ClearCache, Release
  <1>c. \A c \in Calls : session[c] = TRUE => ref[c] \in Refs
    BY DEF TypeOK, Objects
  <1>1. TypeOK'
    BY <1>0 DEF ClearCache, Release, Remove, Unread, disk, client, call, objects, history,
                Stages, TypeOK, Objects, Begun
  <1>2. Objects'
    BY <1>0 DEF ClearCache, Release, Remove, Unread, disk, client, call, objects, history,
                Stages, TypeOK, Objects, Begun
  <1>3. CleanPaths'
    BY DEF ClearCache, Release, Remove, Unread, disk, client, call, objects, history, Stages,
           TypeOK, Objects, CleanPaths, SteadyCalls
  <1>4. SteadyCalls'
    BY DEF ClearCache, Release, Remove, Unread, disk, client, call, objects, history, Stages,
           TypeOK, Objects, CleanPaths, SteadyCalls
  <1>5. RivalsOverlap'
    BY DEF ClearCache, Release, Remove, Unread, disk, client, call, objects, history, Stages,
           TypeOK, RivalsOverlap
  <1>6. FoundAgain'
    BY <1>0, <1>b, <1>c DEF ClearCache, Release, Remove, Unread, disk, client, call, objects,
                            history, Stages, TypeOK, Objects, RivalsOverlap, FoundAgain
  <1>7. Status'
    BY DEF ClearCache, Release, Remove, Unread, disk, client, call, objects, history, Stages,
           TypeOK, Objects, RivalsOverlap, Status, Begun
  <1>8. QED  BY <1>1, <1>2, <1>3, <1>4, <1>5, <1>6, <1>7

LEMMA CloseStep ==
  ASSUME ClientInv, Close
  PROVE  ClientInv'
  <1> USE ContentsAreDistinct DEF ClientInv
  <1> DEFINE gone == {loadedModels[d] : d \in Refs} \ {None}
  <1>a. Dispose(gone)  BY DEF Close, Release
  <1>0. /\ session' \in [Calls -> BOOLEAN] /\ disposed' \in [Calls -> BOOLEAN]
        /\ \A c \in Calls : session'[c] = TRUE /\ disposed'[c] = FALSE =>
             session[c] = TRUE /\ disposed[c] = FALSE /\ c \notin gone
        /\ \A c \in Calls : session[c] = FALSE => session'[c] = FALSE
    BY <1>a, Disposed
  <1>b. ASSUME NEW c \in Calls, session'[c] = TRUE, disposed'[c] = FALSE, NEW d \in Refs,
               loadedModels[d] = c
        PROVE  loadedModels'[d] = c
    <2>1. c \notin gone /\ c # None  BY <1>0, <1>b
    <2>2. QED  BY <1>b, <2>1 DEF TypeOK, Close, Release
  <1>c. \A c \in Calls : session[c] = TRUE => ref[c] \in Refs
    BY DEF TypeOK, Objects
  <1>1. TypeOK'
    BY <1>0 DEF Close, Release, disk, client, call, objects, history, Stages, TypeOK, Objects,
                Begun
  <1>2. Objects'
    BY <1>0 DEF Close, Release, disk, client, call, objects, history, Stages, TypeOK, Objects,
                Begun
  <1>3. CleanPaths'
    BY DEF Close, Release, disk, client, call, objects, history, Stages, TypeOK, Objects,
           CleanPaths, SteadyCalls
  <1>4. SteadyCalls'
    BY DEF Close, Release, disk, client, call, objects, history, Stages, TypeOK, Objects,
           CleanPaths, SteadyCalls
  <1>5. RivalsOverlap'
    BY DEF Close, Release, disk, client, call, objects, history, Stages, TypeOK, RivalsOverlap
  <1>6. FoundAgain'
    BY <1>0, <1>b, <1>c DEF Close, Release, disk, client, call, objects, history, Stages,
                            TypeOK, Objects, RivalsOverlap, FoundAgain
  <1>7. Status'
    BY DEF Close, Release, disk, client, call, objects, history, Stages, TypeOK, Objects,
           RivalsOverlap, Status, Begun
  <1>8. QED  BY <1>1, <1>2, <1>3, <1>4, <1>5, <1>6, <1>7

LEMMA CrashStep ==
  ASSUME ClientInv, Crash
  PROVE  ClientInv'
  <1> USE ContentsAreDistinct DEF ClientInv
  <1>1. TypeOK'
    BY DEF Crash, disk, client, call, objects, history, Stages, TypeOK, Objects, Begun
  <1>2. Objects'
    BY DEF Crash, disk, client, call, objects, history, Stages, TypeOK, Objects, Begun
  <1>3. CleanPaths'
    BY DEF Crash, disk, client, call, objects, history, Stages, TypeOK, Objects, CleanPaths,
           SteadyCalls
  <1>4. SteadyCalls'
    BY DEF Crash, disk, client, call, objects, history, Stages, TypeOK, Objects, CleanPaths,
           SteadyCalls
  <1>5. RivalsOverlap'
    BY DEF Crash, disk, client, call, objects, history, Stages, TypeOK, RivalsOverlap
  <1>6. FoundAgain'
    BY DEF Crash, disk, client, call, objects, history, Stages, TypeOK, Objects,
           RivalsOverlap, FoundAgain
  <1>7. Status'
    BY DEF Crash, disk, client, call, objects, history, Stages, TypeOK, Objects,
           RivalsOverlap, Status, Begun
  <1>8. QED  BY <1>1, <1>2, <1>3, <1>4, <1>5, <1>6, <1>7

LEMMA ClientStep == ClientInv /\ [Next]_vars => ClientInv'
  <1> SUFFICES ASSUME ClientInv, [Next]_vars PROVE ClientInv'  OBVIOUS
  <1>1. ASSUME NEW c \in Calls, NEW r \in Refs, NEW how \in {"pull", "get", "load"},
               Begin(c, how, r)
        PROVE  ClientInv'
    BY <1>1, BeginStep
  <1>2. ASSUME NEW c \in Calls, NEW sum \in Versions \cup {NoChecksum}, NEW force \in BOOLEAN,
               Resolve(c, sum, force)
        PROVE  ClientInv'
    BY <1>2, ResolveStep
  <1>3. ASSUME NEW c \in Calls, Open(c) PROVE ClientInv'  BY <1>3, OpenStep
  <1>4. ASSUME NEW c \in Calls, WriteChunk(c) PROVE ClientInv'  BY <1>4, WriteChunkStep
  <1>5. ASSUME NEW c \in Calls, Written(c) PROVE ClientInv'  BY <1>5, WrittenStep
  <1>6. ASSUME NEW c \in Calls, Hash(c) PROVE ClientInv'  BY <1>6, HashStep
  <1>7. ASSUME NEW c \in Calls, Register(c) PROVE ClientInv'  BY <1>7, RegisterStep
  <1>8. ASSUME NEW c \in Calls, Throw(c) PROVE ClientInv'  BY <1>8, ThrowStep
  <1>9. ASSUME NEW c \in Calls, Create(c) PROVE ClientInv'  BY <1>9, CreateStep
  <1>10. ASSUME NEW c \in Calls, LoadReturns(c) PROVE ClientInv'  BY <1>10, LoadReturnsStep
  <1>11. ASSUME NEW c \in Calls, LoadPulled(c) PROVE ClientInv'  BY <1>11, LoadPulledStep
  <1>12. ASSUME NEW c \in Calls, CloseModel(c) PROVE ClientInv'  BY <1>12, CloseModelStep
  <1>13. ASSUME NEW r \in Refs, Unload(r) PROVE ClientInv'  BY <1>13, UnloadStep
  <1>14. ASSUME NEW r \in Refs, RemoveCache(r) PROVE ClientInv'  BY <1>14, RemoveCacheStep
  <1>15. CASE ClearCache  BY <1>15, ClearCacheStep
  <1>16. CASE Close  BY <1>16, CloseStep
  <1>17. CASE Crash  BY <1>17, CrashStep
  <1>18. CASE UNCHANGED vars
    <2>1. UNCHANGED <<file, writing, entry, loadedModels, activeDownloads, errorModels, pc,
                      via, ref, claim, model, session, disposed, bytes, clean, steady,
                      overlapped, lastLoad>>
      BY <1>18 DEF vars, disk, client, call, objects, history
    <2>2. TypeOK' /\ Objects' /\ CleanPaths'
      BY <2>1 DEF ClientInv, TypeOK, Objects, Begun, CleanPaths
    <2>3. SteadyCalls' /\ RivalsOverlap' /\ FoundAgain' /\ Status'
      BY <2>1 DEF ClientInv, SteadyCalls, RivalsOverlap, FoundAgain, Status, Begun
    <2>4. QED  BY <2>2, <2>3 DEF ClientInv
  <1>19. QED
    BY <1>1, <1>2, <1>3, <1>4, <1>5, <1>6, <1>7, <1>8, <1>9, <1>10, <1>11, <1>12, <1>13,
       <1>14, <1>15, <1>16, <1>17, <1>18
    DEF Next

LEMMA ClientInvariant == Spec => []ClientInv
  BY ClientInitially, ClientStep, PTL DEF Spec
-----------------------------------------------------------------------------
(* The theorems, for any number of models, versions and calls *)

\* Calls, Models, files and registers stay well formed.
THEOREM ClientTypeCorrect == Spec => []TypeOK
  <1>1. ClientInv => TypeOK  BY DEF ClientInv
  <1>2. QED  BY <1>1, ClientInvariant, PTL

\* However pulls, loads, removals and crashes interleave, a session whose path no
\* other call wrote to meanwhile runs on the bytes its call had resolved.
THEOREM RunsOnWhatItResolved == Spec => []RunsWhatWasResolved
  <1>1. ClientInv => RunsWhatWasResolved
    BY DEF ClientInv, SteadyCalls, RunsWhatWasResolved
  <1>2. QED  BY <1>1, ClientInvariant, PTL

\* A loaded model that met no rival is never left behind.
THEOREM LoneLoadsAreFound == Spec => []OnlyOverlapsLeak
  <1>1. ClientInv => OnlyOverlapsLeak
    <2> SUFFICES ASSUME ClientInv, NEW c \in Calls \ overlapped, IsLoaded(c), via[c] # "pull"
                 PROVE  loadedModels[ref[c]] = c
      BY DEF OnlyOverlapsLeak
    <2>1. session[c] = TRUE /\ disposed[c] = FALSE  BY DEF ClientInv, TypeOK, IsLoaded
    <2>2. QED  BY <2>1 DEF ClientInv, FoundAgain
  <1>2. QED  BY <1>1, ClientInvariant, PTL

\* What is told of a load that met no rival is so.
THEOREM StatusIsTold == Spec => []StatusTellsOfTheLoad
  <1>1. ClientInv => StatusTellsOfTheLoad
    BY DEF ClientInv, Status, StatusTellsOfTheLoad, InFlight
  <1>2. QED  BY <1>1, ClientInvariant, PTL
=============================================================================
