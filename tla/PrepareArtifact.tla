--------------------------- MODULE PrepareArtifact ---------------------------
(***************************************************************************)
(* PrepareManager.prepare on one artifact key: downloadOne publishes the   *)
(* bytes under artifacts/<key>, materializeFile copies them under          *)
(* runtime/<key>.  Several calls, of one process or of several, share the  *)
(* four file names of the key; every awaited file-system call is a step.   *)
(*                                                                         *)
(* A name refers to an inode, as on the file systems the SDK runs on: a    *)
(* rename moves a name, an unlink drops it, and a stream that is open      *)
(* keeps writing to its inode under whatever name it has by then.  The     *)
(* bytes of a body are Size[b] blocks; hashing a file that holds exactly   *)
(* the blocks of v gives v's digest and no other file does.                *)
(***************************************************************************)
EXTENDS Naturals, Sequences

CONSTANTS
  Callers,     \* concurrent prepare() calls that share the cache root
  Versions,    \* the digests a plan may claim for this artifact key
  Bodies,      \* what an endpoint may send: the versions and other bytes
  Size,        \* Size[b]: the length of a body, in blocks
  Endpoints,   \* the number of download_urls of a plan
  Inodes,      \* files that can exist at once (bounds the model)
  Hole,        \* what a block that was skipped over reads as
  None,        \* no inode, no version, no body
  PowerLoss    \* whether the machine may lose bytes that were not synced

ASSUME PrepareAssumption ==
  /\ Versions \subseteq Bodies
  /\ Size \in [Bodies -> Nat \ {0}]
  /\ Endpoints \in Nat \ {0}
  /\ Hole \notin Bodies
  /\ None \notin Inodes \cup Bodies
  /\ PowerLoss \in BOOLEAN

VARIABLES
  dir,         \* dir[n]: the inode that file name n refers to, or None
  disk,        \* disk[i]: the blocks of inode i
  pc,          \* pc[c]: the next awaited step of c's call
  want,        \* want[c]: the digest c's plan claims
  ep,          \* ep[c]: the endpoint c is at
  body,        \* body[c]: what that endpoint sends
  off,         \* off[c]: blocks of it written so far
  fd,          \* fd[c]: the inode c's open stream writes to, or None
  src,         \* src[c]: the inode c's copyFile reads from, or None
  overlapped   \* history: the calls that ran at the same time as another

vars == <<dir, disk, pc, want, ep, body, off, fd, src, overlapped>>

Names == {"part", "final", "tmp", "runtime"}

Settled == {"idle", "done", "failed"}

InFlight ==
  {"probe", "hash", "drop", "sweep", "fetch", "write", "reject", "publish",
   "cleanup", "reverify", "stat", "copy", "fill", "install"}

Running(c) == pc[c] \in InFlight

Whole(b) == [k \in 1..Size[b] |-> b]

\* The digest of the file called n is the one claimed for v.
DigestIs(n, v) == dir[n] # None /\ disk[dir[n]] = Whole(v)

\* The type invariant of the files and of the calls of prepare() on them.
TypeOK ==
  /\ dir \in [Names -> Inodes \cup {None}]
  /\ disk \in [Inodes -> Seq(Bodies \cup {Hole})]
  /\ pc \in [Callers -> Settled \cup InFlight]
  /\ want \in [Callers -> Versions \cup {None}]
  /\ ep \in [Callers -> 1..Endpoints]
  /\ body \in [Callers -> Bodies \cup {None}]
  /\ off \in [Callers -> Nat]
  /\ fd \in [Callers -> Inodes \cup {None}]
  /\ src \in [Callers -> Inodes \cup {None}]
  /\ overlapped \in SUBSET Callers

Init ==
  /\ dir = [n \in Names |-> None]
  /\ disk = [i \in Inodes |-> << >>]
  /\ pc = [c \in Callers |-> "idle"]
  /\ want = [c \in Callers |-> None]
  /\ ep = [c \in Callers |-> 1]
  /\ body = [c \in Callers |-> None]
  /\ off = [c \in Callers |-> 0]
  /\ fd = [c \in Callers |-> None]
  /\ src = [c \in Callers |-> None]
  /\ overlapped = {}

-----------------------------------------------------------------------------
(* The file system *)

Referenced(i) ==
  \/ \E n \in Names : dir[n] = i
  \/ \E c \in Callers : fd[c] = i \/ src[c] = i

FreeInodes == {i \in Inodes : ~Referenced(i)}

\* The disk becomes d, less the bytes of files that now have neither a name
\* nor an open handle.
SetDisk(d) ==
  disk' = [i \in Inodes |-> IF Referenced(i)' THEN d[i] ELSE << >>]

\* Opening a name for writing: an existing file is truncated in place, a
\* missing one is created.
OpenForWriting(c, n) ==
  /\ dir[n] = None => FreeInodes # {}
  /\ LET i == IF dir[n] # None THEN dir[n] ELSE CHOOSE j \in FreeInodes : TRUE
     IN /\ dir' = [dir EXCEPT ![n] = i]
        /\ fd' = [fd EXCEPT ![c] = i]
        /\ SetDisk([disk EXCEPT ![i] = << >>])

\* A stream writes at its own offset, whatever another stream did to the file.
WriteAt(s, o, b) ==
  [k \in 1..(IF Len(s) > o THEN Len(s) ELSE o + 1) |->
     IF k = o + 1 THEN b ELSE IF k <= Len(s) THEN s[k] ELSE Hole]

\* What copying s over a file that holds old leaves in it.
CopyOver(old, s) ==
  [k \in 1..(IF Len(old) > Len(s) THEN Len(old) ELSE Len(s)) |->
     IF k <= Len(s) THEN s[k] ELSE old[k]]

Unlink(n) ==
  /\ dir' = [dir EXCEPT ![n] = None]
  /\ UNCHANGED <<fd, src>>
  /\ SetDisk(disk)

Rename(m, n) ==
  /\ dir' = [dir EXCEPT ![n] = dir[m], ![m] = None]
  /\ UNCHANGED <<fd, src>>
  /\ SetDisk(disk)

\* c's streams close, whatever names their files have by now.
CloseAll(c) ==
  /\ fd' = [fd EXCEPT ![c] = None]
  /\ src' = [src EXCEPT ![c] = None]
  /\ UNCHANGED dir

Goto(c, label) == pc' = [pc EXCEPT ![c] = label]
-----------------------------------------------------------------------------
(* downloadOne *)

\* A call arrives with a plan that claims digest v.
Begin(c, v) ==
  LET others == {d \in Callers \ {c} : Running(d)}
  IN /\ ~Running(c)
     /\ Goto(c, "probe")
     /\ want' = [want EXCEPT ![c] = v]
     /\ overlapped' = IF others = {} THEN overlapped \ {c}
                                     ELSE overlapped \cup others \cup {c}
     /\ UNCHANGED <<dir, disk, ep, body, off, fd, src>>

Probe(c) ==
  /\ pc[c] = "probe"
  /\ Goto(c, IF dir["final"] = None THEN "sweep" ELSE "hash")
  /\ UNCHANGED <<dir, disk, want, ep, body, off, fd, src, overlapped>>

\* Mutant: an existing file is trusted without hashing it.
HashFinalTrusting(c) ==
  /\ pc[c] = "hash"
  /\ Goto(c, IF dir["final"] = None THEN "failed" ELSE "stat")
  /\ UNCHANGED <<dir, disk, want, ep, body, off, fd, src, overlapped>>

\* The fast path.  The file may have gone since the probe: the open throws.
HashFinal(c) ==
  /\ pc[c] = "hash"
  /\ Goto(c, IF dir["final"] = None THEN "failed"
              ELSE IF DigestIs("final", want[c]) THEN "reverify" ELSE "drop")
  /\ UNCHANGED <<dir, disk, want, ep, body, off, fd, src, overlapped>>

DropFinal(c) ==
  /\ pc[c] = "drop"
  /\ Unlink("final")
  /\ Goto(c, "sweep")
  /\ UNCHANGED <<want, ep, body, off, overlapped>>

SweepPart(c) ==
  /\ pc[c] = "sweep"
  /\ Unlink("part")
  /\ Goto(c, "fetch")
  /\ UNCHANGED <<want, ep, body, off, overlapped>>

\* Mutant: the loop runs one endpoint past the last.
NextEndpointPast(c) ==
  IF ep[c] <= Endpoints
  THEN ep' = [ep EXCEPT ![c] = ep[c] + 1] /\ Goto(c, "fetch")
  ELSE ep' = [ep EXCEPT ![c] = 1] /\ Goto(c, "failed")

\* The next endpoint of the loop, or the throw after the last one.
NextEndpoint(c) ==
  IF ep[c] < Endpoints
  THEN ep' = [ep EXCEPT ![c] = ep[c] + 1] /\ Goto(c, "fetch")
  ELSE ep' = [ep EXCEPT ![c] = 1] /\ Goto(c, "failed")

FetchRefused(c) ==
  /\ pc[c] = "fetch"
  /\ NextEndpoint(c)
  /\ UNCHANGED <<dir, disk, want, body, off, fd, src, overlapped>>

FetchThrows(c) ==
  /\ pc[c] = "fetch"
  /\ Goto(c, "cleanup")
  /\ UNCHANGED <<dir, disk, want, ep, body, off, fd, src, overlapped>>

FetchBody(c, b) ==
  /\ pc[c] = "fetch"
  /\ UNCHANGED src
  /\ OpenForWriting(c, "part")
  /\ body' = [body EXCEPT ![c] = b]
  /\ off' = [off EXCEPT ![c] = 0]
  /\ Goto(c, "write")
  /\ UNCHANGED <<want, ep, overlapped>>

WriteBlock(c) ==
  /\ pc[c] = "write"
  /\ off[c] < Size[body[c]]
  /\ disk' = [disk EXCEPT ![fd[c]] = WriteAt(@, off[c], body[c])]
  /\ off' = [off EXCEPT ![c] = off[c] + 1]
  /\ UNCHANGED <<dir, pc, want, ep, body, fd, src, overlapped>>

EndStream(c) ==
  /\ CloseAll(c)
  /\ SetDisk(disk)
  /\ body' = [body EXCEPT ![c] = None]
  /\ off' = [off EXCEPT ![c] = 0]

\* The body ends early: the pipeline destroys the stream and rejects.
StreamBreaks(c) ==
  /\ pc[c] = "write"
  /\ off[c] < Size[body[c]]
  /\ EndStream(c)
  /\ Goto(c, "cleanup")
  /\ UNCHANGED <<want, ep, overlapped>>

\* Mutant: the digest of the body is not compared.
FinishBodyUnchecked(c) ==
  /\ pc[c] = "write"
  /\ off[c] = Size[body[c]]
  /\ EndStream(c)
  /\ Goto(c, "publish")
  /\ UNCHANGED <<want, ep, overlapped>>

\* The digest is that of the bytes received, not of the bytes on disk.
FinishBody(c) ==
  /\ pc[c] = "write"
  /\ off[c] = Size[body[c]]
  /\ EndStream(c)
  /\ Goto(c, IF body[c] = want[c] THEN "publish" ELSE "reject")
  /\ UNCHANGED <<want, ep, overlapped>>

RejectBody(c) ==
  /\ pc[c] = "reject"
  /\ Unlink("part")
  /\ Goto(c, "cleanup")
  /\ UNCHANGED <<want, ep, body, off, overlapped>>

\* Mutant: a call whose .part file another call took starts its endpoint over.
PublishStartsOver(c) ==
  /\ pc[c] = "publish"
  /\ IF dir["part"] = None
     THEN Goto(c, "fetch") /\ UNCHANGED <<dir, disk, fd, src, ep>>
     ELSE /\ Rename("part", "final")
          /\ Goto(c, "stat")
          /\ ep' = [ep EXCEPT ![c] = 1]
  /\ UNCHANGED <<want, body, off, overlapped>>

Publish(c) ==
  /\ pc[c] = "publish"
  /\ IF dir["part"] = None
     THEN Goto(c, "cleanup") /\ UNCHANGED <<dir, disk, fd, src, ep>>
     ELSE /\ Rename("part", "final")
          /\ Goto(c, "stat")
          /\ ep' = [ep EXCEPT ![c] = 1]
  /\ UNCHANGED <<want, body, off, overlapped>>

\* The catch block of the endpoint loop.
CleanUp(c) ==
  /\ pc[c] = "cleanup"
  /\ Unlink("part")
  /\ NextEndpoint(c)
  /\ UNCHANGED <<want, body, off, overlapped>>

-----------------------------------------------------------------------------
(* prepare, after downloadOne: the second digest check and materializeFile *)

Reverify(c) ==
  /\ pc[c] = "reverify"
  /\ Goto(c, IF DigestIs("final", want[c]) THEN "stat" ELSE "failed")
  /\ UNCHANGED <<dir, disk, want, ep, body, off, fd, src, overlapped>>

\* Mutant: any runtime file counts as already in place.
SameSizeOrNot == dir["final"] # None /\ dir["runtime"] # None

\* A runtime file of the same, non-zero size counts as already in place.
SameSize ==
  /\ dir["final"] # None
  /\ dir["runtime"] # None
  /\ Len(disk[dir["final"]]) = Len(disk[dir["runtime"]])
  /\ Len(disk[dir["final"]]) > 0

StatRuntime(c) ==
  /\ pc[c] = "stat"
  /\ Goto(c, IF SameSize THEN "done" ELSE "copy")
  /\ UNCHANGED <<dir, disk, want, ep, body, off, fd, src, overlapped>>

\* Mutant: the copy goes straight to the runtime name.
StartCopyInPlace(c) ==
  /\ pc[c] = "copy"
  /\ IF dir["final"] = None
     THEN /\ Goto(c, "failed")
          /\ UNCHANGED <<dir, disk, fd, src>>
     ELSE /\ src' = [src EXCEPT ![c] = dir["final"]]
          /\ OpenForWriting(c, "runtime")
          /\ Goto(c, "fill")
  /\ UNCHANGED <<want, ep, body, off, overlapped>>

\* copyFile opens its source, which may be gone, and truncates the .tmp.
StartCopy(c) ==
  /\ pc[c] = "copy"
  /\ IF dir["final"] = None
     THEN /\ Goto(c, "failed")
          /\ UNCHANGED <<dir, disk, fd, src>>
     ELSE /\ src' = [src EXCEPT ![c] = dir["final"]]
          /\ OpenForWriting(c, "tmp")
          /\ Goto(c, "fill")
  /\ UNCHANGED <<want, ep, body, off, overlapped>>

FillCopy(c) ==
  /\ pc[c] = "fill"
  /\ CloseAll(c)
  /\ SetDisk([disk EXCEPT ![fd[c]] = CopyOver(@, disk[src[c]])])
  /\ Goto(c, "install")
  /\ UNCHANGED <<want, ep, body, off, overlapped>>

Install(c) ==
  /\ pc[c] = "install"
  /\ IF dir["tmp"] = None
     THEN Goto(c, "failed") /\ UNCHANGED <<dir, disk, fd, src>>
     ELSE Rename("tmp", "runtime") /\ Goto(c, "done")
  /\ UNCHANGED <<want, ep, body, off, overlapped>>

-----------------------------------------------------------------------------
(* Failures *)

\* c's process dies: its streams close, the files stay as they are.
Crash(c) ==
  /\ Running(c)
  /\ EndStream(c)
  /\ ep' = [ep EXCEPT ![c] = 1]
  /\ Goto(c, "idle")
  /\ UNCHANGED <<want, overlapped>>

\* The machine goes down with no call in progress.  Nothing was fsynced, so
\* any file may come back as a prefix of what was written.
PowerFailure ==
  /\ PowerLoss
  /\ \A c \in Callers : ~Running(c)
  /\ \E i \in Inodes : \E n \in 0..Len(disk[i]) :
       disk' = [disk EXCEPT ![i] = SubSeq(disk[i], 1, n)]
  /\ UNCHANGED <<dir, pc, want, ep, body, off, fd, src, overlapped>>

Download(c) ==
  \/ Probe(c) \/ HashFinal(c) \/ DropFinal(c) \/ SweepPart(c)
  \/ FetchRefused(c) \/ FetchThrows(c) \/ \E b \in Bodies : FetchBody(c, b)
  \/ WriteBlock(c) \/ StreamBreaks(c) \/ FinishBody(c)
  \/ RejectBody(c) \/ Publish(c) \/ CleanUp(c)

Materialize(c) ==
  Reverify(c) \/ StatRuntime(c) \/ StartCopy(c) \/ FillCopy(c) \/ Install(c)

Step(c) == Download(c) \/ Materialize(c)

Next ==
  \/ \E c \in Callers : (\E v \in Versions : Begin(c, v)) \/ Step(c) \/ Crash(c)
  \/ PowerFailure

Spec == Init /\ [][Next]_vars

\* The event loop runs what it can, and a request ends in bytes or an error.
Fairness == \A c \in Callers : WF_vars(Step(c))

\* Calls may overlap, and each that is under way is run on.
FairSpec == Spec /\ Fairness

\* The behaviours in which no two calls on this artifact key overlap.
OneAtATime == \A c, d \in Callers : Running(c) /\ Running(d) => c = d

SerialSpec == Init /\ [][Next /\ OneAtATime']_vars

-----------------------------------------------------------------------------
(* Properties *)

Returns(c) == pc[c] # "done" /\ pc'[c] = "done"

\* Whatever is under the published name is every byte of a version some plan
\* claimed, never a part of one and never bytes that failed the digest check
\* (downloadOne verifies and renames, it does not write the final name).
PublishedIsWhole ==
  dir["final"] # None => \E v \in Versions : DigestIs("final", v)

\* A call that returns an outcome for digest d leaves the bytes of d in the
\* runtime layout the engine loads, through crashes, stale .part and .tmp
\* files and plans that change version between calls (prepare, lines 193-208).
PreparedBytesMatch ==
  [][\A c \in Callers : Returns(c) => DigestIs("runtime", want[c])']_vars

\* The rename of a call puts the bytes that call hashed under the published
\* name: no other call can swap them in between (downloadOne, lines 210-219).
PublishMatchesDigest ==
  [][\A c \in Callers : pc[c] = "publish" /\ pc'[c] = "stat"
                          => DigestIs("final", want[c])']_vars

\* A call that no other call overlapped reaches materializeFile only with the
\* bytes its plan claims under the published name, whatever overlapping calls,
\* crashes or a power failure left in the four files before it.
SoloPublishIsWhole ==
  \A c \in Callers :
    pc[c] = "stat" /\ c \notin overlapped => DigestIs("final", want[c])

\* Every call returns, throws or dies with its process: the endpoint loop is
\* bounded and no step of one call waits for another, also when they overlap
\* and delete, truncate and rename each other's files.
EveryCallSettles == \A c \in Callers : Running(c) ~> ~Running(c)

-----------------------------------------------------------------------------
(* Refinement: the runtime file is the abstract slot *)

Slot ==
  IF dir["runtime"] = None THEN None
  ELSE IF \E v \in Versions : DigestIs("runtime", v)
       THEN CHOOSE v \in Versions : DigestIs("runtime", v)
       ELSE Hole

Cache == INSTANCE ArtifactCache
           WITH slot <- Slot,
                wanted <- want,
                call <- [c \in Callers |->
                           IF Running(c) THEN "running" ELSE pc[c]]

\* Prepare calls that do not overlap implement ArtifactCache: the engine's
\* file is always nothing or one whole version, and it changes only in the
\* step in which a call returns, to what that call was asked for.
ImplementsArtifactCache == Cache!Spec
=============================================================================
