------------------------ MODULE PrepareArtifactProofs ------------------------
(***************************************************************************)
(* Proofs about PrepareArtifact, for every number of callers, versions,    *)
(* endpoints and blocks.  For every behaviour, calls that overlap, crashes *)
(* and power failures included: type correctness, what a call that nothing *)
(* overlapped can rely on, and that calls come to an end.  For those in    *)
(* which the calls on one artifact key do not overlap (and whose machine   *)
(* does not lose power): what is published, what a call returns, and the   *)
(* refinement of ArtifactCache.                                            *)
(***************************************************************************)
EXTENDS PrepareArtifact, TLAPS, SequenceTheorems

Contents == Seq(Bodies \cup {Hole})

-----------------------------------------------------------------------------
(* Contents of files *)

\* A table of n blocks is a sequence of length n.
LEMMA TableIsSeq ==
  ASSUME NEW S, NEW n \in Nat, NEW f \in [1..n -> S]
  PROVE  f \in Seq(S) /\ Len(f) = n
  <1>1. f \in Seq(S)  BY SeqDef
  <1>2. QED  BY <1>1, LenProperties

LEMMA SeqIsTable ==
  ASSUME NEW S, NEW s \in Seq(S)
  PROVE  Len(s) \in Nat /\ s \in [1..Len(s) -> S]
  BY LenProperties

LEMMA NoBlocks == << >> \in Contents
  BY EmptySeq DEF Contents

LEMMA SizeIsPositive ==
  ASSUME NEW b \in Bodies
  PROVE  Size[b] \in Nat /\ Size[b] > 0
  BY PrepareAssumption

\* The first o blocks of a body.
Blocks(b, o) == [k \in 1..o |-> b]

LEMMA BlocksType ==
  ASSUME NEW b \in Bodies, NEW o \in Nat
  PROVE  Blocks(b, o) \in Contents /\ Len(Blocks(b, o)) = o
  <1>1. Blocks(b, o) \in [1..o -> Bodies \cup {Hole}]  BY DEF Blocks
  <1>2. QED  BY <1>1, TableIsSeq DEF Contents

LEMMA WholeType ==
  ASSUME NEW b \in Bodies
  PROVE  Whole(b) \in Contents /\ Len(Whole(b)) = Size[b]
  <1>1. Whole(b) = Blocks(b, Size[b])  BY DEF Whole, Blocks
  <1>2. QED  BY <1>1, BlocksType, SizeIsPositive

\* Two bodies with the same bytes are the same body: every body has a block.
LEMMA WholeInjective ==
  ASSUME NEW a \in Bodies, NEW b \in Bodies, Whole(a) = Whole(b)
  PROVE  a = b
  <1>1. 1 \in 1..Size[a] /\ 1 \in 1..Size[b]  BY SizeIsPositive
  <1>2. Whole(a)[1] = a /\ Whole(b)[1] = b  BY <1>1 DEF Whole
  <1>3. QED  BY <1>2

LEMMA WriteAtType ==
  ASSUME NEW s \in Contents, NEW o \in Nat, NEW b \in Bodies
  PROVE  WriteAt(s, o, b) \in Contents
  <1>1. Len(s) \in Nat /\ s \in [1..Len(s) -> Bodies \cup {Hole}]
    BY SeqIsTable DEF Contents
  <1> DEFINE n == IF Len(s) > o THEN Len(s) ELSE o + 1
  <1>2. n \in Nat  BY <1>1
  <1>3. WriteAt(s, o, b) \in [1..n -> Bodies \cup {Hole}]
    BY <1>1 DEF WriteAt
  <1>4. QED  BY <1>2, <1>3, TableIsSeq DEF Contents

LEMMA CopyOverType ==
  ASSUME NEW old \in Contents, NEW s \in Contents
  PROVE  CopyOver(old, s) \in Contents
  <1>1. Len(s) \in Nat /\ s \in [1..Len(s) -> Bodies \cup {Hole}]
    BY SeqIsTable DEF Contents
  <1>2. Len(old) \in Nat /\ old \in [1..Len(old) -> Bodies \cup {Hole}]
    BY SeqIsTable DEF Contents
  <1> DEFINE n == IF Len(old) > Len(s) THEN Len(old) ELSE Len(s)
  <1>3. n \in Nat  BY <1>1, <1>2
  <1>4. CopyOver(old, s) \in [1..n -> Bodies \cup {Hole}]
    BY <1>1, <1>2 DEF CopyOver
  <1>5. QED  BY <1>3, <1>4, TableIsSeq DEF Contents

LEMMA PrefixType ==
  ASSUME NEW s \in Contents, NEW n \in 0..Len(s)
  PROVE  SubSeq(s, 1, n) \in Contents
  <1>1. Len(s) \in Nat  BY SeqIsTable DEF Contents
  <1>2. CASE n = 0
    BY <1>1, <1>2, SubSeqProperties, EmptySeq DEF Contents
  <1>3. CASE n # 0
    BY <1>1, <1>3, SubSeqProperties DEF Contents
  <1>4. QED  BY <1>2, <1>3

\* A stream that has written o blocks of b to an empty file and writes the
\* next one leaves o + 1 blocks of b.
LEMMA WriteNext ==
  ASSUME NEW b \in Bodies, NEW o \in Nat
  PROVE  WriteAt(Blocks(b, o), o, b) = Blocks(b, o + 1)
  <1>1. Len(Blocks(b, o)) = o  BY BlocksType
  <1>2. \A k \in 1..o : Blocks(b, o)[k] = b  BY DEF Blocks
  <1>3. WriteAt(Blocks(b, o), o, b) =
          [k \in 1..(o + 1) |->
             IF k = o + 1 THEN b ELSE IF k <= o THEN Blocks(b, o)[k] ELSE Hole]
    BY <1>1 DEF WriteAt
  <1>4. \A k \in 1..(o + 1) : k = o + 1 \/ k \in 1..o  OBVIOUS
  <1>5. QED  BY <1>2, <1>3, <1>4 DEF Blocks

\* Copying into an empty file gives the bytes of the source.
LEMMA CopyOverEmpty ==
  ASSUME NEW b \in Bodies
  PROVE  CopyOver(<< >>, Whole(b)) = Whole(b)
  <1>1. Len(Whole(b)) = Size[b]  BY WholeType
  <1>2. Len(<< >>) = 0  BY EmptySeq
  <1>3. CopyOver(<< >>, Whole(b)) =
          [k \in 1..Size[b] |-> IF k <= Size[b] THEN Whole(b)[k] ELSE << >>[k]]
    BY <1>1, <1>2, SizeIsPositive DEF CopyOver
  <1>4. \A k \in 1..Size[b] : k <= Size[b] /\ Whole(b)[k] = b
    BY SizeIsPositive DEF Whole
  <1>5. QED  BY <1>3, <1>4 DEF Whole

-----------------------------------------------------------------------------
(* Type correctness, overlapping calls and power failures included *)

\* TypeOK alone is not inductive: a writing call has a body, and a copying one
\* has a source.
TypeInv ==
  /\ TypeOK
  /\ \A c \in Callers :
       /\ pc[c] = "write" => body[c] \in Bodies
       /\ pc[c] = "fill" => src[c] \in Inodes

LEMMA SetDiskType ==
  ASSUME NEW d \in [Inodes -> Contents], SetDisk(d)
  PROVE  disk' \in [Inodes -> Contents]
  BY NoBlocks DEF SetDisk

LEMMA UnlinkType ==
  ASSUME TypeOK, NEW n \in Names, Unlink(n)
  PROVE  /\ dir' \in [Names -> Inodes \cup {None}]
         /\ disk' \in [Inodes -> Contents]
  BY SetDiskType DEF Unlink, TypeOK, Contents

LEMMA RenameType ==
  ASSUME TypeOK, NEW m \in Names, NEW n \in Names, Rename(m, n)
  PROVE  /\ dir' \in [Names -> Inodes \cup {None}]
         /\ disk' \in [Inodes -> Contents]
  BY SetDiskType DEF Rename, TypeOK, Contents

LEMMA OpenType ==
  ASSUME TypeOK, NEW c \in Callers, NEW n \in Names, OpenForWriting(c, n)
  PROVE  /\ dir' \in [Names -> Inodes \cup {None}]
         /\ fd' \in [Callers -> Inodes \cup {None}]
         /\ disk' \in [Inodes -> Contents]
  <1> DEFINE i == IF dir[n] # None THEN dir[n]
                                   ELSE CHOOSE j \in FreeInodes : TRUE
  <1>1. dir[n] = None => i \in FreeInodes
    BY DEF OpenForWriting
  <1>2. i \in Inodes
    BY <1>1 DEF TypeOK, FreeInodes
  <1>3. /\ dir' = [dir EXCEPT ![n] = i]
        /\ fd' = [fd EXCEPT ![c] = i]
        /\ SetDisk([disk EXCEPT ![i] = << >>])
    BY DEF OpenForWriting
  <1> HIDE DEF i
  <1>4. [disk EXCEPT ![i] = << >>] \in [Inodes -> Contents]
    BY NoBlocks DEF TypeOK, Contents
  <1>5. disk' \in [Inodes -> Contents]
    BY <1>3, <1>4, SetDiskType
  <1>6. QED  BY <1>2, <1>3, <1>5 DEF TypeOK

LEMMA EndStreamType ==
  ASSUME TypeOK, NEW c \in Callers, EndStream(c)
  PROVE  /\ dir' \in [Names -> Inodes \cup {None}]
         /\ disk' \in [Inodes -> Contents]
         /\ fd' \in [Callers -> Inodes \cup {None}]
         /\ src' \in [Callers -> Inodes \cup {None}]
         /\ body' \in [Callers -> Bodies \cup {None}]
         /\ off' \in [Callers -> Nat]
  BY SetDiskType DEF EndStream, CloseAll, TypeOK, Contents

LEMMA NextEndpointType ==
  ASSUME TypeOK, NEW c \in Callers, NextEndpoint(c)
  PROVE  /\ ep' \in [Callers -> 1..Endpoints]
         /\ \E x \in {"fetch", "failed"} : Goto(c, x)
  <1>1. ep[c] \in 1..Endpoints /\ Endpoints \in Nat \ {0}
    BY PrepareAssumption DEF TypeOK
  <1>2. CASE ep[c] < Endpoints
    <2>1. ep' = [ep EXCEPT ![c] = ep[c] + 1] /\ Goto(c, "fetch")
      BY <1>2 DEF NextEndpoint
    <2>2. ep[c] + 1 \in 1..Endpoints  BY <1>1, <1>2
    <2>3. QED  BY <2>1, <2>2 DEF TypeOK
  <1>3. CASE ~(ep[c] < Endpoints)
    BY <1>1, <1>3 DEF NextEndpoint, TypeOK
  <1>4. QED  BY <1>2, <1>3

LEMMA GotoType ==
  ASSUME TypeOK, NEW c \in Callers, NEW x \in Settled \cup InFlight, Goto(c, x)
  PROVE  /\ pc' \in [Callers -> Settled \cup InFlight]
         /\ pc'[c] = x
         /\ \A d \in Callers \ {c} : pc'[d] = pc[d]
  BY DEF Goto, TypeOK

\* A step of c's that leaves c neither writing nor copying.
LEMMA TypeInvFromTypeOK ==
  ASSUME TypeInv, TypeOK', NEW c \in Callers,
         pc'[c] \notin {"write", "fill"},
         \A d \in Callers \ {c} : /\ pc'[d] = pc[d]
                                  /\ body'[d] = body[d]
                                  /\ src'[d] = src[d]
  PROVE  TypeInv'
  BY DEF TypeInv

LEMMA TypeInit == Init => TypeInv
  <1> SUFFICES ASSUME Init PROVE TypeInv  OBVIOUS
  <1>1. 1 \in 1..Endpoints  BY PrepareAssumption
  <1>2. QED  BY <1>1, NoBlocks DEF Init, TypeInv, TypeOK, Settled, InFlight, Contents

LEMMA TypeStep == TypeInv /\ [Next]_vars => TypeInv'
  <1> SUFFICES ASSUME TypeInv, [Next]_vars PROVE TypeInv'  OBVIOUS
  <1>0. TypeOK  BY DEF TypeInv
  <1>1. ASSUME NEW c \in Callers, NEW v \in Versions, Begin(c, v)
        PROVE  TypeInv'
    <2>1. Goto(c, "probe")  BY <1>1 DEF Begin
    <2>2. pc' \in [Callers -> Settled \cup InFlight] /\ pc'[c] = "probe"
          /\ \A d \in Callers \ {c} : pc'[d] = pc[d]
      BY <1>0, <2>1, GotoType DEF InFlight
    <2>3. TypeOK'  BY <1>0, <1>1, <2>2 DEF Begin, TypeOK
    <2>4. QED  BY <1>1, <2>2, <2>3, TypeInvFromTypeOK DEF Begin
  <1>2. ASSUME NEW c \in Callers,
               NEW x \in (Settled \cup InFlight) \ {"write", "fill"},
               Goto(c, x), UNCHANGED <<dir, disk, want, body, off, fd, src, overlapped>>,
               ep' \in [Callers -> 1..Endpoints]
        PROVE  TypeInv'
    <2>1. pc' \in [Callers -> Settled \cup InFlight] /\ pc'[c] = x
          /\ \A d \in Callers \ {c} : pc'[d] = pc[d]
      BY <1>0, <1>2, GotoType
    <2>2. TypeOK'  BY <1>0, <1>2, <2>1 DEF TypeOK
    <2>3. QED  BY <1>2, <2>1, <2>2, TypeInvFromTypeOK
  <1>3. ASSUME NEW c \in Callers,
               NEW x \in (Settled \cup InFlight) \ {"write", "fill"},
               Goto(c, x), UNCHANGED <<want, body, off, overlapped, fd, src>>,
               ep' \in [Callers -> 1..Endpoints],
               dir' \in [Names -> Inodes \cup {None}],
               disk' \in [Inodes -> Contents]
        PROVE  TypeInv'
    <2>1. pc' \in [Callers -> Settled \cup InFlight] /\ pc'[c] = x
          /\ \A d \in Callers \ {c} : pc'[d] = pc[d]
      BY <1>0, <1>3, GotoType
    <2>2. TypeOK'  BY <1>0, <1>3, <2>1 DEF TypeOK, Contents
    <2>3. QED  BY <1>3, <2>1, <2>2, TypeInvFromTypeOK
  <1>4. ASSUME NEW c \in Callers,
               NEW x \in (Settled \cup InFlight) \ {"write", "fill"},
               Goto(c, x), EndStream(c), UNCHANGED <<want, overlapped>>,
               ep' \in [Callers -> 1..Endpoints]
        PROVE  TypeInv'
    <2>1. pc' \in [Callers -> Settled \cup InFlight] /\ pc'[c] = x
          /\ \A d \in Callers \ {c} : pc'[d] = pc[d]
      BY <1>0, <1>4, GotoType
    <2>2. TypeOK'
      BY <1>0, <1>4, <2>1, EndStreamType DEF TypeOK, Contents
    <2>3. \A d \in Callers \ {c} : body'[d] = body[d] /\ src'[d] = src[d]
      BY <1>0, <1>4 DEF EndStream, CloseAll, TypeOK
    <2>4. QED  BY <1>4, <2>1, <2>2, <2>3, TypeInvFromTypeOK
  <1>ep. ep \in [Callers -> 1..Endpoints]  BY <1>0 DEF TypeOK
  <1>ep1. 1 \in 1..Endpoints  BY PrepareAssumption
  <1>5. ASSUME NEW c \in Callers, Probe(c) PROVE TypeInv'
    <2>1. PICK x \in {"sweep", "hash"} : Goto(c, x)  BY <1>5 DEF Probe
    <2>2. QED  BY <1>5, <2>1, <1>2, <1>ep DEF Probe, InFlight
  <1>6. ASSUME NEW c \in Callers, HashFinal(c) PROVE TypeInv'
    <2>1. PICK x \in {"failed", "reverify", "drop"} : Goto(c, x)
      BY <1>6 DEF HashFinal
    <2>2. QED  BY <1>6, <2>1, <1>2, <1>ep DEF HashFinal, InFlight, Settled
  <1>7. ASSUME NEW c \in Callers, DropFinal(c) PROVE TypeInv'
    <2>1. Unlink("final") /\ Goto(c, "sweep") /\ UNCHANGED <<want, ep, body, off, overlapped>>
      BY <1>7 DEF DropFinal
    <2>2. QED
      BY <1>0, <2>1, <1>3, <1>ep, UnlinkType DEF Unlink, Names, InFlight
  <1>8. ASSUME NEW c \in Callers, SweepPart(c) PROVE TypeInv'
    <2>1. Unlink("part") /\ Goto(c, "fetch") /\ UNCHANGED <<want, ep, body, off, overlapped>>
      BY <1>8 DEF SweepPart
    <2>2. QED
      BY <1>0, <2>1, <1>3, <1>ep, UnlinkType DEF Unlink, Names, InFlight
  <1>9. ASSUME NEW c \in Callers, FetchRefused(c) PROVE TypeInv'
    <2>1. ep' \in [Callers -> 1..Endpoints] /\ \E x \in {"fetch", "failed"} : Goto(c, x)
      BY <1>0, <1>9, NextEndpointType DEF FetchRefused
    <2>2. PICK x \in {"fetch", "failed"} : Goto(c, x)  BY <2>1
    <2>3. QED  BY <1>9, <2>1, <2>2, <1>2 DEF FetchRefused, InFlight, Settled
  <1>10. ASSUME NEW c \in Callers, FetchThrows(c) PROVE TypeInv'
    BY <1>10, <1>2, <1>ep DEF FetchThrows, InFlight
  <1>11. ASSUME NEW c \in Callers, NEW b \in Bodies, FetchBody(c, b)
         PROVE  TypeInv'
    <2>1. pc' \in [Callers -> Settled \cup InFlight] /\ pc'[c] = "write"
          /\ \A d \in Callers \ {c} : pc'[d] = pc[d]
      BY <1>0, <1>11, GotoType DEF FetchBody, InFlight
    <2>2. /\ dir' \in [Names -> Inodes \cup {None}]
          /\ fd' \in [Callers -> Inodes \cup {None}]
          /\ disk' \in [Inodes -> Contents]
      BY <1>0, <1>11, OpenType DEF FetchBody, Names
    <2>3. body' = [body EXCEPT ![c] = b] /\ off' = [off EXCEPT ![c] = 0]
          /\ UNCHANGED <<want, ep, overlapped, src>>
      BY <1>11 DEF FetchBody
    <2>4. TypeOK'  BY <1>0, <2>1, <2>2, <2>3 DEF TypeOK, Contents
    <2>5. body'[c] = b /\ \A d \in Callers \ {c} : body'[d] = body[d]
      BY <1>0, <2>3 DEF TypeOK
    <2>6. QED  BY <2>1, <2>3, <2>4, <2>5 DEF TypeInv
  <1>12. ASSUME NEW c \in Callers, WriteBlock(c) PROVE TypeInv'
    <2>1. body[c] \in Bodies /\ off[c] \in Nat
      BY <1>0, <1>12 DEF WriteBlock, TypeInv, TypeOK
    <2>2. ASSUME NEW i \in Inodes
          PROVE  WriteAt(disk[i], off[c], body[c]) \in Contents
      BY <1>0, <2>1, WriteAtType DEF TypeOK, Contents
    <2>3. disk' \in [Inodes -> Contents]
      BY <1>0, <1>12, <2>2 DEF WriteBlock, TypeOK, Contents
    <2>4. off' \in [Callers -> Nat]
      BY <1>0, <1>12, <2>1 DEF WriteBlock, TypeOK
    <2>5. TypeOK'
      BY <1>0, <1>12, <2>3, <2>4 DEF WriteBlock, TypeOK, Contents
    <2>6. QED  BY <1>12, <2>5 DEF WriteBlock, TypeInv
  <1>13. ASSUME NEW c \in Callers, StreamBreaks(c) PROVE TypeInv'
    BY <1>13, <1>4, <1>ep DEF StreamBreaks, InFlight
  <1>14. ASSUME NEW c \in Callers, FinishBody(c) PROVE TypeInv'
    <2>1. PICK x \in {"publish", "reject"} : Goto(c, x)  BY <1>14 DEF FinishBody
    <2>2. QED  BY <1>14, <2>1, <1>4, <1>ep DEF FinishBody, InFlight
  <1>15. ASSUME NEW c \in Callers, RejectBody(c) PROVE TypeInv'
    <2>1. Unlink("part") /\ Goto(c, "cleanup") /\ UNCHANGED <<want, ep, body, off, overlapped>>
      BY <1>15 DEF RejectBody
    <2>2. QED
      BY <1>0, <2>1, <1>3, <1>ep, UnlinkType DEF Unlink, Names, InFlight
  <1>16. ASSUME NEW c \in Callers, Publish(c) PROVE TypeInv'
    <2>1. CASE dir["part"] = None
      BY <1>16, <2>1, <1>2, <1>ep DEF Publish, InFlight
    <2>2. CASE dir["part"] # None
      <3>1. Rename("part", "final") /\ Goto(c, "stat")
            /\ UNCHANGED <<want, body, off, overlapped>>
            /\ ep' \in [Callers -> 1..Endpoints]
        BY <1>16, <2>2, <1>ep, <1>ep1 DEF Publish
      <3>2. QED
        BY <1>0, <3>1, <1>3, RenameType DEF Rename, Names, InFlight
    <2>3. QED  BY <2>1, <2>2
  <1>17. ASSUME NEW c \in Callers, CleanUp(c) PROVE TypeInv'
    <2>1. ep' \in [Callers -> 1..Endpoints] /\ \E x \in {"fetch", "failed"} : Goto(c, x)
      BY <1>0, <1>17, NextEndpointType DEF CleanUp
    <2>2. PICK x \in {"fetch", "failed"} : Goto(c, x)  BY <2>1
    <2>3. Unlink("part") /\ UNCHANGED <<want, body, off, overlapped>>
      BY <1>17 DEF CleanUp
    <2>4. QED
      BY <1>0, <2>1, <2>2, <2>3, <1>3, UnlinkType DEF Unlink, Names, InFlight, Settled
  <1>18. ASSUME NEW c \in Callers, Reverify(c) PROVE TypeInv'
    <2>1. PICK x \in {"stat", "failed"} : Goto(c, x)  BY <1>18 DEF Reverify
    <2>2. QED  BY <1>18, <2>1, <1>2, <1>ep DEF Reverify, InFlight, Settled
  <1>19. ASSUME NEW c \in Callers, StatRuntime(c) PROVE TypeInv'
    <2>1. PICK x \in {"done", "copy"} : Goto(c, x)  BY <1>19 DEF StatRuntime
    <2>2. QED  BY <1>19, <2>1, <1>2, <1>ep DEF StatRuntime, InFlight, Settled
  <1>20. ASSUME NEW c \in Callers, StartCopy(c) PROVE TypeInv'
    <2>1. CASE dir["final"] = None
      BY <1>20, <2>1, <1>2, <1>ep DEF StartCopy, Settled
    <2>2. CASE dir["final"] # None
      <3>1. /\ src' = [src EXCEPT ![c] = dir["final"]]
            /\ OpenForWriting(c, "tmp")
            /\ Goto(c, "fill")
            /\ UNCHANGED <<want, ep, body, off, overlapped>>
        BY <1>20, <2>2 DEF StartCopy
      <3>2. pc' \in [Callers -> Settled \cup InFlight] /\ pc'[c] = "fill"
            /\ \A d \in Callers \ {c} : pc'[d] = pc[d]
        BY <1>0, <3>1, GotoType DEF InFlight
      <3>3. /\ dir' \in [Names -> Inodes \cup {None}]
            /\ fd' \in [Callers -> Inodes \cup {None}]
            /\ disk' \in [Inodes -> Contents]
        BY <1>0, <3>1, OpenType DEF Names
      <3>4. dir["final"] \in Inodes  BY <1>0, <2>2 DEF TypeOK, Names
      <3>5. TypeOK'  BY <1>0, <3>1, <3>2, <3>3, <3>4 DEF TypeOK, Contents
      <3>6. src'[c] \in Inodes /\ \A d \in Callers \ {c} : src'[d] = src[d]
        BY <1>0, <3>1, <3>4 DEF TypeOK
      <3>7. QED  BY <3>1, <3>2, <3>5, <3>6 DEF TypeInv
    <2>3. QED  BY <2>1, <2>2
  <1>21. ASSUME NEW c \in Callers, FillCopy(c) PROVE TypeInv'
    <2>1. src[c] \in Inodes  BY <1>21 DEF FillCopy, TypeInv
    <2>2. ASSUME NEW i \in Inodes
          PROVE  CopyOver(disk[i], disk[src[c]]) \in Contents
      BY <1>0, <2>1, CopyOverType DEF TypeOK, Contents
    <2>3. [disk EXCEPT ![fd[c]] = CopyOver(@, disk[src[c]])] \in [Inodes -> Contents]
      BY <1>0, <2>2 DEF TypeOK, Contents
    <2>4. disk' \in [Inodes -> Contents]
      BY <1>21, <2>3, SetDiskType DEF FillCopy
    <2>5. pc' \in [Callers -> Settled \cup InFlight] /\ pc'[c] = "install"
          /\ \A d \in Callers \ {c} : pc'[d] = pc[d]
      BY <1>0, <1>21, GotoType DEF FillCopy, InFlight
    <2>6. TypeOK'
      BY <1>0, <1>21, <2>4, <2>5 DEF FillCopy, CloseAll, TypeOK, Contents
    <2>7. \A d \in Callers \ {c} : body'[d] = body[d] /\ src'[d] = src[d]
      BY <1>0, <1>21 DEF FillCopy, CloseAll, TypeOK
    <2>8. QED  BY <2>5, <2>6, <2>7, TypeInvFromTypeOK
  <1>22. ASSUME NEW c \in Callers, Install(c) PROVE TypeInv'
    <2>1. CASE dir["tmp"] = None
      BY <1>22, <2>1, <1>2, <1>ep DEF Install, Settled
    <2>2. CASE dir["tmp"] # None
      <3>1. Rename("tmp", "runtime") /\ Goto(c, "done")
            /\ UNCHANGED <<want, ep, body, off, overlapped>>
        BY <1>22, <2>2 DEF Install
      <3>2. QED
        BY <1>0, <3>1, <1>3, <1>ep, RenameType DEF Rename, Names, Settled
    <2>3. QED  BY <2>1, <2>2
  <1>23. ASSUME NEW c \in Callers, Crash(c) PROVE TypeInv'
    <2>1. ep' \in [Callers -> 1..Endpoints]  BY <1>23, <1>ep, <1>ep1 DEF Crash
    <2>2. QED  BY <1>23, <2>1, <1>4 DEF Crash, Settled
  <1>24. ASSUME PowerFailure PROVE TypeInv'
    <2>1. PICK i \in Inodes : \E n \in 0..Len(disk[i]) :
            disk' = [disk EXCEPT ![i] = SubSeq(disk[i], 1, n)]
      BY <1>24 DEF PowerFailure
    <2>2. \A n \in 0..Len(disk[i]) : SubSeq(disk[i], 1, n) \in Contents
      BY <1>0, PrefixType DEF TypeOK, Contents
    <2>3. disk' \in [Inodes -> Contents]
      BY <1>0, <2>1, <2>2 DEF TypeOK, Contents
    <2>4. QED  BY <1>24, <2>3 DEF PowerFailure, TypeInv, TypeOK, Contents
  <1>25. CASE UNCHANGED vars
    BY <1>25 DEF vars, TypeInv, TypeOK
  <1>26. QED
    BY <1>1, <1>5, <1>6, <1>7, <1>8, <1>9, <1>10, <1>11, <1>12, <1>13, <1>14,
       <1>15, <1>16, <1>17, <1>18, <1>19, <1>20, <1>21, <1>22, <1>23, <1>24,
       <1>25
    DEF Next, Step, Download, Materialize

\* Every behaviour of prepare(), overlapping calls and power failures included,
\* keeps the four names, the bytes and the calls' places in the code well typed.
THEOREM TypeCorrect == Spec => []TypeOK
  <1>1. TypeInv => TypeOK  BY DEF TypeInv
  <1>2. QED  BY <1>1, TypeInit, TypeStep, PTL DEF Spec

-----------------------------------------------------------------------------
(* What a call has established, and what its steps do to the files *)

\* No two names refer to one file.
NamesApart == \A m, n \in Names : dir[m] = dir[n] /\ dir[m] # None => m = n

\* The engine's file is every byte of some version.
RuntimeIsWhole ==
  dir["runtime"] # None => \E v \in Versions : DigestIs("runtime", v)

\* What c has established by the time it is at pc[c].
CallInv(c) ==
  /\ Running(c) => want[c] \in Versions
  /\ pc[c] = "write" =>
       /\ body[c] \in Bodies
       /\ off[c] \in 0..Size[body[c]]
       /\ dir["part"] # None
       /\ fd[c] = dir["part"]
       /\ disk[dir["part"]] = Blocks(body[c], off[c])
  /\ pc[c] = "publish" => DigestIs("part", want[c])
  /\ pc[c] \in {"reverify", "stat", "copy", "fill"} => DigestIs("final", want[c])
  /\ pc[c] = "fill" =>
       /\ src[c] = dir["final"]
       /\ dir["tmp"] # None
       /\ fd[c] = dir["tmp"]
       /\ disk[dir["tmp"]] = << >>
  /\ pc[c] = "install" => DigestIs("tmp", want[c])

\* The step neither moves the name n nor changes its bytes.
SameFile(n) ==
  dir'[n] = dir[n] /\ (dir[n] # None => disk'[dir[n]] = disk[dir[n]])

LEMMA SameFileSameDigest ==
  ASSUME NEW n \in Names, SameFile(n), NEW v
  PROVE  DigestIs(n, v)' <=> DigestIs(n, v)
  BY DEF SameFile, DigestIs

\* A file that has a name after the step keeps the bytes SetDisk gave it.
LEMMA NamedFileKept ==
  ASSUME NEW d, SetDisk(d), NEW n \in Names, dir'[n] \in Inodes
  PROVE  disk'[dir'[n]] = d[dir'[n]]
  BY DEF SetDisk, Referenced

LEMMA UnlinkFiles ==
  ASSUME TypeOK, NamesApart, NEW n \in Names, Unlink(n)
  PROVE  /\ NamesApart'
         /\ dir'[n] = None
         /\ \A m \in Names \ {n} : SameFile(m)
  <1>1. dir' = [dir EXCEPT ![n] = None] /\ SetDisk(disk)  BY DEF Unlink
  <1>2. dir'[n] = None /\ \A m \in Names \ {n} : dir'[m] = dir[m]
    BY <1>1 DEF TypeOK
  <1>3. NamesApart'  BY <1>2 DEF NamesApart
  <1>4. ASSUME NEW m \in Names \ {n}, dir[m] # None
        PROVE  disk'[dir[m]] = disk[dir[m]]
    <2>1. dir'[m] \in Inodes  BY <1>2, <1>4 DEF TypeOK
    <2>2. QED  BY <1>1, <1>2, <2>1, NamedFileKept
  <1>5. QED  BY <1>2, <1>3, <1>4 DEF SameFile

LEMMA RenameFiles ==
  ASSUME TypeOK, NamesApart, NEW m \in Names, NEW n \in Names, m # n,
         dir[m] # None, Rename(m, n)
  PROVE  /\ NamesApart'
         /\ dir'[m] = None
         /\ \A v : DigestIs(n, v)' <=> DigestIs(m, v)
         /\ \A k \in Names \ {m, n} : SameFile(k)
  <1>1. dir' = [dir EXCEPT ![n] = dir[m], ![m] = None] /\ SetDisk(disk)
    BY DEF Rename
  <1>k. \A q \in Names : dir'[q] \in Inodes => disk'[dir'[q]] = disk[dir'[q]]
    <2>1. SetDisk(disk)  BY <1>1
    <2>2. QED  BY <2>1, NamedFileKept
  <1>2. /\ dir'[n] = dir[m] /\ dir'[m] = None
        /\ \A k \in Names \ {m, n} : dir'[k] = dir[k]
    BY <1>1 DEF TypeOK
  <1>3. NamesApart'  BY <1>2 DEF NamesApart
  <1>4. dir'[n] \in Inodes  BY <1>2 DEF TypeOK
  <1>5. disk'[dir'[n]] = disk[dir[m]]  BY <1>2, <1>4, <1>k
  <1>6. ASSUME NEW k \in Names \ {m, n}, dir[k] # None
        PROVE  disk'[dir[k]] = disk[dir[k]]
    <2>1. dir'[k] \in Inodes  BY <1>2, <1>6 DEF TypeOK
    <2>2. QED  BY <1>2, <2>1, <1>k
  <1>7. \A v : DigestIs(n, v)' <=> DigestIs(m, v)
    BY <1>2, <1>4, <1>5 DEF DigestIs
  <1>8. QED  BY <1>2, <1>3, <1>6, <1>7 DEF SameFile

LEMMA OpenFiles ==
  ASSUME TypeOK, NamesApart, NEW c \in Callers, NEW n \in Names,
         OpenForWriting(c, n)
  PROVE  /\ NamesApart'
         /\ dir'[n] \in Inodes
         /\ dir'[n] # None
         /\ fd'[c] = dir'[n]
         /\ disk'[dir'[n]] = << >>
         /\ \A m \in Names \ {n} : SameFile(m)
  <1> DEFINE i == IF dir[n] # None THEN dir[n]
                                   ELSE CHOOSE j \in FreeInodes : TRUE
  <1>1. dir[n] = None => i \in FreeInodes
    BY DEF OpenForWriting
  <1>2. i \in Inodes /\ i # None
    BY <1>1, PrepareAssumption DEF TypeOK, FreeInodes
  <1>3. \A m \in Names \ {n} : dir[m] # i
    <2>1. CASE dir[n] = None  BY <1>1, <2>1 DEF FreeInodes, Referenced
    <2>2. CASE dir[n] # None  BY <2>2 DEF NamesApart
    <2>3. QED  BY <2>1, <2>2
  <1>4. /\ dir' = [dir EXCEPT ![n] = i]
        /\ fd' = [fd EXCEPT ![c] = i]
        /\ SetDisk([disk EXCEPT ![i] = << >>])
    BY DEF OpenForWriting
  <1> HIDE DEF i
  <1>5. /\ dir'[n] = i /\ fd'[c] = i
        /\ \A m \in Names \ {n} : dir'[m] = dir[m]
    BY <1>4 DEF TypeOK
  <1>6. NamesApart'  BY <1>3, <1>5 DEF NamesApart
  <1>7. disk'[i] = << >>
    <2>1. disk'[dir'[n]] = [disk EXCEPT ![i] = << >>][dir'[n]]
      BY <1>2, <1>4, <1>5, NamedFileKept
    <2>2. QED  BY <1>2, <1>5, <2>1 DEF TypeOK
  <1>8. ASSUME NEW m \in Names \ {n}, dir[m] # None
        PROVE  disk'[dir[m]] = disk[dir[m]]
    <2>1. dir'[m] \in Inodes  BY <1>5, <1>8 DEF TypeOK
    <2>2. disk'[dir'[m]] = [disk EXCEPT ![i] = << >>][dir'[m]]
      BY <1>4, <2>1, NamedFileKept
    <2>3. QED  BY <1>3, <1>5, <2>1, <2>2 DEF TypeOK
  <1>9. QED  BY <1>2, <1>5, <1>6, <1>7, <1>8 DEF SameFile

\* Closing streams leaves every named file as it is.
LEMMA EndStreamFiles ==
  ASSUME TypeOK, NamesApart, NEW c \in Callers, EndStream(c)
  PROVE  NamesApart' /\ \A m \in Names : SameFile(m)
  <1>1. dir' = dir /\ SetDisk(disk)  BY DEF EndStream, CloseAll
  <1>2. NamesApart'  BY <1>1 DEF NamesApart
  <1>3. ASSUME NEW m \in Names, dir[m] # None
        PROVE  disk'[dir[m]] = disk[dir[m]]
    <2>1. dir'[m] \in Inodes  BY <1>1, <1>3 DEF TypeOK
    <2>2. QED  BY <1>1, <2>1, NamedFileKept
  <1>4. QED  BY <1>1, <1>2, <1>3 DEF SameFile

\* How a step of c's may leave a file that must be whole: untouched, gone, or
\* every byte of a version.
FineAfter(n) ==
  \/ SameFile(n)
  \/ dir'[n] = None
  \/ \E v \in Versions : DigestIs(n, v)'

\* What a step of c's does, whatever the other calls are at: the names stay
\* apart, both layouts are left fine, and c's own promises hold at its next place.
CallStep(c) ==
  /\ NamesApart'
  /\ FineAfter("final")
  /\ FineAfter("runtime")
  /\ \A d \in Callers \ {c} : pc'[d] = pc[d]
  /\ CallInv(c)'

\* A step that touches no file.
LEMMA QuietStep ==
  ASSUME TypeOK, NamesApart, UNCHANGED <<dir, disk>>,
         NEW c \in Callers, NEW x \in Settled \cup InFlight, Goto(c, x), CallInv(c)'
  PROVE  CallStep(c)
  <1>1. \A d \in Callers \ {c} : pc'[d] = pc[d]  BY GotoType
  <1>2. NamesApart' /\ FineAfter("final") /\ FineAfter("runtime")
    BY DEF NamesApart, FineAfter, SameFile
  <1>3. QED  BY <1>1, <1>2 DEF CallStep

\* c's step goes to a place that promises nothing but the wanted version.
LEMMA PlainCallInv ==
  ASSUME TypeOK, NEW c \in Callers,
         NEW x \in (Settled \cup InFlight) \
                     {"write", "publish", "reverify", "stat", "copy", "fill", "install"},
         Goto(c, x), CallInv(c), Running(c), want'[c] = want[c]
  PROVE  CallInv(c)'
  <1>1. pc'[c] = x  BY GotoType
  <1>2. QED  BY <1>1 DEF CallInv, Running, Settled, InFlight

\* downloadOne keeps what its call has established so far.
LEMMA DownloadStep ==
  ASSUME TypeInv, TypeInv', NamesApart,
         NEW c \in Callers, CallInv(c), Download(c)
  PROVE  CallStep(c)
  <1>0. TypeOK /\ TypeOK' /\ NamesApart /\ CallInv(c)
    BY DEF TypeInv
  <1>r. Running(c)
    BY DEF Download, Running, InFlight, Probe, HashFinal, DropFinal, SweepPart,
           FetchRefused, FetchThrows, FetchBody, WriteBlock, StreamBreaks,
           FinishBody, RejectBody, Publish, CleanUp
  <1>w. want[c] \in Versions  BY <1>0, <1>r DEF CallInv
  \* An unlink of a name other than the runtime file's, and on to x.
  <1>u. ASSUME NEW n \in {"part", "final"}, Unlink(n),
               NEW x \in {"sweep", "fetch", "cleanup", "failed"}, Goto(c, x), want' = want
        PROVE  CallStep(c)
    <2>1. /\ NamesApart' /\ dir'[n] = None
          /\ \A m \in Names \ {n} : SameFile(m)
      BY <1>0, <1>u, UnlinkFiles DEF Names
    <2>2. FineAfter("final") /\ FineAfter("runtime")
      BY <2>1 DEF FineAfter, Names
    <2>3. CallInv(c)'  BY <1>0, <1>r, <1>u, PlainCallInv DEF Settled, InFlight
    <2>4. \A d \in Callers \ {c} : pc'[d] = pc[d]
      BY <1>0, <1>u, GotoType DEF Settled, InFlight
    <2>5. QED  BY <2>1, <2>2, <2>3, <2>4 DEF CallStep
  \* A step that touches no file, and on to x.
  <1>q. ASSUME NEW x \in {"sweep", "hash", "failed", "drop", "fetch", "cleanup"},
               Goto(c, x), UNCHANGED <<dir, disk, want>>
        PROVE  CallStep(c)
    <2>1. CallInv(c)'  BY <1>0, <1>r, <1>q, PlainCallInv DEF Settled, InFlight
    <2>2. QED  BY <1>0, <1>q, <2>1, QuietStep DEF Settled, InFlight
  <1>1. CASE Probe(c)
    <2>1. PICK x \in {"sweep", "hash"} : Goto(c, x)  BY <1>1 DEF Probe
    <2>2. QED  BY <1>1, <2>1, <1>q DEF Probe
  <1>2. CASE HashFinal(c)
    <2>1. CASE dir["final"] # None /\ DigestIs("final", want[c])
      <3>1. Goto(c, "reverify") /\ UNCHANGED <<dir, disk, want>>
        BY <1>2, <2>1 DEF HashFinal
      <3>2. pc'[c] = "reverify"  BY <1>0, <3>1, GotoType DEF InFlight
      <3>3. CallInv(c)'
        BY <1>w, <2>1, <3>1, <3>2 DEF CallInv, DigestIs
      <3>4. QED  BY <1>0, <3>1, <3>3, QuietStep DEF InFlight
    <2>2. CASE ~(dir["final"] # None /\ DigestIs("final", want[c]))
      <3>1. Goto(c, IF dir["final"] = None THEN "failed" ELSE "drop")
        BY <1>2, <2>2 DEF HashFinal
      <3>2. QED  BY <1>2, <3>1, <1>q DEF HashFinal
    <2>3. QED  BY <2>1, <2>2
  <1>3. CASE DropFinal(c)
    BY <1>3, <1>u DEF DropFinal
  <1>4. CASE SweepPart(c)
    BY <1>4, <1>u DEF SweepPart
  <1>5. CASE FetchRefused(c)
    <2>1. PICK x \in {"fetch", "failed"} : Goto(c, x)
      BY <1>5 DEF FetchRefused, NextEndpoint
    <2>2. QED  BY <1>5, <2>1, <1>q DEF FetchRefused
  <1>6. CASE FetchThrows(c)
    BY <1>6, <1>q DEF FetchThrows
  <1>7. ASSUME NEW b \in Bodies, FetchBody(c, b)
        PROVE  CallStep(c)
    <2>1. /\ NamesApart' /\ dir'["part"] # None /\ fd'[c] = dir'["part"]
          /\ disk'[dir'["part"]] = << >>
          /\ \A m \in Names \ {"part"} : SameFile(m)
      BY <1>0, <1>7, OpenFiles DEF FetchBody, Names
    <2>2. pc'[c] = "write" /\ \A d \in Callers \ {c} : pc'[d] = pc[d]
      BY <1>0, <1>7, GotoType DEF FetchBody, InFlight
    <2>3. body'[c] = b /\ off'[c] = 0 /\ want'[c] = want[c]
      BY <1>0, <1>7 DEF FetchBody, TypeOK
    <2>4. << >> = Blocks(b, 0)
      <3>1. Blocks(b, 0) \in Contents /\ Len(Blocks(b, 0)) = 0  BY BlocksType
      <3>2. QED  BY <3>1, EmptySeq DEF Contents
    <2>5. 0 \in 0..Size[b]  BY SizeIsPositive
    <2>6. CallInv(c)'
      BY <1>w, <1>7, <2>1, <2>2, <2>3, <2>4, <2>5 DEF CallInv
    <2>7. FineAfter("final") /\ FineAfter("runtime")
      BY <2>1 DEF FineAfter, Names
    <2>8. QED  BY <2>1, <2>2, <2>6, <2>7 DEF CallStep
  <1>8. CASE WriteBlock(c)
    <2>1. /\ body[c] \in Bodies /\ off[c] \in 0..Size[body[c]]
          /\ dir["part"] # None /\ fd[c] = dir["part"]
          /\ disk[dir["part"]] = Blocks(body[c], off[c])
      BY <1>0, <1>8 DEF WriteBlock, CallInv
    <2>2. dir["part"] \in Inodes  BY <1>0, <2>1 DEF TypeOK, Names
    <2>3. disk'[dir["part"]] = WriteAt(Blocks(body[c], off[c]), off[c], body[c])
      BY <1>0, <1>8, <2>1, <2>2 DEF WriteBlock, TypeOK
    <2>4. off[c] \in Nat /\ off[c] + 1 \in 0..Size[body[c]]
      BY <1>8, <2>1, SizeIsPositive DEF WriteBlock
    <2>5. disk'[dir["part"]] = Blocks(body[c], off[c] + 1)
      BY <2>1, <2>3, <2>4, WriteNext
    <2>6. off'[c] = off[c] + 1 /\ UNCHANGED <<dir, pc, want, body, fd>>
      BY <1>0, <1>8 DEF WriteBlock, TypeOK
    <2>7. pc[c] = "write"  BY <1>8 DEF WriteBlock
    <2>8. CallInv(c)'
      BY <1>w, <2>1, <2>4, <2>5, <2>6, <2>7 DEF CallInv
    <2>9. \A m \in Names \ {"part"} : SameFile(m)
      <3>1. \A m \in Names \ {"part"} : dir[m] # None => dir[m] # dir["part"]
        BY <1>0 DEF NamesApart, Names
      <3>2. \A i \in Inodes : i # dir["part"] => disk'[i] = disk[i]
        BY <1>0, <1>8, <2>1 DEF WriteBlock, TypeOK
      <3>3. \A m \in Names : dir[m] # None => dir[m] \in Inodes
        BY <1>0 DEF TypeOK
      <3>4. QED  BY <2>6, <3>1, <3>2, <3>3 DEF SameFile
    <2>10. NamesApart' /\ FineAfter("final") /\ FineAfter("runtime")
      BY <1>0, <2>6, <2>9 DEF NamesApart, FineAfter, Names
    <2>11. QED  BY <2>6, <2>8, <2>10 DEF CallStep
  <1>9. CASE StreamBreaks(c)
    <2>1. NamesApart' /\ FineAfter("final") /\ FineAfter("runtime")
      BY <1>0, <1>9, EndStreamFiles DEF StreamBreaks, FineAfter, Names
    <2>2. CallInv(c)'
      BY <1>0, <1>r, <1>9, PlainCallInv DEF StreamBreaks, Settled, InFlight
    <2>3. \A d \in Callers \ {c} : pc'[d] = pc[d]
      BY <1>0, <1>9, GotoType DEF StreamBreaks, InFlight
    <2>4. QED  BY <2>1, <2>2, <2>3 DEF CallStep
  <1>10. CASE FinishBody(c)
    <2>1. NamesApart' /\ \A m \in Names : SameFile(m)
      BY <1>0, <1>10, EndStreamFiles DEF FinishBody
    <2>2. FineAfter("final") /\ FineAfter("runtime")
      BY <2>1 DEF FineAfter, Names
    <2>3. \A d \in Callers \ {c} : pc'[d] = pc[d]
      BY <1>0, <1>10, GotoType DEF FinishBody, InFlight
    <2>4. CASE body[c] = want[c]
      <3>1. /\ dir["part"] # None
            /\ disk[dir["part"]] = Blocks(want[c], Size[want[c]])
        BY <1>0, <1>10, <2>4 DEF FinishBody, CallInv
      <3>2. DigestIs("part", want[c])
        BY <3>1 DEF DigestIs, Blocks, Whole
      <3>3. DigestIs("part", want[c])'
        BY <1>10, <2>1, <3>2 DEF FinishBody, SameFile, DigestIs, Names
      <3>4. pc'[c] = "publish"
        BY <1>0, <1>10, <2>4, GotoType DEF FinishBody, InFlight
      <3>5. CallInv(c)'  BY <1>w, <1>10, <3>3, <3>4 DEF CallInv, FinishBody
      <3>6. QED  BY <2>1, <2>2, <2>3, <3>5 DEF CallStep
    <2>5. CASE body[c] # want[c]
      <3>1. CallInv(c)'
        BY <1>0, <1>r, <1>10, <2>5, PlainCallInv DEF FinishBody, Settled, InFlight
      <3>2. QED  BY <2>1, <2>2, <2>3, <3>1 DEF CallStep
    <2>6. QED  BY <2>4, <2>5
  <1>11. CASE RejectBody(c)
    BY <1>11, <1>u DEF RejectBody
  <1>12. CASE Publish(c)
    <2>1. DigestIs("part", want[c])  BY <1>0, <1>12 DEF Publish, CallInv
    <2>2. /\ Rename("part", "final") /\ Goto(c, "stat") /\ want' = want
          /\ dir["part"] # None
      BY <1>12, <2>1 DEF Publish, DigestIs
    <2>3. /\ NamesApart'
          /\ \A v : DigestIs("final", v)' <=> DigestIs("part", v)
          /\ SameFile("runtime")
      BY <1>0, <2>2, RenameFiles DEF Names
    <2>4. DigestIs("final", want[c])'
      BY <2>1, <2>2, <2>3 DEF DigestIs
    <2>5. pc'[c] = "stat" /\ \A d \in Callers \ {c} : pc'[d] = pc[d]
      BY <1>0, <2>2, GotoType DEF InFlight
    <2>6. CallInv(c)'  BY <1>w, <2>2, <2>4, <2>5 DEF CallInv
    <2>7. FineAfter("final") /\ FineAfter("runtime")
      BY <1>w, <2>1, <2>3 DEF FineAfter
    <2>8. QED  BY <2>3, <2>5, <2>6, <2>7 DEF CallStep
  <1>13. CASE CleanUp(c)
    <2>1. PICK x \in {"fetch", "failed"} : Goto(c, x)
      BY <1>13 DEF CleanUp, NextEndpoint
    <2>2. QED  BY <1>13, <2>1, <1>u DEF CleanUp
  <1>14. QED
    BY <1>1, <1>2, <1>3, <1>4, <1>5, <1>6, <1>7, <1>8, <1>9, <1>10, <1>11,
       <1>12, <1>13 DEF Download

\* So does the rest of prepare.
LEMMA MaterializeStep ==
  ASSUME TypeInv, TypeInv', NamesApart,
         NEW c \in Callers, CallInv(c), Materialize(c)
  PROVE  CallStep(c)
  <1>0. TypeOK /\ TypeOK' /\ NamesApart /\ CallInv(c)
    BY DEF TypeInv
  <1>r. Running(c)
    BY DEF Materialize, Running, InFlight, Reverify, StatRuntime, StartCopy,
           FillCopy, Install
  <1>w. want[c] \in Versions /\ want[c] \in Bodies
    BY <1>0, <1>r, PrepareAssumption DEF CallInv
  <1>q. ASSUME NEW x \in {"stat", "copy", "done", "failed"},
               Goto(c, x), UNCHANGED <<dir, disk, want>>, DigestIs("final", want[c])
        PROVE  CallStep(c)
    <2>1. pc'[c] = x  BY <1>0, <1>q, GotoType DEF Settled, InFlight
    <2>2. DigestIs("final", want[c])'  BY <1>q DEF DigestIs
    <2>3. CallInv(c)'  BY <1>w, <1>q, <2>1, <2>2 DEF CallInv
    <2>4. QED  BY <1>0, <1>q, <2>3, QuietStep DEF Settled, InFlight
  <1>1. CASE Reverify(c)
    <2>1. DigestIs("final", want[c])  BY <1>0, <1>1 DEF Reverify, CallInv
    <2>2. QED  BY <1>1, <2>1, <1>q DEF Reverify
  <1>2. CASE StatRuntime(c)
    <2>1. DigestIs("final", want[c])  BY <1>0, <1>2 DEF StatRuntime, CallInv
    <2>2. PICK x \in {"done", "copy"} : Goto(c, x)  BY <1>2 DEF StatRuntime
    <2>3. QED  BY <1>2, <2>1, <2>2, <1>q DEF StatRuntime
  <1>3. CASE StartCopy(c)
    <2>1. DigestIs("final", want[c])  BY <1>0, <1>3 DEF StartCopy, CallInv
    <2>2. /\ src' = [src EXCEPT ![c] = dir["final"]]
          /\ OpenForWriting(c, "tmp") /\ Goto(c, "fill") /\ want' = want
      BY <1>3, <2>1 DEF StartCopy, DigestIs
    <2>3. /\ NamesApart' /\ dir'["tmp"] # None /\ fd'[c] = dir'["tmp"]
          /\ disk'[dir'["tmp"]] = << >>
          /\ \A m \in Names \ {"tmp"} : SameFile(m)
      BY <1>0, <2>2, OpenFiles DEF Names
    <2>4. pc'[c] = "fill" /\ \A d \in Callers \ {c} : pc'[d] = pc[d]
      BY <1>0, <2>2, GotoType DEF InFlight
    <2>5. SameFile("final") /\ SameFile("runtime")  BY <2>3 DEF Names
    <2>6. DigestIs("final", want[c])'
      BY <2>1, <2>2, <2>5 DEF DigestIs, SameFile
    <2>7. src'[c] = dir'["final"]
      BY <1>0, <2>2, <2>5 DEF TypeOK, SameFile
    <2>8. CallInv(c)'  BY <1>w, <2>2, <2>3, <2>4, <2>6, <2>7 DEF CallInv
    <2>9. QED  BY <2>3, <2>4, <2>5, <2>8 DEF FineAfter, CallStep
  <1>4. CASE FillCopy(c)
    <2>1. /\ src[c] = dir["final"] /\ dir["tmp"] # None
          /\ fd[c] = dir["tmp"] /\ disk[dir["tmp"]] = << >>
          /\ DigestIs("final", want[c])
      BY <1>0, <1>4 DEF FillCopy, CallInv
    <2> DEFINE d == [disk EXCEPT ![fd[c]] = CopyOver(@, disk[src[c]])]
    <2>2. dir' = dir /\ SetDisk(d) /\ Goto(c, "install") /\ want' = want
      BY <1>4 DEF FillCopy, CloseAll
    <2>3. \A n \in Names : dir[n] \in Inodes => disk'[dir[n]] = d[dir[n]]
      <3> HIDE DEF d
      <3>1. \A n \in Names : dir'[n] \in Inodes => disk'[dir'[n]] = d[dir'[n]]
        BY <2>2, NamedFileKept
      <3>2. QED  BY <2>2, <3>1
    <2>4. \A n \in Names : dir[n] # None => dir[n] \in Inodes
      BY <1>0 DEF TypeOK
    <2>5. d[dir["tmp"]] = Whole(want[c])
      <3>1. d[dir["tmp"]] = CopyOver(<< >>, Whole(want[c]))
        BY <1>0, <2>1, <2>4 DEF TypeOK, DigestIs, Names
      <3>2. QED  BY <1>w, <3>1, CopyOverEmpty
    <2>6. \A n \in Names \ {"tmp"} : SameFile(n)
      <3>1. \A n \in Names \ {"tmp"} : dir[n] # None => dir[n] # dir["tmp"]
        BY <1>0 DEF NamesApart, Names
      <3>2. \A i \in Inodes : i # dir["tmp"] => d[i] = disk[i]
        BY <1>0, <2>1 DEF TypeOK
      <3> HIDE DEF d
      <3>3. QED  BY <2>2, <2>3, <2>4, <3>1, <3>2 DEF SameFile
    <2> HIDE DEF d
    <2>7. DigestIs("tmp", want[c])'
      BY <2>1, <2>2, <2>3, <2>4, <2>5 DEF DigestIs, Names
    <2>8. pc'[c] = "install" /\ \A e \in Callers \ {c} : pc'[e] = pc[e]
      BY <1>0, <2>2, GotoType DEF InFlight
    <2>9. CallInv(c)'  BY <1>w, <2>2, <2>7, <2>8 DEF CallInv
    <2>10. NamesApart' /\ FineAfter("final") /\ FineAfter("runtime")
      BY <1>0, <2>2, <2>6 DEF NamesApart, FineAfter, Names
    <2>11. QED  BY <2>8, <2>9, <2>10 DEF CallStep
  <1>5. CASE Install(c)
    <2>1. DigestIs("tmp", want[c])  BY <1>0, <1>5 DEF Install, CallInv
    <2>2. /\ Rename("tmp", "runtime") /\ Goto(c, "done") /\ want' = want
          /\ dir["tmp"] # None
      BY <1>5, <2>1 DEF Install, DigestIs
    <2>3. /\ NamesApart'
          /\ \A v : DigestIs("runtime", v)' <=> DigestIs("tmp", v)
          /\ SameFile("final")
      BY <1>0, <2>2, RenameFiles DEF Names
    <2>4. pc'[c] = "done" /\ \A d \in Callers \ {c} : pc'[d] = pc[d]
      BY <1>0, <2>2, GotoType DEF Settled
    <2>5. CallInv(c)'  BY <2>4 DEF CallInv, Running, InFlight
    <2>6. FineAfter("final") /\ FineAfter("runtime")
      BY <1>w, <2>1, <2>3 DEF FineAfter
    <2>7. QED  BY <2>3, <2>4, <2>5, <2>6 DEF CallStep
  <1>6. QED  BY <1>1, <1>2, <1>3, <1>4, <1>5 DEF Materialize

\* A crash leaves the files as they are and its call at rest.
LEMMA CrashStep ==
  ASSUME TypeInv, NamesApart, NEW c \in Callers, CallInv(c), Crash(c)
  PROVE  CallStep(c)
  <1>0. TypeOK /\ Running(c)  BY DEF TypeInv, Crash
  <1>1. NamesApart' /\ FineAfter("final") /\ FineAfter("runtime")
    BY <1>0, EndStreamFiles DEF Crash, FineAfter, Names
  <1>2. CallInv(c)'
    BY <1>0, PlainCallInv DEF Crash, Settled
  <1>3. \A d \in Callers \ {c} : pc'[d] = pc[d]
    BY <1>0, GotoType DEF Crash, Settled
  <1>4. QED  BY <1>1, <1>2, <1>3 DEF CallStep

LEMMA StepRuns ==
  ASSUME NEW c \in Callers, Step(c)
  PROVE  Running(c)
  BY DEF Step, Download, Materialize, Running, InFlight, Probe,
     HashFinal, DropFinal, SweepPart, FetchRefused, FetchThrows, FetchBody,
     WriteBlock, StreamBreaks, FinishBody, RejectBody, Publish, CleanUp,
     Reverify, StatRuntime, StartCopy, FillCopy, Install

\* A call arrives: no file is touched, and it has its plan's digest.
LEMMA BeginStep ==
  ASSUME TypeInv, NamesApart, NEW c \in Callers, NEW v \in Versions, Begin(c, v)
  PROVE  CallStep(c) /\ Running(c)'
  <1>1. TypeOK /\ Goto(c, "probe") /\ want' = [want EXCEPT ![c] = v]
        /\ UNCHANGED <<dir, disk>>
    BY DEF Begin, TypeInv
  <1>2. pc'[c] = "probe" /\ want'[c] = v
    BY <1>1, GotoType DEF TypeOK, InFlight
  <1>3. Running(c)' /\ CallInv(c)'
    BY <1>2 DEF CallInv, Running, InFlight
  <1>4. QED  BY <1>1, <1>3, QuietStep DEF InFlight

-----------------------------------------------------------------------------
(* Overlapping calls, crashes and power failures: what a lone call can rely on *)

\* No step of any call, overlapped or not, makes two names refer to one file.
LEMMA NamesStayApart ==
  ASSUME TypeInv, NamesApart, [Next]_vars
  PROVE  NamesApart'
  <1>0. TypeOK  BY DEF TypeInv
  <1>1. ASSUME dir' = dir  PROVE NamesApart'
    BY <1>1 DEF NamesApart
  <1>2. ASSUME NEW n \in Names, Unlink(n)  PROVE NamesApart'
    BY <1>0, <1>2, UnlinkFiles
  <1>3. ASSUME NEW c \in Callers, NEW n \in Names, OpenForWriting(c, n)
        PROVE  NamesApart'
    BY <1>0, <1>3, OpenFiles
  <1>4. ASSUME NEW m \in Names, NEW n \in Names, m # n, dir[m] # None, Rename(m, n)
        PROVE  NamesApart'
    BY <1>0, <1>4, RenameFiles
  <1>5. ASSUME NEW c \in Callers, Download(c)  PROVE NamesApart'
    <2>1. CASE Probe(c) \/ HashFinal(c) \/ FetchRefused(c) \/ FetchThrows(c)
               \/ WriteBlock(c) \/ StreamBreaks(c) \/ FinishBody(c)
      BY <1>1, <2>1 DEF Probe, HashFinal, FetchRefused, FetchThrows, WriteBlock,
         StreamBreaks, FinishBody, EndStream, CloseAll
    <2>2. CASE DropFinal(c) \/ SweepPart(c) \/ RejectBody(c) \/ CleanUp(c)
      BY <1>2, <2>2 DEF DropFinal, SweepPart, RejectBody, CleanUp, Names
    <2>3. CASE \E b \in Bodies : FetchBody(c, b)
      BY <1>3, <2>3 DEF FetchBody, Names
    <2>4. CASE Publish(c)
      BY <1>1, <1>4, <2>4 DEF Publish, Names
    <2>5. QED  BY <1>5, <2>1, <2>2, <2>3, <2>4 DEF Download
  <1>6. ASSUME NEW c \in Callers, Materialize(c)  PROVE NamesApart'
    <2>1. CASE Reverify(c) \/ StatRuntime(c) \/ FillCopy(c)
      BY <1>1, <2>1 DEF Reverify, StatRuntime, FillCopy, CloseAll
    <2>2. CASE StartCopy(c)
      BY <1>1, <1>3, <2>2 DEF StartCopy, Names
    <2>3. CASE Install(c)
      BY <1>1, <1>4, <2>3 DEF Install, Names
    <2>4. QED  BY <1>6, <2>1, <2>2, <2>3 DEF Materialize
  <1>7. ASSUME NEW c \in Callers, (\E v \in Versions : Begin(c, v)) \/ Crash(c)
        PROVE  NamesApart'
    BY <1>1, <1>7 DEF Begin, Crash, EndStream, CloseAll
  <1>8. CASE PowerFailure \/ UNCHANGED vars
    BY <1>1, <1>8 DEF PowerFailure, vars
  <1>9. QED  BY <1>5, <1>6, <1>7, <1>8 DEF Next, Step

LEMMA NamesApartInit == Init => NamesApart
  BY DEF Init, NamesApart

\* However the calls on a key overlap, crash or are cut off by a power failure,
\* no two of its four file names refer to one file: truncating or unlinking one
\* of them never reaches the bytes of another.
THEOREM NamesNeverShareAFile == Spec => []NamesApart
  BY TypeInit, TypeStep, NamesApartInit, NamesStayApart, PTL DEF Spec

\* A call that nothing overlapped runs alone and can rely on what it established.
\* Of an overlapped call nothing is claimed: its files may be another's.
AloneInv(c) ==
  Running(c) /\ c \notin overlapped
    => /\ CallInv(c)
       /\ \A d \in Callers \ {c} : ~Running(d)

SoloInv ==
  /\ TypeInv
  /\ NamesApart
  /\ \A c \in Callers : AloneInv(c)

LEMMA SoloInit == Init => SoloInv
  <1>1. Init => \A c \in Callers : ~Running(c)  BY DEF Init, Running, InFlight
  <1>2. QED  BY <1>1, TypeInit, NamesApartInit DEF SoloInv, AloneInv

\* A step of a running call c: no other running call is alone, before or after.
LEMMA AloneFromOneStep ==
  ASSUME SoloInv, NEW c \in Callers, Running(c), overlapped' = overlapped,
         \A d \in Callers \ {c} : pc'[d] = pc[d],
         c \notin overlapped => CallInv(c)'
  PROVE  \A d \in Callers : AloneInv(d)'
  <1>1. \A d \in Callers \ {c} : Running(d)' <=> Running(d)  BY DEF Running
  <1>2. AloneInv(c)'  BY <1>1 DEF SoloInv, AloneInv
  <1>3. ASSUME NEW d \in Callers \ {c}  PROVE AloneInv(d)'
    BY <1>1, <1>3 DEF SoloInv, AloneInv
  <1>4. QED  BY <1>2, <1>3

LEMMA SoloStep == SoloInv /\ [Next]_vars => SoloInv'
  <1> SUFFICES ASSUME SoloInv, [Next]_vars PROVE SoloInv'  OBVIOUS
  <1>0. TypeInv /\ TypeOK /\ NamesApart  BY DEF SoloInv, TypeInv
  <1>1. TypeInv' /\ NamesApart'  BY <1>0, TypeStep, NamesStayApart
  <1> SUFFICES \A d \in Callers : AloneInv(d)'  BY <1>1 DEF SoloInv
  <1>2. ASSUME NEW c \in Callers, NEW v \in Versions, Begin(c, v)
        PROVE  \A d \in Callers : AloneInv(d)'
    <2> DEFINE others == {d \in Callers \ {c} : Running(d)}
    <2>1. CallStep(c)  BY <1>0, <1>2, BeginStep
    <2>2. \A d \in Callers \ {c} : Running(d)' <=> Running(d)
      BY <2>1 DEF CallStep, Running
    <2>3. overlapped' = IF others = {} THEN overlapped \ {c}
                                       ELSE overlapped \cup others \cup {c}
      BY <1>2 DEF Begin
    <2>4. CASE others = {}
      BY <2>1, <2>2, <2>4 DEF AloneInv, CallStep
    <2>5. CASE others # {}
      <3>1. c \in overlapped' /\ \A d \in others : d \in overlapped'
        BY <2>3, <2>5
      <3>2. QED  BY <2>2, <3>1 DEF AloneInv
    <2>6. QED  BY <2>4, <2>5
  <1>3. ASSUME NEW c \in Callers, Step(c)
        PROVE  \A d \in Callers : AloneInv(d)'
    <2>1. Running(c)  BY <1>3, StepRuns
    <2>2. overlapped' = overlapped
          /\ (pc' = pc \/ \E x \in Settled \cup InFlight : Goto(c, x))
      BY <1>3 DEF Step, Download, Materialize, Probe, HashFinal, DropFinal,
         SweepPart, FetchRefused, FetchThrows, FetchBody, WriteBlock,
         StreamBreaks, FinishBody, RejectBody, Publish, CleanUp, NextEndpoint,
         Reverify, StatRuntime, StartCopy, FillCopy, Install, Settled, InFlight
    <2>3. \A d \in Callers \ {c} : pc'[d] = pc[d]
      BY <1>0, <2>2, GotoType
    <2>4. c \notin overlapped => CallInv(c)'
      BY <1>0, <1>1, <1>3, <2>1, DownloadStep, MaterializeStep
      DEF Step, CallStep, SoloInv, AloneInv
    <2>5. QED  BY <2>1, <2>2, <2>3, <2>4, AloneFromOneStep
  <1>4. ASSUME NEW c \in Callers, Crash(c)
        PROVE  \A d \in Callers : AloneInv(d)'
    <2>1. Running(c) /\ overlapped' = overlapped /\ Goto(c, "idle")
      BY <1>4 DEF Crash
    <2>2. pc'[c] = "idle" /\ \A d \in Callers \ {c} : pc'[d] = pc[d]
      BY <1>0, <2>1, GotoType DEF Settled
    <2>3. CallInv(c)'  BY <2>2 DEF CallInv, Running, InFlight
    <2>4. QED  BY <2>1, <2>2, <2>3, AloneFromOneStep
  <1>5. CASE PowerFailure
    <2>1. \A d \in Callers : ~Running(d) /\ pc'[d] = pc[d]
      BY <1>5 DEF PowerFailure
    <2>2. QED  BY <2>1 DEF AloneInv, Running
  <1>6. CASE UNCHANGED vars
    <2>1. \A d \in Callers : CallInv(d) => CallInv(d)'
      BY <1>6 DEF vars, CallInv, DigestIs, Running
    <2>2. QED  BY <1>6, <2>1 DEF vars, SoloInv, AloneInv, Running
  <1>7. QED  BY <1>2, <1>3, <1>4, <1>5, <1>6 DEF Next

\* A call of prepare() that no other call on its key overlapped reaches
\* materializeFile only with exactly the bytes of its plan's digest under the
\* published name, whatever earlier overlapping calls, crashes and power
\* failures left there.
THEOREM SoloCallPublishesItsDigest == Spec => []SoloPublishIsWhole
  <1>1. SoloInv => SoloPublishIsWhole
    BY DEF SoloInv, AloneInv, CallInv, SoloPublishIsWhole, Running, InFlight
  <1>2. QED  BY <1>1, SoloInit, SoloStep, PTL DEF Spec

\* Such a call, when it renames its copy into place, leaves exactly the bytes of
\* its digest in the file the engine loads (materializeFile, the copy branch).
SoloInstallMatchesDigest ==
  [][\A c \in Callers :
       c \notin overlapped /\ pc[c] = "install" /\ pc'[c] = "done"
         => DigestIs("runtime", want[c])']_vars

LEMMA SoloInstallStep ==
  SoloInv /\ [Next]_vars
    => [\A c \in Callers :
          c \notin overlapped /\ pc[c] = "install" /\ pc'[c] = "done"
            => DigestIs("runtime", want[c])']_vars
  <1> SUFFICES ASSUME SoloInv, Next, NEW c \in Callers, c \notin overlapped,
                      pc[c] = "install", pc'[c] = "done"
               PROVE  DigestIs("runtime", want[c])'
    OBVIOUS
  <1>0. TypeOK /\ NamesApart /\ Running(c) /\ DigestIs("tmp", want[c])
    BY DEF SoloInv, TypeInv, AloneInv, CallInv, Running, InFlight
  <1>1. ASSUME NEW d \in Callers, Step(d)  PROVE d = c
    <2>1. Running(d)  BY <1>1, StepRuns
    <2>2. QED  BY <1>0, <2>1 DEF SoloInv, AloneInv
  <1>2. ASSUME NEW d \in Callers, NEW v \in Versions, Begin(d, v)  PROVE FALSE
    <2>1. pc'[d] = "probe" /\ \A e \in Callers \ {d} : pc'[e] = pc[e]
      BY <1>0, <1>2, GotoType DEF Begin, InFlight
    <2>2. QED  BY <2>1
  <1>3. ASSUME NEW d \in Callers, Crash(d)  PROVE FALSE
    <2>1. pc'[d] = "idle" /\ \A e \in Callers \ {d} : pc'[e] = pc[e]
      BY <1>0, <1>3, GotoType DEF Crash, Settled
    <2>2. QED  BY <2>1
  <1>4. Step(c)  BY <1>1, <1>2, <1>3 DEF Next, PowerFailure
  <1>5. Install(c)
    BY <1>4 DEF Step, Download, Materialize, Probe, HashFinal, DropFinal,
       SweepPart, FetchRefused, FetchThrows, FetchBody, WriteBlock,
       StreamBreaks, FinishBody, RejectBody, Publish, CleanUp, Reverify,
       StatRuntime, StartCopy, FillCopy
  <1>6. dir["tmp"] # None /\ Rename("tmp", "runtime") /\ want' = want
    BY <1>0, <1>5 DEF Install, DigestIs
  <1>7. \A v : DigestIs("runtime", v)' <=> DigestIs("tmp", v)
    BY <1>0, <1>6, RenameFiles DEF Names
  <1>8. QED  BY <1>0, <1>6, <1>7 DEF DigestIs

\* Whatever overlapping calls and power failures did before, a call that runs
\* alone and installs a copy installs the bytes it was asked for.
THEOREM SoloCallInstallsItsDigest == Spec => SoloInstallMatchesDigest
  BY SoloInit, SoloStep, SoloInstallStep, PTL DEF Spec, SoloInstallMatchesDigest

-----------------------------------------------------------------------------
(* Every step of a call brings its end closer, however the calls overlap *)

\* How far the code of a call is from its end, in one round of the endpoint loop.
Distance ==
  [idle |-> 0, done |-> 0, failed |-> 0, install |-> 1, fill |-> 2, copy |-> 3,
   stat |-> 4, reverify |-> 5, cleanup |-> 6, publish |-> 7, reject |-> 7,
   write |-> 8, fetch |-> 9, sweep |-> 10, drop |-> 11, hash |-> 12, probe |-> 13]

\* The rounds that c's call may still start.
RoundsLeft(c) ==
  IF pc[c] \in {"probe", "hash", "drop", "sweep"} THEN Endpoints
  ELSE IF pc[c] \in {"fetch", "write", "reject", "publish", "cleanup"}
       THEN Endpoints - ep[c]
       ELSE 0

Stage(c) == 10 * RoundsLeft(c) + Distance[pc[c]]

\* The blocks that c's stream has yet to write.
BlocksLeft(c) == IF pc[c] = "write" THEN Size[body[c]] - off[c] ELSE 0

\* c's call gets closer to its end: in its stage, or in the stage it is in with
\* the blocks of its body.  Both are natural numbers.
Closer(c) ==
  \/ Stage(c)' \in 0..(Stage(c) - 1)
  \/ Stage(c)' = Stage(c) /\ BlocksLeft(c)' \in 0..(BlocksLeft(c) - 1)

AsFar(c) == Stage(c)' = Stage(c) /\ BlocksLeft(c)' = BlocksLeft(c)

\* The finite descent under EveryCallSettles: no step of another call, no crash
\* and no power failure takes a running call back, and each of its own steps takes
\* it forward, through the endpoint loop, the body and the copy.
StepsLeadToTheEnd ==
  [][\A c \in Callers :
       /\ Running(c) => Closer(c) \/ AsFar(c)
       /\ Step(c) => Closer(c)]_vars

LEMMA DistanceType ==
  ASSUME NEW x \in Settled \cup InFlight
  PROVE  Distance[x] \in 0..13 /\ (x \in InFlight => Distance[x] > 0)
  BY DEF Settled, InFlight, Distance

LEMMA StageType ==
  /\ \A c \in Callers : TypeOK =>
       /\ Stage(c) \in Nat /\ RoundsLeft(c) \in Nat /\ Distance[pc[c]] \in Nat
       /\ Running(c) => Stage(c) > 0
  /\ \A c \in Callers : TypeOK' =>
       /\ Stage(c)' \in Nat /\ RoundsLeft(c)' \in Nat /\ Distance[pc'[c]] \in Nat
  <1> USE DistanceType, PrepareAssumption
  <1>1. ASSUME NEW c \in Callers, TypeOK
        PROVE  /\ Stage(c) \in Nat /\ RoundsLeft(c) \in Nat /\ Distance[pc[c]] \in Nat
               /\ Running(c) => Stage(c) > 0
    <2>1. Distance[pc[c]] \in 0..13  BY <1>1 DEF TypeOK
    <2>2. RoundsLeft(c) \in Nat  BY <1>1 DEF TypeOK, RoundsLeft
    <2>3. Running(c) => Distance[pc[c]] > 0  BY <1>1 DEF TypeOK, Running
    <2>4. QED  BY <2>1, <2>2, <2>3 DEF Stage
  <1>2. ASSUME NEW c \in Callers, TypeOK'
        PROVE  Stage(c)' \in Nat /\ RoundsLeft(c)' \in Nat /\ Distance[pc'[c]] \in Nat
    <2>1. Distance[pc'[c]] \in 0..13  BY <1>2 DEF TypeOK
    <2>2. RoundsLeft(c)' \in Nat  BY <1>2 DEF TypeOK, RoundsLeft
    <2>3. QED  BY <2>1, <2>2 DEF Stage
  <1>3. QED  BY <1>1, <1>2

\* A step that leaves c's place, endpoint and body alone.
LEMMA OthersKeepDistance ==
  ASSUME NEW c \in Callers, pc'[c] = pc[c], ep'[c] = ep[c],
         body'[c] = body[c], off'[c] = off[c]
  PROVE  AsFar(c)
  BY DEF AsFar, Stage, RoundsLeft, BlocksLeft

\* c's call moves on, in the same round or after the endpoint loop.
LEMMA MovesOn ==
  ASSUME TypeOK, TypeOK', NEW c \in Callers, RoundsLeft(c)' <= RoundsLeft(c),
         Distance[pc'[c]] < Distance[pc[c]]
  PROVE  Closer(c)
  <1>1. Stage(c)' \in Nat /\ Stage(c) \in Nat
        /\ RoundsLeft(c) \in Nat /\ RoundsLeft(c)' \in Nat
        /\ Distance[pc[c]] \in Nat /\ Distance[pc'[c]] \in Nat
    BY StageType
  <1>2. Stage(c)' < Stage(c)  BY <1>1 DEF Stage
  <1>3. QED  BY <1>1, <1>2 DEF Closer

\* The next endpoint is a round less, and a throw after the last one is the end.
LEMMA NextEndpointIsCloser ==
  ASSUME TypeOK, TypeOK', NEW c \in Callers, pc[c] \in {"fetch", "cleanup"}, NextEndpoint(c)
  PROVE  Closer(c) /\ \A d \in Callers \ {c} : pc'[d] = pc[d] /\ ep'[d] = ep[d]
  <1>1. ep \in [Callers -> 1..Endpoints] /\ Endpoints \in Nat
    BY PrepareAssumption DEF TypeOK
  <1>2. CASE ep[c] < Endpoints
    <2>1. /\ pc'[c] = "fetch" /\ ep'[c] = ep[c] + 1
          /\ \A d \in Callers \ {c} : pc'[d] = pc[d] /\ ep'[d] = ep[d]
      BY <1>1, <1>2, GotoType DEF NextEndpoint, InFlight
    <2>2. Stage(c)' = 10 * (Endpoints - (ep[c] + 1)) + 9
      BY <2>1 DEF Stage, RoundsLeft, Distance
    <2>3. Stage(c) \in 10 * (Endpoints - ep[c]) + 6 .. 10 * (Endpoints - ep[c]) + 9
      BY <1>1 DEF Stage, RoundsLeft, Distance
    <2>4. Stage(c)' \in 0..(Stage(c) - 1)  BY <1>1, <1>2, <2>2, <2>3
    <2>5. QED  BY <2>1, <2>4 DEF Closer
  <1>3. CASE ~(ep[c] < Endpoints)
    <2>1. /\ pc'[c] = "failed"
          /\ \A d \in Callers \ {c} : pc'[d] = pc[d] /\ ep'[d] = ep[d]
      BY <1>1, <1>3, GotoType DEF NextEndpoint, Settled
    <2>2. Stage(c)' = 0  BY <2>1 DEF Stage, RoundsLeft, Distance
    <2>3. Stage(c) \in Nat /\ Stage(c) > 0  BY StageType DEF Running, InFlight
    <2>4. QED  BY <2>1, <2>2, <2>3 DEF Closer
  <1>4. QED  BY <1>2, <1>3

LEMMA StepIsCloser ==
  ASSUME TypeInv, TypeOK', NEW c \in Callers, Step(c)
  PROVE  /\ Closer(c)
         /\ \A d \in Callers \ {c} :
              pc'[d] = pc[d] /\ ep'[d] = ep[d] /\ body'[d] = body[d] /\ off'[d] = off[d]
  <1> DEFINE Apart == \A d \in Callers \ {c} :
                        pc'[d] = pc[d] /\ ep'[d] = ep[d] /\ body'[d] = body[d] /\ off'[d] = off[d]
  <1>0. /\ TypeOK /\ Endpoints \in Nat \ {0} /\ ep[c] \in 1..Endpoints
        /\ ep \in [Callers -> 1..Endpoints] /\ body \in [Callers -> Bodies \cup {None}]
        /\ off \in [Callers -> Nat] /\ pc \in [Callers -> Settled \cup InFlight]
    BY PrepareAssumption DEF TypeInv, TypeOK
  \* A step that goes to x and keeps the endpoint.
  <1>1. ASSUME NEW x \in {"done", "failed"} \cup InFlight, Goto(c, x), ep' = ep,
               \A d \in Callers \ {c} : body'[d] = body[d] /\ off'[d] = off[d],
               Distance[x] < Distance[pc[c]],
               x \in {"write", "reject", "publish", "cleanup"} =>
                 pc[c] \in {"fetch", "write", "reject", "publish"},
               x = "fetch" => pc[c] = "sweep"
        PROVE  Closer(c) /\ Apart
    <2>1. pc'[c] = x /\ \A d \in Callers \ {c} : pc'[d] = pc[d]
      BY <1>0, <1>1, GotoType DEF Settled
    <2>2. RoundsLeft(c)' <= RoundsLeft(c)
      <3>1. x \in {"probe", "hash", "drop", "sweep"} =>
              pc[c] \in {"probe", "hash", "drop", "sweep"}
        BY <1>0, <1>1 DEF Distance, Settled, InFlight
      <3>2. QED  BY <1>0, <1>1, <2>1, <3>1 DEF RoundsLeft
    <2>3. QED  BY <1>0, <1>1, <2>1, <2>2, MovesOn
  <1>2. CASE Probe(c)  BY <1>1, <1>2 DEF Probe, InFlight, Distance
  <1>3. CASE HashFinal(c)  BY <1>1, <1>3 DEF HashFinal, InFlight, Distance
  <1>4. CASE DropFinal(c)  BY <1>1, <1>4 DEF DropFinal, InFlight, Distance
  <1>5. CASE SweepPart(c)  BY <1>1, <1>5 DEF SweepPart, InFlight, Distance
  <1>6. CASE FetchRefused(c)  BY <1>0, <1>6, NextEndpointIsCloser DEF FetchRefused
  <1>7. CASE FetchThrows(c)  BY <1>1, <1>7 DEF FetchThrows, InFlight, Distance
  <1>8. ASSUME NEW b \in Bodies, FetchBody(c, b) PROVE Closer(c) /\ Apart
    <2>1. \A d \in Callers \ {c} : body'[d] = body[d] /\ off'[d] = off[d]
      BY <1>0, <1>8 DEF FetchBody
    <2>2. QED  BY <1>1, <1>8, <2>1 DEF FetchBody, InFlight, Distance
  <1>9. CASE WriteBlock(c)
    <2>1. /\ pc[c] = "write" /\ off[c] \in Nat /\ Size[body[c]] \in Nat
          /\ off[c] < Size[body[c]] /\ UNCHANGED <<pc, ep, body>>
          /\ off'[c] = off[c] + 1 /\ \A d \in Callers \ {c} : off'[d] = off[d]
      BY <1>0, <1>9, SizeIsPositive DEF WriteBlock, TypeInv
    <2>2. Stage(c)' = Stage(c)  BY <2>1 DEF Stage, RoundsLeft
    <2>3. BlocksLeft(c)' = Size[body[c]] - (off[c] + 1)
      BY <2>1 DEF BlocksLeft
    <2>4. BlocksLeft(c) = Size[body[c]] - off[c]  BY <2>1 DEF BlocksLeft
    <2>5. BlocksLeft(c)' \in 0..(BlocksLeft(c) - 1)  BY <2>1, <2>3, <2>4
    <2>6. QED  BY <2>1, <2>2, <2>5 DEF Closer
  <1>10. CASE StreamBreaks(c) \/ FinishBody(c)
    <2>1. \A d \in Callers \ {c} : body'[d] = body[d] /\ off'[d] = off[d]
      BY <1>0, <1>10 DEF StreamBreaks, FinishBody, EndStream
    <2>2. QED
      BY <1>1, <1>10, <2>1 DEF StreamBreaks, FinishBody, InFlight, Distance
  <1>11. CASE RejectBody(c)  BY <1>1, <1>11 DEF RejectBody, InFlight, Distance
  <1>12. CASE Publish(c)
    <2>1. CASE dir["part"] = None
      BY <1>1, <1>12, <2>1 DEF Publish, InFlight, Distance
    <2>2. CASE dir["part"] # None
      <3>1. /\ pc[c] = "publish" /\ pc'[c] = "stat"
            /\ \A d \in Callers \ {c} : pc'[d] = pc[d] /\ ep'[d] = ep[d]
            /\ UNCHANGED <<body, off>>
        BY <1>0, <1>12, <2>2, GotoType DEF Publish, InFlight
      <3>2. RoundsLeft(c)' <= RoundsLeft(c)  BY <1>0, <3>1 DEF RoundsLeft
      <3>3. Distance[pc'[c]] < Distance[pc[c]]  BY <3>1 DEF Distance
      <3>4. QED  BY <1>0, <3>1, <3>2, <3>3, MovesOn
    <2>3. QED  BY <2>1, <2>2
  <1>13. CASE CleanUp(c)  BY <1>0, <1>13, NextEndpointIsCloser DEF CleanUp
  <1>14. CASE Reverify(c)  BY <1>1, <1>14 DEF Reverify, InFlight, Distance
  <1>15. CASE StatRuntime(c)  BY <1>1, <1>15 DEF StatRuntime, InFlight, Distance
  <1>16. CASE StartCopy(c)  BY <1>1, <1>16 DEF StartCopy, InFlight, Distance
  <1>17. CASE FillCopy(c)  BY <1>1, <1>17 DEF FillCopy, InFlight, Distance
  <1>18. CASE Install(c)  BY <1>1, <1>18 DEF Install, InFlight, Distance
  <1>19. QED
    BY <1>2, <1>3, <1>4, <1>5, <1>6, <1>7, <1>8, <1>9, <1>10, <1>11, <1>12, <1>13,
       <1>14, <1>15, <1>16, <1>17, <1>18
    DEF Step, Download, Materialize

LEMMA DescentStep ==
  TypeInv /\ TypeInv' /\ [Next]_vars =>
    [\A c \in Callers : /\ Running(c) => Closer(c) \/ AsFar(c)
                        /\ Step(c) => Closer(c)]_vars
  <1> SUFFICES ASSUME TypeInv, TypeInv', Next, NEW c \in Callers
               PROVE  (Running(c) => Closer(c) \/ AsFar(c)) /\ (Step(c) => Closer(c))
    OBVIOUS
  <1>0. TypeOK /\ TypeOK'  BY DEF TypeInv
  <1>1. Step(c) => Closer(c)  BY <1>0, StepIsCloser
  <1>2. ASSUME Running(c), NEW d \in Callers, Step(d)  PROVE Closer(c) \/ AsFar(c)
    BY <1>0, <1>1, <1>2, StepIsCloser, OthersKeepDistance
  <1>3. ASSUME Running(c), NEW d \in Callers, NEW v \in Versions, Begin(d, v)
        PROVE  AsFar(c)
    <2>1. d # c /\ pc'[c] = pc[c] /\ UNCHANGED <<ep, body, off>>
      BY <1>0, <1>3, GotoType DEF Begin, InFlight
    <2>2. QED  BY <2>1, OthersKeepDistance
  <1>4. ASSUME Running(c), NEW d \in Callers, Crash(d)  PROVE Closer(c) \/ AsFar(c)
    <2>1. CASE d = c
      <3>1. pc'[c] = "idle"  BY <1>0, <1>4, <2>1, GotoType DEF Crash, Settled
      <3>2. Stage(c)' = 0  BY <3>1 DEF Stage, RoundsLeft, Distance
      <3>3. Stage(c) \in Nat /\ Stage(c) > 0  BY <1>0, <1>4, StageType
      <3>4. QED  BY <3>2, <3>3 DEF Closer
    <2>2. CASE d # c
      <3>1. /\ pc'[c] = pc[c] /\ ep'[c] = ep[c]
            /\ body'[c] = body[c] /\ off'[c] = off[c]
        BY <1>0, <1>4, <2>2, GotoType DEF Crash, EndStream, Settled, TypeOK
      <3>2. QED  BY <3>1, OthersKeepDistance
    <2>3. QED  BY <2>1, <2>2
  <1>5. CASE PowerFailure  BY <1>1, <1>5, OthersKeepDistance DEF PowerFailure
  <1>6. QED  BY <1>1, <1>2, <1>3, <1>4, <1>5 DEF Next

\* For any callers, endpoints and sizes, and however calls delete each other's
\* files: a call takes a bounded number of steps, and nothing sends it back.
THEOREM EveryStepLeadsToTheEnd == Spec => StepsLeadToTheEnd
  BY TypeInit, TypeStep, DescentStep, PTL DEF Spec, StepsLeadToTheEnd

-----------------------------------------------------------------------------
(* Calls that do not overlap: the inductive invariant *)

SerialInv ==
  /\ TypeInv
  /\ OneAtATime
  /\ NamesApart
  /\ PublishedIsWhole
  /\ RuntimeIsWhole
  /\ \A c \in Callers : CallInv(c)

LEMMA SerialInit == Init => SerialInv
  <1> SUFFICES ASSUME Init PROVE SerialInv  OBVIOUS
  <1>1. TypeInv  BY TypeInit
  <1>2. \A c \in Callers : pc[c] = "idle" /\ ~Running(c)
    BY DEF Init, Running, InFlight
  <1>3. \A n \in Names : dir[n] = None  BY DEF Init
  <1>4. NamesApart /\ PublishedIsWhole /\ RuntimeIsWhole
    BY <1>3 DEF NamesApart, PublishedIsWhole, RuntimeIsWhole, Names
  <1>5. \A c \in Callers : CallInv(c)  BY <1>2 DEF CallInv
  <1>6. QED  BY <1>1, <1>2, <1>4, <1>5 DEF SerialInv, OneAtATime

\* A step of c's when no other call runs: only c's place matters.
LEMMA OneCallStep ==
  ASSUME SerialInv, TypeInv', OneAtATime',
         NEW c \in Callers, Running(c) \/ Running(c)', CallStep(c)
  PROVE  SerialInv'
  <1>1. PublishedIsWhole'
    BY SameFileSameDigest DEF SerialInv, PublishedIsWhole, FineAfter, SameFile, DigestIs,
       Names, CallStep
  <1>2. RuntimeIsWhole'
    BY SameFileSameDigest DEF SerialInv, RuntimeIsWhole, FineAfter, SameFile, DigestIs,
       Names, CallStep
  <1>3. ASSUME NEW d \in Callers \ {c}  PROVE CallInv(d)'
    <2>1. ~Running(d)'
      BY DEF SerialInv, OneAtATime, Running, CallStep
    <2>2. QED  BY <2>1 DEF CallInv, Running, InFlight
  <1>4. QED  BY <1>1, <1>2, <1>3 DEF SerialInv, CallStep

\* A machine that keeps what was written.
LEMMA SerialStep ==
  ASSUME ~PowerLoss
  PROVE  SerialInv /\ [Next /\ OneAtATime']_vars => SerialInv'
  <1> SUFFICES ASSUME SerialInv, [Next /\ OneAtATime']_vars PROVE SerialInv'
    OBVIOUS
  <1>0. TypeInv'  BY TypeStep DEF SerialInv
  <1>1. CASE UNCHANGED vars
    <2>1. \A c \in Callers : CallInv(c)'
      BY <1>1 DEF vars, SerialInv, CallInv, DigestIs, Running
    <2>2. QED
      BY <1>0, <1>1, <2>1 DEF vars, SerialInv, OneAtATime, Running, NamesApart,
         PublishedIsWhole, RuntimeIsWhole, DigestIs
  <1>2. ASSUME OneAtATime', NEW c \in Callers, NEW v \in Versions, Begin(c, v)
        PROVE  SerialInv'
    BY <1>0, <1>2, BeginStep, OneCallStep DEF SerialInv
  <1>3. ASSUME OneAtATime', NEW c \in Callers, Step(c)
        PROVE  SerialInv'
    <2>1. CallInv(c)  BY DEF SerialInv
    <2>2. CallStep(c)
      BY <1>0, <1>3, <2>1, DownloadStep, MaterializeStep DEF Step, SerialInv
    <2>3. QED  BY <1>0, <1>3, <2>2, StepRuns, OneCallStep
  <1>4. ASSUME OneAtATime', NEW c \in Callers, Crash(c)
        PROVE  SerialInv'
    <2>1. CallInv(c) /\ Running(c)  BY <1>4 DEF SerialInv, Crash
    <2>2. CallStep(c)  BY <1>4, <2>1, CrashStep DEF SerialInv
    <2>3. QED  BY <1>0, <1>4, <2>1, <2>2, OneCallStep
  <1>5. ~PowerFailure  BY DEF PowerFailure
  <1>6. QED  BY <1>1, <1>2, <1>3, <1>4, <1>5 DEF Next

\* Whatever the calls, crashes and stale .part and .tmp files of the past, the
\* published name holds every byte of a version some plan claimed, as long as
\* calls on the key do not overlap and the machine keeps what was written.
THEOREM SerialPublishedIsWhole ==
  ASSUME ~PowerLoss
  PROVE  SerialSpec => []PublishedIsWhole
  <1>1. SerialInv => PublishedIsWhole  BY DEF SerialInv
  <1>2. QED  BY <1>1, SerialInit, SerialStep, PTL DEF SerialSpec

-----------------------------------------------------------------------------
(* What a call returns, and the refinement *)

\* The size comparison of materializeFile tells the versions of a key apart.
SizeTellsVersions == \A a, b \in Versions : Size[a] = Size[b] => a = b

\* The two ways to return: the runtime file already has the right length, or
\* the new copy takes its place.
LEMMA ReturnLemma ==
  ASSUME SizeTellsVersions, SerialInv, NEW c \in Callers, Step(c), pc'[c] = "done"
  PROVE  /\ DigestIs("runtime", want[c])'
         /\ want' = want
  <1>0. TypeOK /\ NamesApart /\ CallInv(c)  BY DEF SerialInv, TypeInv
  <1>1. StatRuntime(c) \/ Install(c)
    <2>1. ASSUME NEW x \in Settled \cup InFlight, Goto(c, x), x # "done"
          PROVE  FALSE
      BY <1>0, <2>1, GotoType
    <2>2. ~Download(c)
      <3>1. ASSUME Download(c)
            PROVE  pc' = pc \/ \E x \in InFlight \cup {"failed"} : Goto(c, x)
        BY <3>1 DEF Download, Probe, HashFinal, DropFinal, SweepPart,
           FetchRefused, FetchThrows, FetchBody, WriteBlock, StreamBreaks,
           FinishBody, RejectBody, Publish, CleanUp, NextEndpoint, InFlight
      <3>2. pc[c] # "done" \/ ~Download(c)
        BY DEF Download, Probe, HashFinal, DropFinal, SweepPart,
           FetchRefused, FetchThrows, FetchBody, WriteBlock, StreamBreaks,
           FinishBody, RejectBody, Publish, CleanUp
      <3>3. QED  BY <2>1, <3>1, <3>2 DEF InFlight, Settled
    <2>3. ~(Reverify(c) \/ StartCopy(c) \/ FillCopy(c))
      BY <2>1 DEF Reverify, StartCopy, FillCopy, InFlight, Settled
    <2>4. QED  BY <2>2, <2>3 DEF Step, Materialize
  <1>2. CASE StatRuntime(c)
    <2>1. SameSize /\ UNCHANGED <<dir, disk, want>>
      <3>1. SameSize \/ Goto(c, "copy")  BY <1>2 DEF StatRuntime
      <3>2. ~Goto(c, "copy")  BY <1>0, GotoType DEF InFlight
      <3>3. QED  BY <1>2, <3>1, <3>2 DEF StatRuntime
    <2>2. DigestIs("final", want[c]) /\ want[c] \in Versions
      BY <1>0, <1>2 DEF StatRuntime, CallInv, Running, InFlight
    <2>3. PICK v \in Versions : DigestIs("runtime", v)
      BY <2>1 DEF SameSize, SerialInv, RuntimeIsWhole
    <2>4. Len(Whole(v)) = Size[v] /\ Len(Whole(want[c])) = Size[want[c]]
      BY <2>2, WholeType, PrepareAssumption
    <2>5. Size[v] = Size[want[c]]
      BY <2>1, <2>2, <2>3, <2>4 DEF SameSize, DigestIs
    <2>6. v = want[c]  BY <2>2, <2>5 DEF SizeTellsVersions
    <2>7. QED  BY <2>1, <2>3, <2>6 DEF DigestIs
  <1>3. CASE Install(c)
    <2>1. DigestIs("tmp", want[c])  BY <1>0, <1>3 DEF Install, CallInv
    <2>2. /\ Rename("tmp", "runtime") /\ want' = want /\ dir["tmp"] # None
      BY <1>3, <2>1 DEF Install, DigestIs
    <2>3. \A v : DigestIs("runtime", v)' <=> DigestIs("tmp", v)
      BY <1>0, <2>2, RenameFiles DEF Names
    <2>4. QED  BY <2>1, <2>2, <2>3 DEF DigestIs
  <1>4. QED  BY <1>1, <1>2, <1>3

\* No other step of a call moves the engine's file or changes its bytes.
LEMMA RuntimeKept ==
  ASSUME SerialInv, NEW c \in Callers, Step(c) \/ Crash(c), ~Install(c)
  PROVE  SameFile("runtime")
  <1>0. TypeOK /\ NamesApart /\ CallInv(c)  BY DEF SerialInv, TypeInv
  <1>1. ASSUME UNCHANGED <<dir, disk>> PROVE SameFile("runtime")
    BY <1>1 DEF SameFile
  <1>2. ASSUME NEW n \in {"part", "final"}, Unlink(n) PROVE SameFile("runtime")
    BY <1>0, <1>2, UnlinkFiles DEF Names
  <1>3. ASSUME EndStream(c) PROVE SameFile("runtime")
    BY <1>0, <1>3, EndStreamFiles DEF Names
  <1>4. ASSUME NEW n \in {"part", "tmp"}, OpenForWriting(c, n)
        PROVE  SameFile("runtime")
    BY <1>0, <1>4, OpenFiles DEF Names
  <1>5. CASE Publish(c)
    <2>1. CASE dir["part"] = None  BY <1>1, <1>5, <2>1 DEF Publish
    <2>2. CASE dir["part"] # None
      <3>1. Rename("part", "final")  BY <1>5, <2>2 DEF Publish
      <3>2. QED  BY <1>0, <2>2, <3>1, RenameFiles DEF Names
    <2>3. QED  BY <2>1, <2>2
  <1>6. ASSUME NEW d, dir' = dir, SetDisk(d),
               \A i \in Inodes : i # dir["tmp"] => d[i] = disk[i]
        PROVE  SameFile("runtime")
    <2>1. dir["runtime"] # None => dir["runtime"] # dir["tmp"] /\ dir["runtime"] \in Inodes
      BY <1>0 DEF NamesApart, Names, TypeOK
    <2>2. dir["runtime"] # None => disk'[dir["runtime"]] = d[dir["runtime"]]
      BY <1>6, <2>1, NamedFileKept DEF Names
    <2>3. QED  BY <1>6, <2>1, <2>2 DEF SameFile
  <1>7. CASE WriteBlock(c)
    <2>1. /\ dir' = dir /\ fd[c] = dir["part"]
          /\ disk' = [disk EXCEPT ![fd[c]] = WriteAt(@, off[c], body[c])]
      BY <1>0, <1>7 DEF WriteBlock, CallInv
    <2>2. \A i \in Inodes : i # dir["part"] => disk'[i] = disk[i]
      BY <1>0, <2>1 DEF TypeOK
    <2>3. dir["runtime"] # None => dir["runtime"] # dir["part"] /\ dir["runtime"] \in Inodes
      BY <1>0 DEF NamesApart, Names, TypeOK
    <2>4. QED  BY <2>1, <2>2, <2>3 DEF SameFile
  <1>8. CASE FillCopy(c)
    <2> DEFINE d == [disk EXCEPT ![fd[c]] = CopyOver(@, disk[src[c]])]
    <2>1. dir' = dir /\ fd[c] = dir["tmp"] /\ SetDisk(d)
      BY <1>0, <1>8 DEF FillCopy, CloseAll, CallInv
    <2>2. \A i \in Inodes : i # dir["tmp"] => d[i] = disk[i]
      BY <1>0, <2>1 DEF TypeOK
    <2> HIDE DEF d
    <2>3. QED  BY <2>1, <2>2, <1>6
  <1>9. CASE StartCopy(c)
    BY <1>1, <1>4, <1>9 DEF StartCopy
  <1>10. CASE DropFinal(c) \/ SweepPart(c) \/ RejectBody(c) \/ CleanUp(c)
    BY <1>2, <1>10 DEF DropFinal, SweepPart, RejectBody, CleanUp
  <1>11. CASE StreamBreaks(c) \/ FinishBody(c) \/ Crash(c)
    BY <1>3, <1>11 DEF StreamBreaks, FinishBody, Crash
  <1>12. CASE \E b \in Bodies : FetchBody(c, b)
    BY <1>4, <1>12 DEF FetchBody
  <1>13. CASE Probe(c) \/ HashFinal(c) \/ FetchRefused(c) \/ FetchThrows(c)
              \/ Reverify(c) \/ StatRuntime(c)
    BY <1>1, <1>13 DEF Probe, HashFinal, FetchRefused, FetchThrows, Reverify,
       StatRuntime
  <1>14. QED
    BY <1>5, <1>7, <1>8, <1>9, <1>10, <1>11, <1>12, <1>13
    DEF Step, Download, Materialize

LEMMA ReturnsRight ==
  ASSUME ~PowerLoss, SizeTellsVersions
  PROVE  SerialInv /\ [Next /\ OneAtATime']_vars
           => [\A c \in Callers : Returns(c) => DigestIs("runtime", want[c])']_vars
  <1> SUFFICES ASSUME SerialInv, Next, NEW c \in Callers, Returns(c)
               PROVE  DigestIs("runtime", want[c])'
    OBVIOUS
  <1>0. TypeOK  BY DEF SerialInv, TypeInv
  <1>1. ASSUME NEW d \in Callers, NEW v \in Versions, Begin(d, v)
        PROVE  FALSE
    <2>1. pc'[d] = "probe" /\ \A e \in Callers \ {d} : pc'[e] = pc[e]
      BY <1>0, <1>1, GotoType DEF Begin, InFlight
    <2>2. QED  BY <2>1 DEF Returns
  <1>2. ASSUME NEW d \in Callers, Crash(d)
        PROVE  FALSE
    <2>1. pc'[d] = "idle" /\ \A e \in Callers \ {d} : pc'[e] = pc[e]
      BY <1>0, <1>2, GotoType DEF Crash, Settled
    <2>2. QED  BY <2>1 DEF Returns
  <1>3. ASSUME NEW d \in Callers, Step(d)
        PROVE  d = c
    <2>1. pc' = pc \/ \E x \in Settled \cup InFlight : Goto(d, x)
      BY <1>3 DEF Step, Download, Materialize, Probe, HashFinal, DropFinal,
         SweepPart, FetchRefused, FetchThrows, FetchBody, WriteBlock,
         StreamBreaks, FinishBody, RejectBody, Publish, CleanUp, NextEndpoint,
         Reverify, StatRuntime, StartCopy, FillCopy, Install, Settled, InFlight
    <2>2. \A e \in Callers \ {d} : pc'[e] = pc[e]
      BY <1>0, <2>1, GotoType
    <2>3. QED  BY <2>2 DEF Returns
  <1>4. Step(c)  BY <1>1, <1>2, <1>3 DEF Next, PowerFailure
  <1>5. QED  BY <1>4, ReturnLemma DEF Returns

\* When versions of a key differ in length and calls do not overlap, a call
\* that returns leaves exactly the bytes of the digest it was asked for in the
\* file the engine loads.
THEOREM SerialPreparedBytesMatch ==
  ASSUME ~PowerLoss, SizeTellsVersions
  PROVE  SerialSpec => PreparedBytesMatch
  BY SerialInit, SerialStep, ReturnsRight, PTL DEF SerialSpec, PreparedBytesMatch

LEMMA SlotIs ==
  ASSUME NEW v \in Versions, DigestIs("runtime", v)
  PROVE  Slot = v
  <1>1. \A w \in Versions : DigestIs("runtime", w) => w = v
    BY WholeInjective, PrepareAssumption DEF DigestIs
  <1>2. dir["runtime"] # None  BY DEF DigestIs
  <1>3. QED  BY <1>1, <1>2 DEF Slot

\* The abstract slot changes only when the engine's file does.
LEMMA SlotKept ==
  ASSUME SerialInv, SameFile("runtime")
  PROVE  Slot' = Slot
  <1>1. CASE dir["runtime"] = None
    BY <1>1 DEF SameFile, Slot
  <1>2. CASE dir["runtime"] # None
    <2>1. PICK v \in Versions : DigestIs("runtime", v)
      BY <1>2 DEF SerialInv, RuntimeIsWhole
    <2>2. DigestIs("runtime", v)'  BY <2>1 DEF SameFile, DigestIs
    <2>3. Slot = v  BY <2>1, SlotIs
    <2>4. Slot' = v
      <3>1. \A w \in Versions : DigestIs("runtime", w)' => w = v
        BY <2>2, WholeInjective, PrepareAssumption DEF DigestIs
      <3>2. dir'["runtime"] # None  BY <2>2 DEF DigestIs
      <3>3. QED  BY <2>2, <3>1, <3>2 DEF Slot
    <2>5. QED  BY <2>3, <2>4
  <1>3. QED  BY <1>1, <1>2

\* How far each call is, for the abstract specification.
Call == [c \in Callers |-> IF Running(c) THEN "running" ELSE pc[c]]

\* A step that leaves the engine's file and every digest asked for alone.
LEMMA CallMoves ==
  ASSUME TypeOK, NEW c \in Callers, NEW x \in Settled \cup InFlight, Goto(c, x)
  PROVE  Call' = [Call EXCEPT ![c] = IF x \in InFlight THEN "running" ELSE x]
  <1>1. pc' = [pc EXCEPT ![c] = x]  BY DEF Goto
  <1>2. pc'[c] = x /\ \A d \in Callers \ {c} : pc'[d] = pc[d]  BY GotoType
  <1>3. QED  BY <1>2 DEF Call, Running

LEMMA RefineInit == Init => Cache!Init
  BY DEF Init, Cache!Init, Slot, Running, InFlight, Names

LEMMA RefineStep ==
  ASSUME ~PowerLoss, SizeTellsVersions
  PROVE  SerialInv /\ [Next /\ OneAtATime']_vars => [Cache!Next]_(Cache!vars)
  <1> SUFFICES ASSUME SerialInv, [Next /\ OneAtATime']_vars
               PROVE  Cache!Next \/ (Slot' = Slot /\ Call' = Call /\ want' = want)
    BY DEF Cache!vars, Call
  <1>0. TypeOK  BY DEF SerialInv, TypeInv
  <1>1. CASE UNCHANGED vars
    <2>1. SameFile("runtime")  BY <1>1 DEF vars, SameFile
    <2>2. QED  BY <1>1, <2>1, SlotKept DEF vars, Call, Running
  <1>2. ASSUME NEW c \in Callers, NEW v \in Versions, Begin(c, v)
        PROVE  Cache!Next
    <2>1. Call' = [Call EXCEPT ![c] = "running"]
      BY <1>0, <1>2, CallMoves DEF Begin, InFlight
    <2>2. Call[c] # "running"
      BY <1>0, <1>2 DEF Begin, Call, Running, TypeOK, InFlight, Settled
    <2>3. Slot' = Slot
      <3>1. SameFile("runtime")  BY <1>2 DEF Begin, SameFile
      <3>2. QED  BY <3>1, SlotKept
    <2>4. Cache!Begin(c, v)
      BY <1>2, <2>1, <2>2, <2>3 DEF Cache!Begin, Call, Begin
    <2>5. QED  BY <2>4 DEF Cache!Next
  <1>3. ASSUME NEW c \in Callers, Step(c)
        PROVE  Cache!Next \/ (Slot' = Slot /\ Call' = Call /\ want' = want)
    <2>1. Running(c)
      BY <1>3 DEF Step, Download, Materialize, Running, InFlight, Probe,
         HashFinal, DropFinal, SweepPart, FetchRefused, FetchThrows, FetchBody,
         WriteBlock, StreamBreaks, FinishBody, RejectBody, Publish, CleanUp,
         Reverify, StatRuntime, StartCopy, FillCopy, Install
    <2>2. want' = want
      BY <1>3 DEF Step, Download, Materialize, Probe, HashFinal, DropFinal,
         SweepPart, FetchRefused, FetchThrows, FetchBody, WriteBlock,
         StreamBreaks, FinishBody, RejectBody, Publish, CleanUp, Reverify,
         StatRuntime, StartCopy, FillCopy, Install
    <2>3. pc' = pc \/ \E x \in {"done", "failed"} \cup InFlight : Goto(c, x)
      BY <1>3 DEF Step, Download, Materialize, Probe, HashFinal, DropFinal,
         SweepPart, FetchRefused, FetchThrows, FetchBody, WriteBlock,
         StreamBreaks, FinishBody, RejectBody, Publish, CleanUp, NextEndpoint,
         Reverify, StatRuntime, StartCopy, FillCopy, Install, InFlight
    <2>4. Call[c] = "running"  BY <2>1 DEF Call
    <2>5. CASE pc'[c] = "done"
      <3>1. DigestIs("runtime", want[c])'
        BY <1>3, <2>5, ReturnLemma
      <3>2. want[c] \in Versions  BY <2>1 DEF SerialInv, CallInv
      <3>3. Slot' = want[c]
        <4>1. DigestIs("runtime", want[c]) ' /\ want'[c] = want[c]  BY <2>2, <3>1
        <4>2. dir'["runtime"] # None /\ disk'[dir'["runtime"]] = Whole(want[c])
          BY <4>1 DEF DigestIs
        <4>3. \A w \in Versions : DigestIs("runtime", w)' <=> w = want[c]
          BY <3>2, <4>2, WholeInjective, PrepareAssumption DEF DigestIs
        <4>4. QED  BY <3>2, <4>2, <4>3 DEF Slot
      <3>4. Goto(c, "done")
        <4>1. pc' # pc
          BY <1>0, <2>1, <2>5 DEF Running, InFlight
        <4>2. PICK x \in {"done", "failed"} \cup InFlight : Goto(c, x)
          BY <2>3, <4>1
        <4>3. x = "done"  BY <1>0, <2>5, <4>2, GotoType DEF Settled
        <4>4. QED  BY <4>2, <4>3
      <3>5. Call' = [Call EXCEPT ![c] = "done"]
        BY <1>0, <3>4, CallMoves DEF Settled, InFlight
      <3>6. Cache!Finish(c)
        BY <2>2, <2>4, <3>3, <3>5 DEF Cache!Finish, Call
      <3>7. QED  BY <3>6 DEF Cache!Next
    <2>6. CASE pc'[c] # "done"
      <3>1. ~Install(c)
        <4>1. ASSUME Install(c) PROVE FALSE
          <5>1. DigestIs("tmp", want[c])
            BY <4>1 DEF SerialInv, CallInv, Install
          <5>2. Goto(c, "done")  BY <4>1, <5>1 DEF Install, DigestIs
          <5>3. QED  BY <1>0, <2>6, <5>2, GotoType DEF Settled
        <4>2. QED  BY <4>1
      <3>2. Slot' = Slot  BY <1>3, <3>1, RuntimeKept, SlotKept
      <3>3. CASE pc' = pc
        BY <2>2, <3>2, <3>3 DEF Call, Running
      <3>4. ASSUME NEW x \in {"done", "failed"} \cup InFlight, Goto(c, x)
            PROVE  Cache!Next \/ (Slot' = Slot /\ Call' = Call /\ want' = want)
        <4>1. pc'[c] = x  BY <1>0, <3>4, GotoType DEF Settled
        <4>2. Call' = [Call EXCEPT ![c] = IF x \in InFlight THEN "running" ELSE x]
          BY <1>0, <3>4, CallMoves DEF Settled
        <4>3. CASE x \in InFlight
          <5>1. Call' = [Call EXCEPT ![c] = "running"]  BY <4>2, <4>3
          <5>2. Call' = Call  BY <2>4, <5>1 DEF Call
          <5>3. QED  BY <2>2, <3>2, <5>2
        <4>4. CASE x \notin InFlight
          <5>1. x = "failed"  BY <2>6, <4>1, <4>4
          <5>2. Call' = [Call EXCEPT ![c] = "failed"]  BY <4>2, <4>4, <5>1
          <5>3. Cache!Fail(c)
            BY <2>2, <2>4, <3>2, <5>2 DEF Cache!Fail, Call
          <5>4. QED  BY <5>3 DEF Cache!Next
        <4>5. QED  BY <4>3, <4>4
      <3>5. QED  BY <2>3, <3>3, <3>4
    <2>7. QED  BY <2>5, <2>6
  <1>4. ASSUME NEW c \in Callers, Crash(c)
        PROVE  Cache!Next
    <2>1. Call[c] = "running"  BY <1>4 DEF Crash, Call
    <2>2. Call' = [Call EXCEPT ![c] = "idle"]
      BY <1>0, <1>4, CallMoves DEF Crash, Settled, InFlight
    <2>3. Slot' = Slot
      <3>1. ~Install(c)
        <4>1. Goto(c, "idle")  BY <1>4 DEF Crash
        <4>2. pc'[c] = "idle"  BY <1>0, <4>1, GotoType DEF Settled
        <4>3. ~Goto(c, "done") /\ ~Goto(c, "failed")
          BY <1>0, <4>2, GotoType DEF Settled
        <4>4. QED  BY <4>3 DEF Install
      <3>2. QED  BY <1>4, <3>1, RuntimeKept, SlotKept
    <2>4. Cache!Crash(c)
      BY <1>4, <2>1, <2>2, <2>3 DEF Crash, Cache!Crash, Call
    <2>5. QED  BY <2>4 DEF Cache!Next
  <1>5. QED  BY <1>1, <1>2, <1>3, <1>4 DEF Next, PowerFailure

\* Calls that do not overlap implement the abstract cache: crashes, failed
\* endpoints and leftovers never show through to the engine.
THEOREM SerialRefinesArtifactCache ==
  ASSUME ~PowerLoss, SizeTellsVersions
  PROVE  SerialSpec => ImplementsArtifactCache
  BY SerialInit, SerialStep, RefineInit, RefineStep, PTL
  DEF SerialSpec, ImplementsArtifactCache, Cache!Spec
=============================================================================
