---------------------------- MODULE RoutingCache ----------------------------
(***************************************************************************)
(* RoutingClient of src/routing.ts: routing decisions in memory, and in a  *)
(* file that answers when the server does not.  The file is rewritten as a *)
(* whole by whoever has read it, without a lock; a failure to read, write  *)
(* or remove it is ignored.                                                *)
(*                                                                         *)
(* A decision has the name of the call of route that fetched it.           *)
(***************************************************************************)
CONSTANTS
  Routed,    \* model ids
  Lookups,   \* calls of route, invalidate and clearCache
  Nothing

ASSUME NothingAssumption == Nothing \notin Lookups

VARIABLES
  memory,    \* cache: the decision in memory for a model that has not expired
  stored,    \* the decisions in the file
  torn,      \* the file does not parse
  opened,    \* the calls that have the file open for writing
  doing,     \* route, invalidate or clear
  stage,     \* where a call is
  about,     \* the model a call is about
  read,      \* the decisions a call has read from the file
  result,    \* the decision a call of route returned
  crowded,   \* the calls that met another one, whose writes may mix
  dropped    \* history: the models whose invalidation went through, since the
             \* server last answered for them

cacheVars ==
  <<memory, stored, torn, opened, doing, stage, about, read, result, crowded, dropped>>

Empty == [m \in Routed |-> Nothing]

CacheInit ==
  /\ memory = Empty /\ stored = Empty /\ torn = FALSE /\ opened = {}
  /\ doing = [c \in Lookups |-> "none"] /\ stage = [c \in Lookups |-> "new"]
  /\ about = [c \in Lookups |-> Nothing]
  /\ read = [c \in Lookups |-> Empty] /\ result = [c \in Lookups |-> Nothing]
  /\ crowded = {} /\ dropped = {}

Reach(c, where) == stage' = [stage EXCEPT ![c] = where]

UnderWay == {c \in Lookups : stage[c] \notin {"new", "done"}}

\* A call begins; it is crowded when it meets another that is under way.
Enter(c, what, m) ==
  /\ stage[c] = "new"
  /\ doing' = [doing EXCEPT ![c] = what]
  /\ about' = [about EXCEPT ![c] = m]
  /\ crowded' = IF UnderWay = {} THEN crowded ELSE crowded \cup UnderWay \cup {c}

\* What the file holds for whoever reads it.
OnDisk == IF torn THEN Empty ELSE stored
-----------------------------------------------------------------------------
(* route *)

Route(c, m) ==
  /\ Enter(c, "route", m)
  /\ IF memory[m] # Nothing
     THEN /\ result' = [result EXCEPT ![c] = memory[m]]
          /\ Reach(c, "done")
     ELSE Reach(c, "asking") /\ UNCHANGED result
  /\ UNCHANGED <<memory, stored, torn, opened, read, dropped>>

Expire(m) ==
  /\ memory[m] # Nothing
  /\ memory' = [memory EXCEPT ![m] = Nothing]
  /\ UNCHANGED <<stored, torn, opened, doing, stage, about, read, result, crowded, dropped>>

Decided(c) ==
  /\ stage[c] = "asking"
  /\ memory' = [memory EXCEPT ![about[c]] = c]
  /\ result' = [result EXCEPT ![c] = c]
  /\ dropped' = dropped \ {about[c]}
  /\ Reach(c, "reading")
  /\ UNCHANGED <<stored, torn, opened, doing, about, read, crowded>>

\* The server cannot be reached: the file answers, or nothing does and the
\* device is chosen.
OfflineFallback(c) ==
  /\ stage[c] = "asking"
  /\ \E held \in {OnDisk, Empty} : result' = [result EXCEPT ![c] = held[about[c]]]
  /\ Reach(c, "done")
  /\ UNCHANGED <<memory, stored, torn, opened, doing, about, read, crowded, dropped>>
-----------------------------------------------------------------------------
(* invalidate and clearCache, up to the file *)

\* The decisions in memory go at once, the file follows.
Invalidate(c, what, m) ==
  /\ Enter(c, what, m)
  /\ memory' = IF what = "clear" THEN Empty ELSE [memory EXCEPT ![m] = Nothing]
  /\ Reach(c, IF what = "clear" THEN "removing" ELSE "reading")
  /\ UNCHANGED <<stored, torn, opened, read, result, dropped>>
-----------------------------------------------------------------------------
(* persistToDisk, and the file's part of invalidate and clearCache *)

\* Mutant: invalidate writes back what it has read.
EntriesKept(c, held) ==
  IF doing[c] = "route" THEN [held EXCEPT ![about[c]] = c] ELSE held

\* What was read, with the new decision for the call's model, or without the one
\* that goes.
Entries(c, held) == [held EXCEPT ![about[c]] = result[c]]

\* loadPersistentCache: nothing, when reading throws.
ReadFile(c) ==
  /\ stage[c] = "reading"
  /\ \E held \in {OnDisk, Empty} : read' = [read EXCEPT ![c] = Entries(c, held)]
  /\ Reach(c, "opening")
  /\ UNCHANGED <<memory, stored, torn, opened, doing, about, result, crowded, dropped>>

\* savePersistentCache: writeFile truncates the file and then writes it.
OpenFile(c) ==
  /\ stage[c] = "opening"
  /\ torn' = TRUE /\ opened' = opened \cup {c}
  /\ Reach(c, "saving")
  /\ UNCHANGED <<memory, stored, doing, about, read, result, crowded, dropped>>

\* d has read a decision for m, or been given one, and has yet to write it.
PutsBack(d, m) ==
  \/ doing[d] = "route" /\ about[d] = m /\ stage[d] = "reading"
  \/ /\ stage[d] = "opening" \/ (stage[d] = "saving" /\ d \in opened)
     /\ read[d][m] # Nothing

\* c has put its own mark on the file.  What it invalidates is dropped, unless
\* the model was asked for meanwhile or another call is about to put it back.
Leave(c) ==
  /\ Reach(c, "done")
  /\ LET gone == IF doing[c] = "route" THEN {}
                 ELSE IF doing[c] = "clear" THEN Routed ELSE {about[c]}
     IN dropped' = dropped \cup
          {m \in gone : memory[m] = Nothing /\ \A d \in Lookups : ~PutsBack(d, m)'}

\* A file that clearCache has removed is written for nobody.
SaveUnseen(c) ==
  /\ stage[c] = "saving" /\ c \notin opened
  /\ Reach(c, "done")
  /\ UNCHANGED <<memory, stored, torn, opened, doing, about, read, result, crowded, dropped>>

\* The file holds what was written, unless another call writes it as well: what
\* is left of two need not parse.
SaveFile(c) ==
  /\ stage[c] = "saving" /\ c \in opened
  /\ opened' = opened \ {c}
  /\ \/ stored' = read[c] /\ torn' = FALSE
     \/ c \in crowded /\ torn' = TRUE /\ UNCHANGED stored
  /\ UNCHANGED <<memory, doing, about, read, result, crowded>>
  /\ Leave(c)

\* The file cannot be opened, or not written to the end; the error is ignored.
SaveFails(c) ==
  /\ stage[c] \in {"opening", "saving"}
  /\ opened' = opened \ {c}
  /\ torn' \in IF c \in opened THEN {torn, TRUE} ELSE {torn}
  /\ Reach(c, "done")
  /\ UNCHANGED <<memory, stored, doing, about, read, result, crowded, dropped>>

\* clearCache removes the file.
RemoveFile(c) ==
  /\ stage[c] = "removing"
  /\ stored' = Empty /\ torn' = FALSE /\ opened' = {}
  /\ UNCHANGED <<memory, doing, about, read, result, crowded>>
  /\ Leave(c)

\* The file cannot be removed and stays as it is; the error is ignored.
RemoveFails(c) ==
  /\ stage[c] = "removing"
  /\ Reach(c, "done")
  /\ UNCHANGED <<memory, stored, torn, opened, doing, about, read, result, crowded, dropped>>
-----------------------------------------------------------------------------
CacheNext ==
  \/ \E c \in Lookups, m \in Routed :
       Route(c, m) \/ \E what \in {"invalidate", "clear"} : Invalidate(c, what, m)
  \/ \E m \in Routed : Expire(m)
  \/ \E c \in Lookups :
       \/ Decided(c) \/ OfflineFallback(c)
       \/ ReadFile(c) \/ OpenFile(c) \/ SaveFile(c) \/ SaveUnseen(c) \/ SaveFails(c)
       \/ RemoveFile(c) \/ RemoveFails(c)

CacheSpec == CacheInit /\ [][CacheNext]_cacheVars
-----------------------------------------------------------------------------
(* Properties *)

\* A decision that was invalidated or cleared answers nobody again: it is neither
\* in memory nor in the file, whatever calls do later, until the server answers
\* for the model.  It takes that the write or the removal of the file went
\* through (the code ignores a failure of either), and that at that moment no
\* other call was between reading the file with the decision in it, or fetching
\* one for the model, and its own write.  Calls may overlap in any other way.
InvalidatedStaysGone ==
  \A m \in dropped : memory[m] = Nothing /\ OnDisk[m] = Nothing
=============================================================================
