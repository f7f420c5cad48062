---------------------------- MODULE ResponseStore ----------------------------
(***************************************************************************)
(* ResponsesClient's memory of conversations: responseCache and            *)
(* messageCache, two insertion-ordered maps of at most MaxCache entries,   *)
(* read when an attempt of a turn is sent and written when its answer      *)
(* arrives.  Turns interleave between the two.                             *)
(*                                                                         *)
(* A message is who said it and in which turn.  Response ids are chosen by *)
(* the transport, which may hand one out again; never the empty string,    *)
(* which the code would not evict.                                         *)
(***************************************************************************)
EXTENDS Naturals, Sequences

CONSTANTS
  Turns,      \* the requests of one client
  Ids,        \* response ids
  MaxCache,   \* maxCache
  MaxInput,   \* bound: the longest input a request may carry
  None        \* undefined

ASSUME StoreAssumption ==
  /\ MaxCache \in Nat \ {0}
  /\ MaxInput \in Nat
  /\ None \notin Turns \cup Ids

Transport == {"cloud", "external", "local"}
Message == [role : {"system", "user", "assistant"}, turn : Turns]

VARIABLES
  responses,  \* the keys of responseCache, oldest first
  messages,   \* the keys of messageCache, oldest first
  answer,     \* answer[id]: the turn whose response was last cached under id
  thread,     \* thread[id]: the message list last cached under id
  pc,         \* pc[t]: new, sent, done
  prev,       \* prev[t]: t's previousResponseId
  input,      \* input[t]: the messages t's last attempt sent
  reply,      \* reply[t]: the response t's caller was given, and by whom
  reused      \* history: the ids that were handed out more than once

vars == <<responses, messages, answer, thread, pc, prev, input, reply, reused>>

Keys(s) == {s[k] : k \in DOMAIN s}

Init ==
  /\ responses = << >>
  /\ messages = << >>
  /\ answer = [id \in Ids |-> None]
  /\ thread = [id \in Ids |-> << >>]
  /\ pc = [t \in Turns |-> "new"]
  /\ prev = [t \in Turns |-> None]
  /\ input = [t \in Turns |-> << >>]
  /\ reply = [t \in Turns |-> None]
  /\ reused = {}

-----------------------------------------------------------------------------
Said(role, t) == <<[role |-> role, turn |-> t]>>

\* Mutant: the response is looked up before its message list.
PreviousAnswerFirst(id) ==
  IF id \in Keys(responses) THEN Said("assistant", answer[id])
  ELSE IF id \in Keys(messages) THEN thread[id] ELSE << >>

\* What is known of the conversation that ended with response id: its message
\* list, or else the bare answer, or else nothing.
Previous(id) ==
  IF id \in Keys(messages) THEN thread[id]
  ELSE IF id \in Keys(responses) THEN Said("assistant", answer[id]) ELSE << >>

\* buildEffectiveRequest: every attempt reads the caches anew.
EffectiveInput(t, id, instructed) ==
  (IF instructed THEN Said("system", t) ELSE << >>)
    \o Previous(id) \o Said("user", t)

Send(t, id, instructed) ==
  /\ pc[t] = "new"
  /\ pc' = [pc EXCEPT ![t] = "sent"]
  /\ prev' = [prev EXCEPT ![t] = id]
  /\ input' = [input EXCEPT ![t] = EffectiveInput(t, id, instructed)]
  /\ Len(input'[t]) <= MaxInput
  /\ UNCHANGED <<responses, messages, answer, thread, reply, reused>>

\* The attempt failed; the next candidate's is sent.
Resend(t) ==
  /\ pc[t] = "sent"
  /\ input' = [input EXCEPT ![t] =
       EffectiveInput(t, prev[t], Head(@) = Said("system", t)[1])]
  /\ Len(input'[t]) <= MaxInput
  /\ UNCHANGED <<responses, messages, answer, thread, pc, prev, reply, reused>>

-----------------------------------------------------------------------------
(* Map.delete of any key, Map.set (which leaves a known key in its place) *)

Delete(s, id) ==
  IF id \notin Keys(s) THEN s
  ELSE LET k == CHOOSE j \in DOMAIN s : s[j] = id
       IN [j \in 1..(Len(s) - 1) |-> IF j < k THEN s[j] ELSE s[j + 1]]

Set(s, id) == IF id \in Keys(s) THEN s ELSE Append(s, id)

Full(s) == Len(s) >= MaxCache

\* cacheResponse: when full, the oldest response goes, with its messages.
\* Full is tested before the set, so a known id may evict as well.
CacheResponse(id, t) ==
  /\ responses' = Set(IF Full(responses) THEN Tail(responses) ELSE responses, id)
  /\ answer' = [answer EXCEPT ![id] = t]

\* Mutant: the message list of an evicted response stays.
RemainingAll == messages

\* Mutant: the oldest message list goes, whosever response is evicted.
RemainingOldest ==
  IF Full(responses) /\ messages # << >> THEN Tail(messages) ELSE messages

\* The message cache as cacheResponse leaves it.
Remaining ==
  IF Full(responses) THEN Delete(messages, Head(responses)) ELSE messages

\* Mutant: a known id is listed again, as if the cache were an array.
CacheMessagesAgain(id, t) ==
  /\ messages' = Append(IF Full(Remaining) THEN Tail(Remaining) ELSE Remaining, id)
  /\ thread' = [thread EXCEPT ![id] = input[t] \o Said("assistant", t)]

\* cacheMessages, after cacheResponse.
CacheMessages(id, t) ==
  /\ messages' = Set(IF Full(Remaining) THEN Tail(Remaining) ELSE Remaining, id)
  /\ thread' = [thread EXCEPT ![id] = input[t] \o Said("assistant", t)]

\* An answer arrives.  A local one caches no message list.  One whose output
\* fails a quality gate is cached all the same, and its caller never sees it.
Store(t, id, by, accepted) ==
  /\ pc[t] = "sent"
  /\ CacheResponse(id, t)
  /\ IF by = "local"
     THEN messages' = Remaining /\ UNCHANGED thread
     ELSE CacheMessages(id, t)
  /\ IF accepted
     THEN /\ pc' = [pc EXCEPT ![t] = "done"]
          /\ reply' = [reply EXCEPT ![t] = [id |-> id, by |-> by]]
     ELSE UNCHANGED <<pc, reply>>
  /\ reused' = IF answer[id] = None THEN reused ELSE reused \cup {id}
  /\ UNCHANGED <<prev, input>>

\* A caller continues from a response it was given, or from nothing.
Given == {id \in Ids : \E t \in Turns : pc[t] = "done" /\ reply[t].id = id}

Next ==
  \E t \in Turns :
    \/ \E id \in Given \cup {None}, instructed \in BOOLEAN : Send(t, id, instructed)
    \/ Resend(t)
    \/ \E id \in Ids, by \in Transport, accepted \in BOOLEAN :
         Store(t, id, by, accepted)

Spec == Init /\ [][Next]_vars

-----------------------------------------------------------------------------
(* Properties *)

Distinct(s) == \A m, n \in DOMAIN s : s[m] = s[n] => m = n

\* The type invariant: a map lists a key once.
TypeOK ==
  /\ responses \in Seq(Ids) /\ Distinct(responses)
  /\ messages \in Seq(Ids) /\ Distinct(messages)
  /\ answer \in [Ids -> Turns \cup {None}]
  /\ thread \in [Ids -> Seq(Message)]
  /\ pc \in [Turns -> {"new", "sent", "done"}]
  /\ prev \in [Turns -> Ids \cup {None}]
  /\ input \in [Turns -> Seq(Message)]
  /\ reply \in [Turns -> [id : Ids, by : Transport] \cup {None}]
  /\ reused \in SUBSET Ids

\* The two maps stay in step: neither outgrows maxCache, and no message list
\* outlives the response it belongs to, whichever of them evicts and however
\* ids come back.
InStep ==
  /\ Len(responses) <= MaxCache
  /\ Keys(messages) \subseteq Keys(responses)

\* A turn answered by the cloud or by the external endpoint can be continued
\* as long as its response is cached: its message list is there too, and is
\* what that turn sent and what it was told (a response alone would lose the
\* caller's half of the conversation).
MessagesKept ==
  \A t \in Turns :
    LET id == reply[t].id
    IN pc[t] = "done" /\ reply[t].by # "local" /\ id \in Keys(responses)
         /\ answer[id] = t
       => /\ id \in Keys(messages)
          /\ thread[id] = input[t] \o Said("assistant", t)

\* A turn that continues a cached response of the cloud or of the external
\* endpoint, under an id handed out once, sends the whole conversation that led
\* to it, in order, between its own instructions and its own message.
WholeConversation ==
  \A t, p \in Turns :
    /\ pc[t] # "new" /\ pc[p] = "done" /\ prev[t] = reply[p].id
    /\ prev[t] \in Keys(responses) \ reused /\ reply[p].by # "local"
    => LET said == input[p] \o Said("assistant", p) \o Said("user", t)
       IN input[t] \in {said, Said("system", t) \o said}
=============================================================================
