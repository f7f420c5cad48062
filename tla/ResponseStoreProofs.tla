------------------------ MODULE ResponseStoreProofs ------------------------
(***************************************************************************)
(* The two caches of ResponsesClient stay in step and lose no message list *)
(* of a cached response, for every maxCache, however turns interleave and  *)
(* whatever ids the transports choose.                                     *)
(***************************************************************************)
EXTENDS ResponseStore, FiniteSets, FiniteSetTheorems, SequenceTheorems, TLAPS

-----------------------------------------------------------------------------
(* Sequences of distinct keys *)

IsCache(s) == s \in Seq(Ids) /\ Distinct(s)

\* A list of distinct keys is as long as the set of them is large.
LEMMA LenIsCardinality ==
  ASSUME NEW s, IsCache(s)
  PROVE  IsFiniteSet(Keys(s)) /\ Cardinality(Keys(s)) = Len(s)
<1>1. s \in [1..Len(s) -> Ids] /\ Len(s) \in Nat /\ DOMAIN s = 1..Len(s)
  BY DEF IsCache
<1>2. s \in Bijection(1..Len(s), Keys(s))
  BY <1>1 DEF IsCache, Distinct, Keys, Bijection, Injection, Surjection, IsInjective
<1>3. ExistsBijection(1..Len(s), Keys(s))
  BY <1>2 DEF ExistsBijection
<1> QED
  BY <1>1, <1>3, FS_NatBijection, FS_CountingElements

\* Fewer keys, a shorter list.
LEMMA SubCacheShorter ==
  ASSUME NEW s, NEW u, IsCache(s), IsCache(u), Keys(s) \subseteq Keys(u)
  PROVE  Len(s) <= Len(u)
BY LenIsCardinality, FS_Subset

\* Map.set of a key.
LEMMA SetFacts ==
  ASSUME NEW s, NEW id \in Ids, IsCache(s)
  PROVE  /\ IsCache(Set(s, id))
         /\ Keys(Set(s, id)) = Keys(s) \cup {id}
         /\ Len(Set(s, id)) <= Len(s) + 1
<1>1. CASE id \in Keys(s)
  BY <1>1 DEF Set, IsCache
<1>2. CASE id \notin Keys(s)
  <2>1. Set(s, id) = Append(s, id) /\ s \in Seq(Ids) /\ Len(s) \in Nat
    BY <1>2 DEF Set, IsCache
  <2>2. /\ Append(s, id) \in Seq(Ids)
        /\ Len(Append(s, id)) = Len(s) + 1
        /\ DOMAIN Append(s, id) = 1..(Len(s) + 1)
        /\ DOMAIN s = 1..Len(s)
        /\ \A k \in 1..Len(s) : Append(s, id)[k] = s[k]
        /\ Append(s, id)[Len(s) + 1] = id
    BY <2>1
  <2>3. Distinct(Append(s, id))
    BY <1>2, <2>1, <2>2 DEF Distinct, IsCache, Keys
  <2>4. Keys(Append(s, id)) = Keys(s) \cup {id}
    BY <2>1, <2>2 DEF Keys
  <2> QED
    BY <2>1, <2>2, <2>3, <2>4 DEF IsCache
<1> QED
  BY <1>1, <1>2

\* Eviction of the oldest key.
LEMMA TailFacts ==
  ASSUME NEW s, IsCache(s), s # << >>
  PROVE  /\ IsCache(Tail(s))
         /\ Keys(Tail(s)) = Keys(s) \ {Head(s)}
         /\ Len(Tail(s)) = Len(s) - 1
         /\ Head(s) \in Ids
<1>1. /\ s \in Seq(Ids) /\ Len(s) \in Nat /\ Len(s) >= 1
      /\ DOMAIN s = 1..Len(s) /\ Head(s) = s[1]
      /\ Tail(s) \in Seq(Ids) /\ Len(Tail(s)) = Len(s) - 1
      /\ DOMAIN Tail(s) = 1..(Len(s) - 1)
      /\ \A k \in 1..(Len(s) - 1) : Tail(s)[k] = s[k + 1]
  BY DEF IsCache
<1>2. Distinct(Tail(s))
  BY <1>1 DEF Distinct, IsCache
<1>3. Keys(Tail(s)) \subseteq Keys(s) \ {Head(s)}
  BY <1>1 DEF Keys, Distinct, IsCache
<1>4. ASSUME NEW x \in Keys(s) \ {Head(s)} PROVE x \in Keys(Tail(s))
  <2>1. PICK k \in 1..Len(s) : x = s[k]
    BY <1>1 DEF Keys
  <2>2. k - 1 \in 1..(Len(s) - 1) /\ (k - 1) + 1 = k
    BY <1>1, <1>4, <2>1
  <2>3. Tail(s)[k - 1] = x
    BY <1>1, <2>1, <2>2
  <2> QED
    BY <1>1, <2>2, <2>3 DEF Keys
<1> QED
  BY <1>1, <1>2, <1>3, <1>4 DEF IsCache

\* Map.delete of a key, wherever it is.
LEMMA DeleteFacts ==
  ASSUME NEW s, NEW id, IsCache(s)
  PROVE  /\ IsCache(Delete(s, id))
         /\ Keys(Delete(s, id)) = Keys(s) \ {id}
<1>1. CASE id \notin Keys(s)
  BY <1>1 DEF Delete
<1>2. CASE id \in Keys(s)
  <2> DEFINE k == CHOOSE j \in DOMAIN s : s[j] = id
             d == [j \in 1..(Len(s) - 1) |-> IF j < k THEN s[j] ELSE s[j + 1]]
  <2>1. s \in Seq(Ids) /\ Len(s) \in Nat /\ DOMAIN s = 1..Len(s)
    BY DEF IsCache
  <2>2. k \in 1..Len(s) /\ s[k] = id
    BY <1>2, <2>1 DEF Keys
  <2>3. Delete(s, id) = d
    BY <1>2 DEF Delete
  <2> HIDE DEF k
  <2>4. /\ d \in Seq(Ids)
        /\ Len(d) = Len(s) - 1 /\ DOMAIN d = 1..(Len(s) - 1)
    BY <2>1, <2>2
  <2>5. Distinct(d)
    BY <2>1, <2>2, <2>4 DEF Distinct, IsCache
  <2>6. Keys(d) \subseteq Keys(s) \ {id}
    BY <2>1, <2>2, <2>4 DEF Keys, Distinct, IsCache
  <2>7. ASSUME NEW x \in Keys(s) \ {id} PROVE x \in Keys(d)
    <3>1. PICK m \in 1..Len(s) : x = s[m]
      BY <2>1, <2>7 DEF Keys
    <3>2. m # k
      BY <2>2, <2>7, <3>1
    <3>3. CASE m < k
      <4>1. m \in 1..(Len(s) - 1) /\ d[m] = s[m]
        BY <2>1, <2>2, <3>1, <3>3
      <4> QED
        BY <2>4, <3>1, <4>1 DEF Keys
    <3>4. CASE m > k
      <4>1. m - 1 \in 1..(Len(s) - 1) /\ ~(m - 1 < k) /\ (m - 1) + 1 = m
        BY <2>1, <2>2, <3>1, <3>4
      <4> QED
        BY <2>4, <3>1, <4>1 DEF Keys
    <3> QED
      BY <2>2, <3>1, <3>2, <3>3, <3>4
  <2> QED
    BY <2>3, <2>4, <2>5, <2>6, <2>7 DEF IsCache
<1> QED
  BY <1>1, <1>2

-----------------------------------------------------------------------------
(* The invariant *)

Types ==
  /\ IsCache(responses) /\ IsCache(messages)
  /\ answer \in [Ids -> Turns \cup {None}]
  /\ thread \in [Ids -> Seq(Message)]
  /\ pc \in [Turns -> {"new", "sent", "done"}]
  /\ prev \in [Turns -> Ids \cup {None}]
  /\ input \in [Turns -> Seq(Message)]
  /\ reply \in [Turns -> [id : Ids, by : Transport] \cup {None}]
  /\ reused \in SUBSET Ids

\* A turn that is done was given a response.
Answered == \A t \in Turns : pc[t] = "done" => reply[t] \in [id : Ids, by : Transport]

\* A cached response is some turn's.
Owned == \A id \in Keys(responses) : answer[id] \in Turns

StoreInv == Types /\ InStep /\ Owned /\ Answered /\ MessagesKept

\* The first half of a Store: there is room in what is left of the message
\* cache, so its own eviction never takes a list of a cached response.
LEMMA RoomForMessages ==
  ASSUME Types, InStep
  PROVE  /\ IsCache(Remaining)
         /\ Keys(Remaining) =
              IF Full(responses) THEN Keys(messages) \ {Head(responses)}
                                 ELSE Keys(messages)
         /\ ~Full(Remaining)
<1>1. MaxCache \in Nat \ {0}
  BY StoreAssumption
<1>2. IsCache(responses) /\ IsCache(messages) /\ Len(responses) \in Nat
  BY DEF Types, IsCache
<1>3. CASE ~Full(responses)
  <2>1. Remaining = messages
    BY <1>3 DEF Remaining
  <2>2. Len(messages) <= Len(responses) /\ Len(messages) \in Nat
    BY <1>2, SubCacheShorter DEF InStep, IsCache
  <2> QED
    BY <1>1, <1>2, <1>3, <2>1, <2>2 DEF Full
<1>4. CASE Full(responses)
  <2>1. Remaining = Delete(messages, Head(responses))
    BY <1>4 DEF Remaining
  <2>2. IsCache(Remaining) /\ Keys(Remaining) = Keys(messages) \ {Head(responses)}
    BY <1>2, <2>1, DeleteFacts
  <2>3. responses # << >>
    BY <1>1, <1>2, <1>4 DEF Full
  <2>4. /\ IsCache(Tail(responses))
        /\ Keys(Tail(responses)) = Keys(responses) \ {Head(responses)}
        /\ Len(Tail(responses)) = Len(responses) - 1
    BY <1>2, <2>3, TailFacts
  <2>5. Len(Remaining) <= Len(Tail(responses))
    <3>1. Keys(Remaining) \subseteq Keys(Tail(responses))
      BY <2>2, <2>4 DEF InStep
    <3> QED
      BY <2>2, <2>4, <3>1, SubCacheShorter
  <2>6. Len(Remaining) \in Nat
    BY <2>2 DEF IsCache
  <2> QED
    BY <1>1, <1>2, <1>4, <2>2, <2>4, <2>5, <2>6 DEF Full, InStep
<1> QED
  BY <1>3, <1>4

\* What a Store does to the response cache.
LEMMA ResponsesAfter ==
  ASSUME Types, InStep, NEW id \in Ids, NEW t \in Turns, CacheResponse(id, t)
  PROVE  /\ IsCache(responses')
         /\ Keys(responses') =
              {id} \cup (IF Full(responses) THEN Keys(responses) \ {Head(responses)}
                                           ELSE Keys(responses))
         /\ Len(responses') <= MaxCache
<1> DEFINE s == IF Full(responses) THEN Tail(responses) ELSE responses
<1>1. MaxCache \in Nat \ {0}
  BY StoreAssumption
<1>2. IsCache(responses) /\ Len(responses) \in Nat /\ Len(responses) <= MaxCache
  BY DEF Types, IsCache, InStep
<1>3. /\ IsCache(s)
      /\ Keys(s) = IF Full(responses) THEN Keys(responses) \ {Head(responses)}
                                      ELSE Keys(responses)
      /\ Len(s) \in Nat /\ Len(s) + 1 <= MaxCache
  <2>1. CASE Full(responses)
    <3>1. responses # << >>
      BY <1>1, <1>2, <2>1 DEF Full
    <3>2. /\ IsCache(Tail(responses))
          /\ Keys(Tail(responses)) = Keys(responses) \ {Head(responses)}
          /\ Len(Tail(responses)) = Len(responses) - 1
      BY <1>2, <3>1, TailFacts
    <3> QED
      BY <1>1, <1>2, <2>1, <3>1, <3>2 DEF IsCache
  <2>2. CASE ~Full(responses)
    BY <1>1, <1>2, <2>2 DEF Full
  <2> QED
    BY <2>1, <2>2
<1>4. responses' = Set(s, id)
  BY DEF CacheResponse
<1> HIDE DEF s
<1>5. /\ IsCache(Set(s, id)) /\ Keys(Set(s, id)) = Keys(s) \cup {id}
      /\ Len(Set(s, id)) <= Len(s) + 1
  BY <1>3, SetFacts
<1>6. Len(Set(s, id)) \in Nat
  BY <1>5 DEF IsCache
<1>7. Len(Set(s, id)) <= MaxCache
  BY <1>1, <1>3, <1>5, <1>6
<1>8. Keys(responses') = Keys(Set(s, id)) /\ IsCache(responses') = IsCache(Set(s, id))
      /\ Len(responses') = Len(Set(s, id))
  BY <1>4
<1> QED
  BY <1>3, <1>5, <1>7, <1>8

\* What a Store does to the message cache.
LEMMA MessagesAfter ==
  ASSUME Types, InStep, NEW id \in Ids, NEW t \in Turns, NEW by,
         IF by = "local" THEN messages' = Remaining /\ UNCHANGED thread
                         ELSE CacheMessages(id, t)
  PROVE  /\ IsCache(messages')
         /\ Keys(messages') =
              Keys(Remaining) \cup (IF by = "local" THEN {} ELSE {id})
<1>1. IsCache(Remaining) /\ ~Full(Remaining)
  BY RoomForMessages
<1>2. CASE by = "local"
  BY <1>1, <1>2
<1>3. CASE by # "local"
  <2>1. messages' = Set(Remaining, id)
    BY <1>1, <1>3 DEF CacheMessages
  <2>2. IsCache(Set(Remaining, id)) /\ Keys(Set(Remaining, id)) = Keys(Remaining) \cup {id}
    BY <1>1, SetFacts
  <2>3. IsCache(messages') = IsCache(Set(Remaining, id))
        /\ Keys(messages') = Keys(Set(Remaining, id))
    BY <2>1
  <2> QED
    BY <1>3, <2>2, <2>3
<1> QED
  BY <1>2, <1>3

-----------------------------------------------------------------------------
(* The steps *)

LEMMA KeysAreIds ==
  ASSUME NEW s, IsCache(s)
  PROVE  Keys(s) \subseteq Ids
BY DEF IsCache, Keys

LEMMA SaidIsMessages ==
  ASSUME NEW role \in {"system", "user", "assistant"}, NEW t \in Turns
  PROVE  Said(role, t) \in Seq(Message)
<1>1. [role |-> role, turn |-> t] \in Message
  BY DEF Message
<1> QED
  BY <1>1 DEF Said

LEMMA InputIsMessages ==
  ASSUME Types, Owned, NEW t \in Turns, NEW id \in Ids \cup {None}, NEW b \in BOOLEAN
  PROVE  EffectiveInput(t, id, b) \in Seq(Message)
<1>1. Keys(messages) \subseteq Ids /\ Keys(responses) \subseteq Ids
  BY KeysAreIds DEF Types
<1>2. Previous(id) \in Seq(Message)
  <2>1. CASE id \in Keys(messages)
    BY <1>1, <2>1 DEF Previous, Types
  <2>2. CASE id \notin Keys(messages) /\ id \in Keys(responses)
    <3>1. answer[id] \in Turns
      BY <2>2 DEF Owned
    <3>2. Said("assistant", answer[id]) \in Seq(Message)
      BY <3>1, SaidIsMessages
    <3> QED
      BY <2>2, <3>2 DEF Previous
  <2>3. CASE id \notin Keys(messages) /\ id \notin Keys(responses)
    BY <2>3 DEF Previous
  <2> QED
    BY <2>1, <2>2, <2>3
<1>3. Said("system", t) \in Seq(Message) /\ Said("user", t) \in Seq(Message)
  BY SaidIsMessages
<1> QED
  BY <1>2, <1>3 DEF EffectiveInput

\* Sending changes no cache, and only a turn that is not done.
LEMMA SendingKeepsStoreInv ==
  ASSUME StoreInv, NEW t \in Turns, NEW id \in Ids \cup {None}, NEW b \in BOOLEAN,
         pc[t] \in {"new", "sent"},
         pc' = [pc EXCEPT ![t] = "sent"],
         prev' = [prev EXCEPT ![t] = id],
         input' = [input EXCEPT ![t] = EffectiveInput(t, id, b)],
         UNCHANGED <<responses, messages, answer, thread, reply, reused>>
  PROVE  StoreInv'
<1>1. EffectiveInput(t, id, b) \in Seq(Message)
  BY InputIsMessages DEF StoreInv
<1>2. Types'
  BY <1>1 DEF StoreInv, Types, IsCache, Distinct
<1>3. InStep' /\ Owned'
  BY DEF StoreInv, InStep, Owned, Keys
<1>4. Answered'
  BY DEF StoreInv, Answered, Types
<1>5. MessagesKept'
  <2>1. ASSUME NEW q \in Turns, pc'[q] = "done"
        PROVE  pc[q] = "done" /\ input'[q] = input[q]
    BY <2>1 DEF StoreInv, Types
  <2> QED
    BY <2>1 DEF StoreInv, MessagesKept, Keys
<1> QED
  BY <1>2, <1>3, <1>4, <1>5 DEF StoreInv

LEMMA SendKeepsStoreInv ==
  ASSUME StoreInv, NEW t \in Turns, NEW id \in Ids \cup {None}, NEW b \in BOOLEAN,
         Send(t, id, b)
  PROVE  StoreInv'
BY SendingKeepsStoreInv DEF Send

LEMMA ResendKeepsStoreInv ==
  ASSUME StoreInv, NEW t \in Turns, Resend(t)
  PROVE  StoreInv'
<1> DEFINE b == Head(input[t]) = Said("system", t)[1]
<1>1. b \in BOOLEAN
  OBVIOUS
<1>2. /\ pc[t] = "sent" /\ pc' = [pc EXCEPT ![t] = "sent"]
      /\ prev[t] \in Ids \cup {None}
      /\ prev' = [prev EXCEPT ![t] = prev[t]]
      /\ UNCHANGED <<responses, messages, answer, thread, reply, reused>>
  BY DEF Resend, StoreInv, Types
<1>3. input' = [input EXCEPT ![t] = EffectiveInput(t, prev[t], b)]
  BY DEF Resend
<1> HIDE DEF b
<1> QED
  BY <1>1, <1>2, <1>3, SendingKeepsStoreInv

LEMMA StoreKeepsStoreInv ==
  ASSUME StoreInv, NEW t \in Turns, NEW id \in Ids, NEW by \in Transport,
         NEW accepted \in BOOLEAN, Store(t, id, by, accepted)
  PROVE  StoreInv'
<1>1. /\ pc[t] = "sent" /\ CacheResponse(id, t)
      /\ IF by = "local" THEN messages' = Remaining /\ UNCHANGED thread
                         ELSE CacheMessages(id, t)
      /\ IF accepted
         THEN /\ pc' = [pc EXCEPT ![t] = "done"]
              /\ reply' = [reply EXCEPT ![t] = [id |-> id, by |-> by]]
         ELSE UNCHANGED <<pc, reply>>
      /\ UNCHANGED <<prev, input>>
  BY DEF Store
<1>2. Types /\ InStep /\ Owned /\ Answered /\ MessagesKept
  BY DEF StoreInv
<1>3. /\ IsCache(responses')
      /\ Keys(responses') =
           {id} \cup (IF Full(responses) THEN Keys(responses) \ {Head(responses)}
                                        ELSE Keys(responses))
      /\ Len(responses') <= MaxCache
  BY <1>1, <1>2, ResponsesAfter
<1>4. Keys(Remaining) = IF Full(responses) THEN Keys(messages) \ {Head(responses)}
                                          ELSE Keys(messages)
  BY <1>2, RoomForMessages
<1>5. /\ IsCache(messages')
      /\ Keys(messages') = Keys(Remaining) \cup (IF by = "local" THEN {} ELSE {id})
  BY <1>1, <1>2, MessagesAfter
<1>6. answer' = [answer EXCEPT ![id] = t]
  BY <1>1 DEF CacheResponse
<1>7. thread' \in [Ids -> Seq(Message)]
  <2>1. input[t] \o Said("assistant", t) \in Seq(Message)
    BY <1>2, SaidIsMessages DEF Types
  <2> QED
    BY <1>1, <1>2, <2>1 DEF CacheMessages, Types
<1>8. pc' \in [Turns -> {"new", "sent", "done"}]
      /\ reply' \in [Turns -> [id : Ids, by : Transport] \cup {None}]
  <2>1. [id |-> id, by |-> by] \in [id : Ids, by : Transport]
    OBVIOUS
  <2>2. CASE accepted
    BY <1>1, <1>2, <2>1, <2>2 DEF Types
  <2>3. CASE ~accepted
    BY <1>1, <1>2, <2>3 DEF Types
  <2> QED
    BY <2>2, <2>3
<1>9. Types'
  <2>1. reused' \in SUBSET Ids
    BY <1>2 DEF Types, Store
  <2> QED
    BY <1>1, <1>2, <1>3, <1>5, <1>6, <1>7, <1>8, <2>1 DEF Types
<1>10. InStep'
  BY <1>2, <1>3, <1>4, <1>5 DEF InStep
<1>11. Owned'
  BY <1>2, <1>3, <1>6 DEF Owned, Types
<1>12. Answered'
  <2>1. [id |-> id, by |-> by] \in [id : Ids, by : Transport]
    OBVIOUS
  <2>2. CASE accepted
    BY <1>1, <1>2, <2>1, <2>2 DEF Answered, Types
  <2>3. CASE ~accepted
    BY <1>1, <1>2, <2>3 DEF Answered, Types
  <2> QED
    BY <2>2, <2>3
<1>13. MessagesKept'
  <2> SUFFICES ASSUME NEW q \in Turns, pc'[q] = "done", reply'[q].by # "local",
                      reply'[q].id \in Keys(responses'),
                      answer'[reply'[q].id] = q
               PROVE  /\ reply'[q].id \in Keys(messages')
                      /\ thread'[reply'[q].id] = input'[q] \o Said("assistant", q)
    BY DEF MessagesKept
  <2>1. CASE q = t
    <3>1. accepted
      BY <1>1, <2>1
    <3>2. reply'[t] = [id |-> id, by |-> by]
      BY <1>1, <1>2, <3>1 DEF Types
    <3>3. by # "local"
      BY <2>1, <3>2
    <3>4. thread'[id] = input[t] \o Said("assistant", t)
      BY <1>1, <1>2, <3>3 DEF CacheMessages, Types
    <3> QED
      BY <1>1, <1>5, <2>1, <3>2, <3>3, <3>4
  <2>2. CASE q # t
    <3>1. pc[q] = "done" /\ reply'[q] = reply[q]
      BY <1>1, <1>2, <2>2 DEF Types
    <3>2. reply[q] \in [id : Ids, by : Transport]
      BY <1>2, <3>1 DEF Answered
    <3>3. reply[q].id # id
      BY <1>2, <1>6, <2>2, <3>1, <3>2 DEF Types
    <3>4. answer[reply[q].id] = q /\ thread'[reply[q].id] = thread[reply[q].id]
      BY <1>1, <1>2, <1>6, <3>1, <3>2, <3>3 DEF CacheMessages, Types
    <3>5. reply[q].id \in Keys(responses)
          /\ (Full(responses) => reply[q].id # Head(responses))
      BY <1>3, <3>1, <3>3
    <3>6. /\ reply[q].id \in Keys(messages)
          /\ thread[reply[q].id] = input[q] \o Said("assistant", q)
      BY <1>2, <3>1, <3>4, <3>5 DEF MessagesKept
    <3>7. reply[q].id \in Keys(messages')
      BY <1>4, <1>5, <3>5, <3>6
    <3> QED
      BY <1>1, <3>1, <3>4, <3>6, <3>7
  <2> QED
    BY <2>1, <2>2
<1> QED
  BY <1>9, <1>10, <1>11, <1>12, <1>13 DEF StoreInv

LEMMA StoreInit == Init => StoreInv
<1> SUFFICES ASSUME Init PROVE StoreInv
  OBVIOUS
<1>1. Types
  BY DEF Init, Types, IsCache, Distinct
<1>2. InStep /\ Owned
  BY StoreAssumption DEF Init, InStep, Owned, Keys
<1>3. Answered /\ MessagesKept
  BY DEF Init, Answered, MessagesKept
<1> QED
  BY <1>1, <1>2, <1>3 DEF StoreInv

LEMMA StoreStep == StoreInv /\ [Next]_vars => StoreInv'
<1> SUFFICES ASSUME StoreInv, [Next]_vars PROVE StoreInv'
  OBVIOUS
<1>1. CASE UNCHANGED vars
  <2>1. UNCHANGED <<responses, messages, answer, thread, pc, prev, input, reply, reused>>
    BY <1>1 DEF vars
  <2>2. Types' /\ InStep' /\ Owned'
    <3>1. Types'
      BY <2>1 DEF StoreInv, Types, IsCache, Distinct
    <3>2. InStep'
      BY <2>1 DEF StoreInv, InStep, Keys
    <3>3. Owned'
      BY <2>1 DEF StoreInv, Owned, Keys
    <3> QED
      BY <3>1, <3>2, <3>3
  <2>3. Answered' /\ MessagesKept'
    BY <2>1 DEF StoreInv, Answered, MessagesKept, Keys
  <2> QED
    BY <2>2, <2>3 DEF StoreInv
<1>2. ASSUME NEW t \in Turns, NEW id \in Given \cup {None}, NEW b \in BOOLEAN,
             Send(t, id, b)
      PROVE  StoreInv'
  <2>1. id \in Ids \cup {None}
    BY DEF Given
  <2> QED
    BY <1>2, <2>1, SendKeepsStoreInv
<1>3. ASSUME NEW t \in Turns, Resend(t) PROVE StoreInv'
  BY <1>3, ResendKeepsStoreInv
<1>4. ASSUME NEW t \in Turns, NEW id \in Ids, NEW by \in Transport,
             NEW accepted \in BOOLEAN, Store(t, id, by, accepted)
      PROVE  StoreInv'
  BY <1>4, StoreKeepsStoreInv
<1> QED
  BY <1>1, <1>2, <1>3, <1>4 DEF Next

LEMMA StoreInvariant == Spec => []StoreInv
  BY StoreInit, StoreStep, PTL DEF Spec

\* The type invariant: each cache lists a key once, every message list and
\* every input is a sequence of messages.
THEOREM StoreTypeCorrect == Spec => []TypeOK
<1>1. StoreInv => TypeOK
  BY DEF StoreInv, Types, IsCache, TypeOK
<1> QED
  BY <1>1, StoreInvariant, PTL

\* Neither cache outgrows maxCache and no message list outlives its response,
\* for every maxCache and any reuse of ids (cacheResponse, cacheMessages).
THEOREM CachesInStep == Spec => []InStep
<1>1. StoreInv => InStep
  BY DEF StoreInv
<1> QED
  BY <1>1, StoreInvariant, PTL

\* A cloud or external answer that is still cached can always be continued:
\* cacheMessages' own eviction never drops the list of a cached response.
THEOREM ConversationsKept == Spec => []MessagesKept
<1>1. StoreInv => MessagesKept
  BY DEF StoreInv
<1> QED
  BY <1>1, StoreInvariant, PTL
-----------------------------------------------------------------------------
(* Whole conversations: a second layer over StoreInv *)

\* An id that was handed out is known for good, and stays that of the turn that
\* was given it unless it is handed out again.
HandedOut ==
  \A p \in Turns : pc[p] = "done" =>
    /\ answer[reply[p].id] # None
    /\ reply[p].id \notin reused => answer[reply[p].id] = p

\* A turn continues from an id that was handed out before: a later answer under
\* it makes it a reused one.
PrevKnown == \A t \in Turns : prev[t] \in Ids => answer[prev[t]] # None

TalkInv == StoreInv /\ HandedOut /\ PrevKnown /\ WholeConversation

\* What an attempt sends of the turn it continues.
LEMMA ContinuesWhole ==
  ASSUME StoreInv, HandedOut, NEW t \in Turns, NEW p \in Turns, NEW b \in BOOLEAN,
         pc[p] = "done", reply[p].by # "local",
         reply[p].id \in Keys(responses) \ reused
  PROVE  LET said == input[p] \o Said("assistant", p) \o Said("user", t)
         IN EffectiveInput(t, reply[p].id, b) \in {said, Said("system", t) \o said}
<1> DEFINE id == reply[p].id
           q == input[p] \o Said("assistant", p)
           u == Said("user", t)
           y == Said("system", t)
<1>1. answer[id] = p /\ id \in Keys(messages) /\ thread[id] = q
  BY DEF HandedOut, StoreInv, MessagesKept
<1>2. Previous(id) = q
  BY <1>1 DEF Previous
<1>3. q \in Seq(Message) /\ u \in Seq(Message) /\ y \in Seq(Message)
  BY SaidIsMessages DEF StoreInv, Types
<1>4. EffectiveInput(t, id, b) = IF b THEN (y \o q) \o u ELSE (<< >> \o q) \o u
  BY <1>2 DEF EffectiveInput
<1> HIDE DEF q, u, y, id
<1>5. << >> \o q = q
  BY <1>3, ConcatEmptySeq
<1>6. (y \o q) \o u = y \o (q \o u)
  BY <1>3, ConcatAssociative
<1>7. EffectiveInput(t, id, b) \in {q \o u, y \o (q \o u)}
  BY <1>4, <1>5, <1>6
<1> QED
  BY <1>7 DEF q, u, y, id

\* An attempt is sent, the first or a further one.
LEMMA SendingKeepsTalk ==
  ASSUME TalkInv, NEW t \in Turns, NEW id \in Ids \cup {None}, NEW b \in BOOLEAN,
         id \in Ids => answer[id] # None,
         pc[t] \in {"new", "sent"},
         pc' = [pc EXCEPT ![t] = "sent"],
         prev' = [prev EXCEPT ![t] = id],
         input' = [input EXCEPT ![t] = EffectiveInput(t, id, b)],
         UNCHANGED <<responses, messages, answer, thread, reply, reused>>
  PROVE  TalkInv'
<1>1. StoreInv'
  BY SendingKeepsStoreInv DEF TalkInv
<1>2. Types
  BY DEF TalkInv, StoreInv
<1>3. ASSUME NEW p \in Turns, pc'[p] = "done"
      PROVE  p # t /\ pc[p] = "done" /\ input'[p] = input[p]
  BY <1>2, <1>3 DEF Types
<1>4. HandedOut'
  BY <1>3 DEF TalkInv, HandedOut
<1>5. PrevKnown'
  BY <1>2 DEF TalkInv, PrevKnown, Types
<1>6. WholeConversation'
  <2> SUFFICES ASSUME NEW q \in Turns, NEW p \in Turns,
                      pc'[q] # "new", pc'[p] = "done", prev'[q] = reply'[p].id,
                      prev'[q] \in Keys(responses') \ reused', reply'[p].by # "local"
               PROVE  LET said == input'[p] \o Said("assistant", p) \o Said("user", q)
                      IN input'[q] \in {said, Said("system", q) \o said}
    BY DEF WholeConversation, Said
  <2>1. p # t /\ pc[p] = "done" /\ input'[p] = input[p] /\ reply'[p] = reply[p]
    BY <1>3
  <2>2. Keys(responses') = Keys(responses) /\ reused' = reused
    BY DEF Keys
  <2>3. CASE q = t
    <3>1. reply[p].id = id /\ input'[t] = EffectiveInput(t, id, b)
      BY <1>2, <2>1, <2>3 DEF Types
    <3> QED
      BY <2>1, <2>2, <2>3, <3>1, ContinuesWhole DEF TalkInv
  <2>4. CASE q # t
    <3>1. pc[q] = pc'[q] /\ prev[q] = prev'[q] /\ input'[q] = input[q]
      BY <1>2, <2>4 DEF Types
    <3> QED
      BY <2>1, <2>2, <3>1 DEF TalkInv, WholeConversation
  <2> QED
    BY <2>3, <2>4
<1> QED
  BY <1>1, <1>4, <1>5, <1>6 DEF TalkInv

\* An answer arrives: only under an id that is nobody's previous one, or again
\* under one that is.
LEMMA StoreKeepsTalk ==
  ASSUME TalkInv, NEW t \in Turns, NEW id \in Ids, NEW by \in Transport,
         NEW accepted \in BOOLEAN, Store(t, id, by, accepted)
  PROVE  TalkInv'
<1>1. StoreInv'
  BY StoreKeepsStoreInv DEF TalkInv
<1>2. Types /\ InStep /\ Answered /\ HandedOut /\ PrevKnown /\ WholeConversation
  BY DEF TalkInv, StoreInv
<1>3. /\ pc[t] = "sent" /\ CacheResponse(id, t)
      /\ IF accepted
         THEN /\ pc' = [pc EXCEPT ![t] = "done"]
              /\ reply' = [reply EXCEPT ![t] = [id |-> id, by |-> by]]
         ELSE UNCHANGED <<pc, reply>>
      /\ reused' = IF answer[id] = None THEN reused ELSE reused \cup {id}
      /\ UNCHANGED <<prev, input>>
  BY DEF Store
<1>4. answer' = [answer EXCEPT ![id] = t] /\ t # None
  BY <1>3, StoreAssumption DEF CacheResponse
<1>5. ASSUME NEW p \in Turns, pc'[p] = "done"
      PROVE  \/ p = t /\ reply'[p] = [id |-> id, by |-> by]
             \/ p # t /\ pc[p] = "done" /\ reply'[p] = reply[p]
  <2>1. CASE accepted
    BY <1>2, <1>3, <1>5, <2>1 DEF Types
  <2>2. CASE ~accepted
    BY <1>2, <1>3, <1>5, <2>2 DEF Types
  <2> QED
    BY <2>1, <2>2
<1>6. HandedOut'
  <2> SUFFICES ASSUME NEW p \in Turns, pc'[p] = "done"
               PROVE  /\ answer'[reply'[p].id] # None
                      /\ reply'[p].id \notin reused' => answer'[reply'[p].id] = p
    BY DEF HandedOut
  <2>1. CASE p = t /\ reply'[p] = [id |-> id, by |-> by]
    BY <1>2, <1>4, <2>1 DEF Types
  <2>2. CASE p # t /\ pc[p] = "done" /\ reply'[p] = reply[p]
    <3>1. /\ reply[p].id \in Ids /\ answer[reply[p].id] # None
          /\ reply[p].id \notin reused => answer[reply[p].id] = p
      BY <1>2, <2>2 DEF Answered, HandedOut
    <3>2. CASE reply[p].id = id
      BY <1>2, <1>3, <1>4, <2>2, <3>1, <3>2 DEF Types
    <3>3. CASE reply[p].id # id
      BY <1>2, <1>3, <1>4, <2>2, <3>1, <3>3 DEF Types
    <3> QED
      BY <3>2, <3>3
  <2> QED
    BY <1>5, <2>1, <2>2
<1>7. PrevKnown'
  BY <1>2, <1>3, <1>4 DEF PrevKnown, Types
<1>8. WholeConversation'
  <2> SUFFICES ASSUME NEW q \in Turns, NEW p \in Turns,
                      pc'[q] # "new", pc'[p] = "done", prev'[q] = reply'[p].id,
                      prev'[q] \in Keys(responses') \ reused', reply'[p].by # "local"
               PROVE  LET said == input'[p] \o Said("assistant", p) \o Said("user", q)
                      IN input'[q] \in {said, Said("system", q) \o said}
    BY DEF WholeConversation, Said
  <2>1. prev'[q] = prev[q] /\ input'[q] = input[q] /\ input'[p] = input[p]
    BY <1>3
  <2>2. prev[q] # id
    BY <1>2, <1>3, <2>1 DEF PrevKnown
  <2>3. pc[p] = "done" /\ reply'[p] = reply[p]
    <3>1. reply'[p].id # id
      BY <2>1, <2>2
    <3>2. reply'[p] # [id |-> id, by |-> by]
      BY <3>1
    <3> QED
      BY <1>5, <3>2
  <2>4. pc[q] # "new"
    BY <1>2, <1>3 DEF Types
  <2>5. prev[q] \in Keys(responses) \ reused
    <3>1. Keys(responses') \subseteq {id} \cup Keys(responses)
      BY <1>2, <1>3, ResponsesAfter
    <3>2. reused \subseteq reused'
      BY <1>3
    <3> QED
      BY <2>1, <2>2, <3>1, <3>2
  <2> QED
    BY <1>2, <2>1, <2>3, <2>4, <2>5 DEF WholeConversation
<1> QED
  BY <1>1, <1>6, <1>7, <1>8 DEF TalkInv

LEMMA TalkInvariant == Spec => []TalkInv
<1>1. Init => TalkInv
  <2> SUFFICES ASSUME Init PROVE TalkInv
    OBVIOUS
  <2>1. StoreInv
    BY StoreInit
  <2>2. HandedOut /\ PrevKnown /\ WholeConversation
    BY StoreAssumption DEF Init, HandedOut, PrevKnown, WholeConversation
  <2> QED
    BY <2>1, <2>2 DEF TalkInv
<1>2. TalkInv /\ [Next]_vars => TalkInv'
  <2> SUFFICES ASSUME TalkInv, [Next]_vars PROVE TalkInv'
    OBVIOUS
  <2>1. CASE UNCHANGED vars
    <3>1. UNCHANGED <<responses, messages, answer, thread, pc, prev, input, reply, reused>>
      BY <2>1 DEF vars
    <3>2. StoreInv'
      BY <2>1, StoreStep DEF TalkInv
    <3>3. HandedOut' /\ PrevKnown'
      BY <3>1 DEF TalkInv, HandedOut, PrevKnown
    <3>4. WholeConversation'
      BY <3>1 DEF TalkInv, WholeConversation, Keys, Said
    <3> QED
      BY <3>2, <3>3, <3>4 DEF TalkInv
  <2>2. ASSUME NEW t \in Turns, NEW id \in Given \cup {None}, NEW b \in BOOLEAN,
               Send(t, id, b)
        PROVE  TalkInv'
    <3>1. id \in Ids \cup {None}
      BY DEF Given
    <3>2. id \in Ids => answer[id] # None
      BY StoreAssumption DEF Given, TalkInv, HandedOut
    <3>3. /\ pc[t] \in {"new", "sent"} /\ pc' = [pc EXCEPT ![t] = "sent"]
          /\ prev' = [prev EXCEPT ![t] = id]
          /\ input' = [input EXCEPT ![t] = EffectiveInput(t, id, b)]
          /\ UNCHANGED <<responses, messages, answer, thread, reply, reused>>
      BY <2>2 DEF Send
    <3> QED
      BY <3>1, <3>2, <3>3, SendingKeepsTalk
  <2>3. ASSUME NEW t \in Turns, Resend(t) PROVE TalkInv'
    <3> DEFINE b == Head(input[t]) = Said("system", t)[1]
    <3>1. b \in BOOLEAN
      OBVIOUS
    <3>2. /\ pc[t] \in {"new", "sent"} /\ pc' = [pc EXCEPT ![t] = "sent"]
          /\ prev[t] \in Ids \cup {None}
          /\ prev' = [prev EXCEPT ![t] = prev[t]]
          /\ UNCHANGED <<responses, messages, answer, thread, reply, reused>>
      BY <2>3 DEF Resend, TalkInv, StoreInv, Types
    <3>3. input' = [input EXCEPT ![t] = EffectiveInput(t, prev[t], b)]
      BY <2>3 DEF Resend
    <3>4. prev[t] \in Ids => answer[prev[t]] # None
      BY DEF TalkInv, PrevKnown
    <3> HIDE DEF b
    <3> QED
      BY <3>1, <3>2, <3>3, <3>4, SendingKeepsTalk
  <2>4. ASSUME NEW t \in Turns, NEW id \in Ids, NEW by \in Transport,
               NEW accepted \in BOOLEAN, Store(t, id, by, accepted)
        PROVE  TalkInv'
    BY <2>4, StoreKeepsTalk
  <2> QED
    BY <2>1, <2>2, <2>3, <2>4 DEF Next
<1> QED
  BY <1>1, <1>2, PTL DEF Spec

\* Whatever else is sent and answered meanwhile, and whatever is evicted, a turn
\* that continues a cached response sends all that led to it (buildEffectiveRequest).
THEOREM ConversationsAreWhole == Spec => []WholeConversation
<1>1. TalkInv => WholeConversation
  BY DEF TalkInv
<1> QED
  BY <1>1, TalkInvariant, PTL
=============================================================================
