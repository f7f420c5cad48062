----------------------------- MODULE PolicyCache -----------------------------
(***************************************************************************)
(* PolicyClient of src/query-routing.ts: the routing policy in the memory  *)
(* of each client, and in one file that every client of the machine reads  *)
(* and rewrites.  An expired policy is shown to the server by its etag,    *)
(* and lives on under a new fetched_at when the server answers 304.        *)
(*                                                                         *)
(* There is one server.  It numbers its policies and sends each with an    *)
(* etag; an etag has the number of its policy, and a fetched_at the name   *)
(* of the call that wrote it.                                              *)
(***************************************************************************)
EXTENDS Naturals

CONSTANTS
  Clients,      \* PolicyClient objects, one per process
  Asks,         \* calls of getPolicy
  MaxRevision,  \* bound: the server's last policy
  NoPolicy

ASSUME PolicyAssumption == NoPolicy \notin [revision : Nat, stamp : Asks] \cup Nat

VARIABLES
  policies,     \* policy of each client
  policyFile,   \* the policy in octomil_routing_policy.json
  tornFile,     \* it does not parse
  writers,      \* the calls that have it open for writing, and those that had it
                \* open beside one of them
  lapsed,       \* the fetched_at whose ttl_seconds have passed
  current,      \* the server's policy
  phase,        \* where a call is
  asker,        \* the client it is a call of
  found,        \* diskPolicy: what it has read from the file
  tag,          \* the etag it has sent
  told,         \* the server's policy when it was asked
  modified,     \* the answer was that policy, and not a 304
  draft,        \* the policy it saves and returns
  met           \* history: the calls that met another of their client

policyVars ==
  <<policies, policyFile, tornFile, writers, lapsed, current, phase, asker, found, tag,
    told, modified, draft, met>>

PolicyInit ==
  /\ policies = [k \in Clients |-> NoPolicy]
  /\ policyFile = NoPolicy /\ tornFile = FALSE /\ writers = {}
  /\ lapsed = {} /\ current = 1
  /\ phase = [a \in Asks |-> "new"] /\ asker \in [Asks -> Clients]
  /\ found = [a \in Asks |-> NoPolicy] /\ tag = [a \in Asks |-> NoPolicy]
  /\ told = [a \in Asks |-> NoPolicy] /\ modified = [a \in Asks |-> FALSE]
  /\ draft = [a \in Asks |-> NoPolicy]
  /\ met = {}

Proceed(a, where) == phase' = [phase EXCEPT ![a] = where]

\* A call that is over leaves nothing of its own.
Conclude(a) ==
  /\ Proceed(a, "ended")
  /\ found' = [found EXCEPT ![a] = NoPolicy] /\ tag' = [tag EXCEPT ![a] = NoPolicy]
  /\ draft' = [draft EXCEPT ![a] = NoPolicy]

Pending == {a \in Asks : phase[a] \notin {"new", "ended"}}

IsFresh(policy) == policy # NoPolicy /\ policy.stamp \notin lapsed

Mine(a) == policies[asker[a]]

Cache(a, policy) == policies' = [policies EXCEPT ![asker[a]] = policy]
-----------------------------------------------------------------------------
(* getPolicy *)

\* A policy in memory is returned while it is fresh.
AskPolicy(a) ==
  /\ phase[a] = "new"
  /\ Proceed(a, IF IsFresh(Mine(a)) THEN "ended" ELSE "reading")
  /\ LET others == {b \in Pending : asker[b] = asker[a]}
     IN met' = IF others = {} \/ IsFresh(Mine(a)) THEN met ELSE met \cup others \cup {a}
  /\ UNCHANGED <<policies, policyFile, tornFile, writers, lapsed, current, asker, found,
                 tag, told, modified, draft>>

\* loadFromDisk: a file that is absent, does not parse or cannot be read is no policy.
ReadPolicyFile(a) ==
  /\ phase[a] = "reading"
  /\ \E held \in IF tornFile THEN {NoPolicy} ELSE {policyFile, NoPolicy} :
       found' = [found EXCEPT ![a] = held]
  /\ Proceed(a, "read")
  /\ UNCHANGED <<policies, policyFile, tornFile, writers, lapsed, current, asker, tag,
                 told, modified, draft, met>>

\* A fresh policy of the file will do.
TakeFromFile(a) ==
  /\ phase[a] = "read" /\ IsFresh(found[a])
  /\ Cache(a, found[a]) /\ Conclude(a)
  /\ UNCHANGED <<policyFile, tornFile, writers, lapsed, current, asker, told, modified,
                 met>>

\* What a call goes by when nothing is fresh: the file's policy, or the client's.
AtHand(a) == IF found[a] # NoPolicy THEN found[a] ELSE Mine(a)

\* fetchFromServer.
FetchPolicy(a) ==
  /\ phase[a] = "read" /\ ~ IsFresh(found[a])
  /\ tag' = [tag EXCEPT ![a] =
       IF AtHand(a) = NoPolicy THEN NoPolicy ELSE AtHand(a).revision]
  /\ Proceed(a, "fetching")
  /\ UNCHANGED <<policies, policyFile, tornFile, writers, lapsed, current, asker, found,
                 told, modified, draft, met>>

\* The server answers 304 only for the etag of its own policy.
ServePolicy(a, sends) ==
  /\ phase[a] = "fetching" /\ (sends \/ tag[a] = current)
  /\ told' = [told EXCEPT ![a] = current]
  /\ modified' = [modified EXCEPT ![a] = sends]
  /\ Proceed(a, "answered")
  /\ UNCHANGED <<policies, policyFile, tornFile, writers, lapsed, current, asker, found,
                 tag, draft, met>>

\* Mutant: the client's own policy is renewed, whatever etag was sent.
RenewedMemoryFirst(a) ==
  IF Mine(a) # NoPolicy THEN Mine(a).revision ELSE found[a].revision

\* What a 304 gives a new fetched_at: the file's policy as it was read, or else the
\* client's as it is by now.
Renewed(a) == IF found[a] # NoPolicy THEN found[a].revision ELSE Mine(a).revision

ReceivePolicy(a) ==
  /\ phase[a] = "answered"
  /\ LET policy == [revision |-> IF modified[a] THEN told[a] ELSE Renewed(a), stamp |-> a]
     IN Cache(a, policy) /\ draft' = [draft EXCEPT ![a] = policy]
  /\ modified' = [modified EXCEPT ![a] = FALSE]
  /\ Proceed(a, "opening")
  /\ UNCHANGED <<policyFile, tornFile, writers, lapsed, current, asker, found, tag, told,
                 met>>

\* The server is out of reach: an expired policy serves, that of the file rather
\* than the client's own.
Unreachable(a) ==
  /\ phase[a] \in {"fetching", "answered"}
  /\ IF found[a] # NoPolicy THEN Cache(a, found[a]) ELSE UNCHANGED policies
  /\ modified' = [modified EXCEPT ![a] = FALSE]
  /\ Conclude(a)
  /\ UNCHANGED <<policyFile, tornFile, writers, lapsed, current, asker, told, met>>
-----------------------------------------------------------------------------
(* saveToDisk: writeFile truncates the file and then writes it; errors are *)
(* ignored.                                                                *)

OpenPolicyFile(a) ==
  /\ phase[a] = "opening"
  /\ tornFile' = TRUE /\ writers' = writers \cup {a}
  /\ Proceed(a, "saving")
  /\ UNCHANGED <<policies, policyFile, lapsed, current, asker, found, tag, told, modified,
                 draft, met>>

\* The writers that are left when some close the file: all of them, until nobody
\* has it open.
WritersLeft(closing) ==
  IF \E b \in writers \ closing : phase[b] = "saving" THEN writers ELSE {}

\* The file cannot be opened, or not written to the end.
PolicyNotSaved(a) ==
  /\ phase[a] \in {"opening", "saving"}
  /\ tornFile' \in IF phase[a] = "saving" THEN {tornFile, TRUE} ELSE {tornFile}
  /\ writers' = IF phase[a] = "saving" THEN WritersLeft({a}) ELSE writers
  /\ Conclude(a)
  /\ UNCHANGED <<policies, policyFile, lapsed, current, asker, told, modified, met>>

\* What two write side by side need not parse, be it the first or the last of them.
PolicySaved(a) ==
  /\ phase[a] = "saving"
  /\ writers' = WritersLeft({a})
  /\ \/ policyFile' = draft[a] /\ tornFile' = FALSE
     \/ writers # {a} /\ tornFile' = TRUE /\ UNCHANGED policyFile
  /\ Conclude(a)
  /\ UNCHANGED <<policies, lapsed, current, asker, told, modified, met>>

\* A process dies, and leaves the file as it is, or half written.
ClientDies(k) ==
  LET lost == {a \in Pending : asker[a] = k}
      Without(of) == [a \in Asks |-> IF a \in lost THEN NoPolicy ELSE of[a]]
  IN /\ policies' = [policies EXCEPT ![k] = NoPolicy]
     /\ phase' = [a \in Asks |-> IF a \in lost THEN "ended" ELSE phase[a]]
     /\ modified' = [a \in Asks |-> a \notin lost /\ modified[a]]
     /\ found' = Without(found) /\ tag' = Without(tag) /\ draft' = Without(draft)
     /\ writers' = WritersLeft(lost)
     /\ tornFile' \in IF \E a \in lost : phase[a] = "saving" THEN {tornFile, TRUE}
                                                            ELSE {tornFile}
     /\ UNCHANGED <<policyFile, lapsed, current, asker, told, met>>
-----------------------------------------------------------------------------
\* The ttl of what a has stamped is over.
PolicyLapses(a) ==
  /\ told[a] # NoPolicy /\ phase[a] # "answered"
  /\ lapsed' = lapsed \cup {a}
  /\ UNCHANGED <<policies, policyFile, tornFile, writers, current, phase, asker, found,
                 tag, told, modified, draft, met>>

NewRevision ==
  /\ current < MaxRevision
  /\ current' = current + 1
  /\ UNCHANGED <<policies, policyFile, tornFile, writers, lapsed, phase, asker, found, tag,
                 told, modified, draft, met>>

PolicyNext ==
  \/ \E a \in Asks :
       \/ AskPolicy(a) \/ ReadPolicyFile(a) \/ TakeFromFile(a) \/ FetchPolicy(a)
       \/ (\E sends \in BOOLEAN : ServePolicy(a, sends)) \/ ReceivePolicy(a)
       \/ Unreachable(a) \/ OpenPolicyFile(a) \/ PolicyNotSaved(a) \/ PolicySaved(a)
       \/ PolicyLapses(a)
  \/ \E k \in Clients : ClientDies(k)
  \/ NewRevision

PolicySpec == PolicyInit /\ [][PolicyNext]_policyVars
-----------------------------------------------------------------------------
(* Properties *)

\* A policy is given a fetched_at only in the name of the server: in memory and in
\* the file, what a call has stamped is what the server told that call was its
\* policy, although the file comes from other processes and the 304 says nothing
\* of what it stands for; unless another call of the same client was under way,
\* which may have put another policy in the place of the one that was shown.
RenewedAsTold ==
  \A policy \in {policies[k] : k \in Clients} \cup {policyFile} :
    policy # NoPolicy /\ policy.stamp \notin met =>
      policy.revision = told[policy.stamp]
=============================================================================
