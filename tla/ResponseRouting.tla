--------------------------- MODULE ResponseRouting ---------------------------
(***************************************************************************)
(* ResponsesClient.create and .stream: the candidates of a request, the    *)
(* transports it contacts, what its caller sees, and the route event it    *)
(* reports through the client's shared lastRouteInfo.  Requests interleave *)
(* at their awaits and yields.                                             *)
(*                                                                         *)
(* A candidate is a locality and whether its pre-inference gates block it. *)
(* A client without a planner behaves as one whose planner answers null at *)
(* once, except where the two code paths differ.                           *)
(***************************************************************************)
EXTENDS Naturals, Sequences

CONSTANTS
  Requests,    \* the calls in flight on one client
  Plans,       \* the plans the server may answer with
  Policies,    \* private stands for local_only too, auto for any other
  None         \* null

Candidate == [locality : {"local", "cloud"}, blocked : BOOLEAN]

ASSUME RoutingAssumption ==
  /\ Plans \subseteq [candidates : Seq(Candidate), fallback : BOOLEAN]
  /\ Policies \subseteq {"private", "auto"}
  /\ None \notin Plans \cup Requests

VARIABLES
  conf,        \* what the client was given: a planner, a local runtime, an endpoint
  pc,          \* pc[r]: where the call of r is
  policy,      \* policy[r]: the routing policy in r's metadata
  api,         \* api[r]: create or stream
  plan,        \* plan[r]: the plan r was given, or None
  at,          \* at[r]: the candidate r is at
  deltas,      \* deltas[r]: candidates that sent r's caller an output event
  dones,       \* dones[r]: candidates that sent r's caller a done event
  used,        \* history: the localities r contacted
  lastRoute,   \* lastRouteInfo: the request it describes, or None
  reported,    \* reported[r]: the request whose route event r reported, or None
  overlapped   \* history: the requests another one ran beside

vars == <<conf, pc, policy, api, plan, at, deltas, dones, used, lastRoute,
          reported, overlapped>>

Settled == {"idle", "returned", "failed", "abandoned"}
InFlight == {"planning", "trying", "awaiting", "streaming", "draining"}

Running(r) == pc[r] \in InFlight

Init ==
  /\ conf \in [planner : BOOLEAN, local : BOOLEAN, external : BOOLEAN]
  /\ pc = [r \in Requests |-> "idle"]
  /\ policy = [r \in Requests |-> None]
  /\ api = [r \in Requests |-> "create"]
  /\ plan = [r \in Requests |-> None]
  /\ at = [r \in Requests |-> 0]
  /\ deltas = [r \in Requests |-> {}]
  /\ dones = [r \in Requests |-> {}]
  /\ used = [r \in Requests |-> {}]
  /\ lastRoute = None
  /\ reported = [r \in Requests |-> None]
  /\ overlapped = {}

-----------------------------------------------------------------------------
(* Candidates *)

\* Without a planner an external endpoint is not a reason to try local first.
HasLocal == conf.local \/ (conf.planner /\ conf.external)

ResponseCandidates ==
  LET local == [locality |-> "local", blocked |-> FALSE]
      cloud == [locality |-> "cloud", blocked |-> FALSE]
  IN IF HasLocal THEN <<local, cloud>> ELSE <<cloud>>

PlannerCandidates(p) == IF p = None THEN ResponseCandidates ELSE p.candidates

Candidates(r) == PlannerCandidates(plan[r])

\* Mutant: the policy is not consulted.
CloudFallbackAlways(r) == TRUE

CloudFallbackAllowed(r) == policy[r] # "private"

PlannerFallbackAllowed(r, p) ==
  (p # None => p.fallback) /\ CloudFallbackAllowed(r)

Available(c) == c.locality = "cloud" \/ conf.local \/ conf.external

IsReady(c) == Available(c) /\ ~c.blocked

\* The first ready candidate; only the first candidate when fallback is off.
Selectable(cs, allowed) ==
  {k \in DOMAIN cs :
     /\ IsReady(cs[k])
     /\ \A m \in 1..(k - 1) : allowed /\ ~IsReady(cs[m])}

NextCloud(r) == {k \in DOMAIN Candidates(r) :
                   k > at[r] /\ Candidates(r)[k].locality = "cloud"}

First(P) == CHOOSE k \in P : \A m \in P : k <= m

Goto(r, label) == pc' = [pc EXCEPT ![r] = label]
Contact(r, locality) == used' = [used EXCEPT ![r] = @ \cup {locality}]
\* Mutant: the first description stays.
DescribeOnce(r) ==
  lastRoute' = IF conf.planner /\ lastRoute = None THEN r ELSE lastRoute

Describe(r) == lastRoute' = IF conf.planner THEN r ELSE lastRoute
Report(r) ==
  reported' = [reported EXCEPT ![r] = IF conf.planner THEN lastRoute' ELSE @]
-----------------------------------------------------------------------------
(* Both calls *)

Begin(r, p, a) ==
  LET others == {q \in Requests \ {r} : Running(q)}
  IN /\ pc[r] = "idle"
     /\ Goto(r, "planning")
     /\ policy' = [policy EXCEPT ![r] = p]
     /\ api' = [api EXCEPT ![r] = a]
     /\ overlapped' = IF others = {} THEN overlapped
                                     ELSE overlapped \cup others \cup {r}
     /\ UNCHANGED <<conf, plan, at, deltas, dones, used, lastRoute, reported>>

\* getPlan resolves.  A create call enters the attempt loop; a stream selects
\* one candidate, describes the route and contacts its transport.
PlanArrives(r, p) ==
  LET able == Selectable(PlannerCandidates(p), PlannerFallbackAllowed(r, p))
      k == First(able)
  IN /\ pc[r] = "planning"
     /\ p # None => conf.planner
     /\ plan' = [plan EXCEPT ![r] = p]
     /\ \/ /\ api[r] = "create"
           /\ at' = [at EXCEPT ![r] = 1]
           /\ Goto(r, "trying")
           /\ UNCHANGED <<used, lastRoute>>
        \/ /\ api[r] = "stream"
           /\ able = {}
           /\ Goto(r, "failed")
           /\ UNCHANGED <<at, used, lastRoute>>
        \/ /\ api[r] = "stream"
           /\ able # {}
           /\ at' = [at EXCEPT ![r] = k]
           /\ Describe(r)
           /\ Contact(r, PlannerCandidates(p)[k].locality)
           /\ Goto(r, "streaming")
     /\ UNCHANGED <<conf, policy, api, deltas, dones, reported, overlapped>>

-----------------------------------------------------------------------------
(* create: the loop of runWithInference *)

\* Mutant: the loop runs one candidate past the last.
MoveOnPast(r) ==
  IF at[r] <= Len(Candidates(r)) /\ PlannerFallbackAllowed(r, plan[r])
  THEN at' = [at EXCEPT ![r] = @ + 1] /\ Goto(r, "trying")
  ELSE UNCHANGED at /\ Goto(r, "failed")

\* Mutant: the same candidate is tried again.
MoveOnRetry(r) == UNCHANGED at /\ Goto(r, "trying")

\* The candidate is out; the next one, or the error.
MoveOn(r) ==
  IF at[r] < Len(Candidates(r)) /\ PlannerFallbackAllowed(r, plan[r])
  THEN at' = [at EXCEPT ![r] = @ + 1] /\ Goto(r, "trying")
  ELSE UNCHANGED at /\ Goto(r, "failed")

TryCandidate(r) ==
  /\ pc[r] = "trying"
  /\ \/ /\ at[r] > Len(Candidates(r))
        /\ Goto(r, "failed")
        /\ UNCHANGED <<at, used>>
     \/ /\ at[r] <= Len(Candidates(r))
        /\ ~IsReady(Candidates(r)[at[r]])
        /\ MoveOn(r)
        /\ UNCHANGED used
     \/ /\ at[r] <= Len(Candidates(r))
        /\ IsReady(Candidates(r)[at[r]])
        /\ Contact(r, Candidates(r)[at[r]].locality)
        /\ Goto(r, "awaiting")
        /\ UNCHANGED at
  /\ UNCHANGED <<conf, policy, api, plan, deltas, dones, lastRoute, reported, overlapped>>

\* The transport throws, or the output fails a required quality gate.
CandidateFails(r) ==
  /\ pc[r] = "awaiting"
  /\ MoveOn(r)
  /\ UNCHANGED <<conf, policy, api, plan, deltas, dones, used, lastRoute, reported, overlapped>>

CreateReturns(r) ==
  /\ pc[r] = "awaiting"
  /\ deltas' = [deltas EXCEPT ![r] = {at[r]}]
  /\ dones' = [dones EXCEPT ![r] = {at[r]}]
  /\ Describe(r)
  /\ Report(r)
  /\ Goto(r, "returned")
  /\ UNCHANGED <<conf, policy, api, plan, at, used, overlapped>>

-----------------------------------------------------------------------------
(* stream *)

EmitDelta(r) ==
  /\ pc[r] = "streaming"
  /\ deltas' = [deltas EXCEPT ![r] = @ \cup {at[r]}]
  /\ UNCHANGED <<conf, pc, policy, api, plan, at, dones, used, lastRoute, reported, overlapped>>

\* The done event goes out, whether or not there was output before it; the caller
\* has yet to ask for more.
EmitDone(r) ==
  /\ pc[r] = "streaming"
  /\ dones' = [dones EXCEPT ![r] = @ \cup {at[r]}]
  /\ Goto(r, "draining")
  /\ UNCHANGED <<conf, policy, api, plan, at, deltas, used, lastRoute, reported, overlapped>>

\* A local runtime may end its stream without a done event.
StreamReturns(r) ==
  /\ \/ pc[r] = "draining"
     \/ pc[r] = "streaming" /\ conf.local /\ Candidates(r)[at[r]].locality = "local"
  /\ UNCHANGED lastRoute
  /\ Report(r)
  /\ Goto(r, "returned")
  /\ UNCHANGED <<conf, policy, api, plan, at, deltas, dones, used, overlapped>>

\* Mutant: output the caller has seen is no obstacle.
MayStartCloudAnytime(r) ==
  /\ Candidates(r)[at[r]].locality = "local"
  /\ NextCloud(r) # {}
  /\ PlannerFallbackAllowed(r, plan[r])

\* The catch block of a local stream may start the cloud one, after a done event
\* too; an error of a cloud stream, or after the first output event, reaches the
\* caller.
MayStartCloud(r) ==
  /\ Candidates(r)[at[r]].locality = "local"
  /\ deltas[r] = {}
  /\ NextCloud(r) # {}
  /\ PlannerFallbackAllowed(r, plan[r])

StreamThrows(r) ==
  /\ \/ pc[r] = "streaming"
     \/ (pc[r] = "draining" /\ Candidates(r)[at[r]].locality = "local")
  /\ \/ /\ MayStartCloud(r)
        /\ at' = [at EXCEPT ![r] = First(NextCloud(r))]
        /\ Describe(r)
        /\ Contact(r, "cloud")
        /\ Goto(r, "streaming")
     \/ /\ ~MayStartCloud(r)
        /\ Goto(r, "failed")
        /\ UNCHANGED <<at, lastRoute, used>>
  /\ UNCHANGED <<conf, policy, api, plan, deltas, dones, reported, overlapped>>

\* The caller leaves its for-await loop: the generator is closed where it is.
Abandon(r) ==
  /\ pc[r] \in {"streaming", "draining"}
  /\ Goto(r, "abandoned")
  /\ UNCHANGED <<conf, policy, api, plan, at, deltas, dones, used, lastRoute, reported,
                 overlapped>>

-----------------------------------------------------------------------------
\* What the event loop and the transports bring about by themselves.
Progress(r) ==
  \/ \E p \in Plans \cup {None} : PlanArrives(r, p)
  \/ TryCandidate(r) \/ CandidateFails(r) \/ CreateReturns(r)
  \/ EmitDone(r) \/ StreamReturns(r) \/ StreamThrows(r)

Next ==
  \E r \in Requests :
    \/ \E p \in Policies, a \in {"create", "stream"} : Begin(r, p, a)
    \/ Progress(r)
    \/ EmitDelta(r)
    \/ Abandon(r)

Spec == Init /\ [][Next]_vars

\* Every request to a transport ends, and the caller of a stream keeps reading.
FairSpec == Spec /\ \A r \in Requests : WF_vars(Progress(r))

-----------------------------------------------------------------------------
(* Properties *)

\* The type invariant of the client and the requests on it.
TypeOK ==
  /\ conf \in [planner : BOOLEAN, local : BOOLEAN, external : BOOLEAN]
  /\ pc \in [Requests -> Settled \cup InFlight]
  /\ policy \in [Requests -> Policies \cup {None}]
  /\ api \in [Requests -> {"create", "stream"}]
  /\ plan \in [Requests -> Plans \cup {None}]
  /\ at \in [Requests -> Nat]
  /\ \A r \in Requests :
       /\ at[r] > 1 => at[r] \in DOMAIN Candidates(r)
       /\ deltas[r] \cup dones[r] \subseteq DOMAIN Candidates(r)
  /\ used \in [Requests -> SUBSET {"local", "cloud"}]
  /\ lastRoute \in Requests \cup {None}
  /\ reported \in [Requests -> Requests \cup {None}]
  /\ overlapped \in SUBSET Requests

\* A private request that was served locally first never goes on to the cloud:
\* not after a failed inference, a rejected output, a blocked candidate or a
\* broken stream, whatever the server's plan allows.
PrivateNeverFallsOver ==
  \A r \in Requests : policy[r] = "private" => used[r] # {"local", "cloud"}

\* The caller of one stream never sees output events of two models.
DeltasFromOneRoute ==
  \A r \in Requests : \A m, n \in deltas[r] : m = n

\* A request that ran beside no other reports its own route event, once it has
\* described its final route (lastRouteInfo is a field of the client).
AloneReportsItself ==
  \A r \in Requests : reported[r] # None /\ r \notin overlapped => reported[r] = r

\* Every call returns or throws: the candidate loop and the fallback are finite.
EveryRequestSettles == \A r \in Requests : Running(r) ~> ~Running(r)

\* README, "Supported routing policies": private requests never contact the
\* cloud.
PrivateNeverContactsCloud ==
  \A r \in Requests : policy[r] = "private" => "cloud" \notin used[r]
=============================================================================
