------------------------------ MODULE MCServices ------------------------------
(* Instances of five parts of the SDK that share nothing: a behaviour is one of *)
(* the part that has the focus.                                                *)
EXTENDS TelemetryReporter, RoutingCache, Readiness, Registration, PolicyCache

VARIABLE focus

MCInit ==
  /\ focus \in {"telemetry", "cache", "readiness", "registration", "policy"}
  /\ TelemetryInit /\ CacheInit /\ ReadinessInit /\ RegistrationInit /\ PolicyInit
  /\ focus # "policy" => \A a \in Asks : asker[a] = 1
  /\ asker[1] = 1

MCVars == <<focus, telemetryVars, cacheVars, readinessVars, registrationVars, policyVars>>

\* Bound: calls that are alike begin in the order of their numbers.
InOrder ==
  /\ \A j, k \in Lookups : j < k /\ stage[k] # "new" => stage[j] # "new"
  /\ \A j, k \in Contexts : j < k /\ step[k] # "new" => step[j] # "new"
  /\ \A j, k \in Asks : j < k /\ phase[k] # "new" => phase[j] # "new"

\* Bound: two calls of getPolicy overlap, and a third comes after them.
LastIsAlone == \A a \in Pending : a > 2 => Pending = {a}

MCNext ==
  /\ UNCHANGED focus
  /\ \/ /\ focus = "telemetry" /\ TelemetryNext
        /\ UNCHANGED <<cacheVars, readinessVars, registrationVars, policyVars>>
     \/ /\ focus = "cache" /\ CacheNext
        /\ UNCHANGED <<telemetryVars, readinessVars, registrationVars, policyVars>>
     \/ /\ focus = "readiness" /\ ReadinessNext
        /\ UNCHANGED <<telemetryVars, cacheVars, registrationVars, policyVars>>
     \/ /\ focus = "registration" /\ RegistrationNext
        /\ UNCHANGED <<telemetryVars, cacheVars, readinessVars, policyVars>>
     \/ /\ focus = "policy" /\ PolicyNext
        /\ UNCHANGED <<telemetryVars, cacheVars, readinessVars, registrationVars>>
  /\ InOrder' /\ LastIsAlone'

\* What registers the device is a step of the part that has the focus.
Registers(c) ==
  /\ focus = "registration" /\ Register(c)
  /\ UNCHANGED <<focus, telemetryVars, cacheVars, readinessVars, policyVars>>

MCSpec ==
  MCInit /\ [][MCNext]_MCVars /\ \A c \in Contexts : WF_MCVars(Registers(c))
=============================================================================
