---------------------------- MODULE ServicesProofs ----------------------------
(***************************************************************************)
(* Proofs about six parts of the SDK that share nothing: the telemetry     *)
(* reporter's queue, the routing decisions on disk, the readiness manager  *)
(* with its listeners, the registration of a device, the routing policy,   *)
(* and the routing of responses.                                           *)
(***************************************************************************)
EXTENDS TelemetryReporter, RoutingCache, Readiness, Registration, PolicyCache,
        ResponseRouting, TLAPS, SequenceTheorems, FiniteSetTheorems, WellFoundedInduction
-----------------------------------------------------------------------------
(* RoutingCache *)

Decisions == [Routed -> Lookups \cup {Nothing}]

CacheTypeOK ==
  /\ memory \in Decisions /\ stored \in Decisions
  /\ torn \in BOOLEAN
  /\ opened \subseteq Lookups /\ crowded \subseteq Lookups /\ dropped \subseteq Routed
  /\ doing \in [Lookups -> {"none", "route", "invalidate", "clear"}]
  /\ stage \in [Lookups ->
       {"new", "asking", "reading", "opening", "saving", "removing", "done"}]
  /\ about \in [Lookups -> Routed \cup {Nothing}]
  /\ read \in [Lookups -> Decisions]
  /\ result \in [Lookups -> Lookups \cup {Nothing}]

\* Where a call of each kind can be.
StagesFit ==
  /\ \A c \in Lookups : stage[c] = "new" => result[c] = Nothing
  /\ \A c \in UnderWay :
       /\ about[c] \in Routed
       /\ stage[c] = "asking" => doing[c] = "route"
       /\ stage[c] = "removing" <=> doing[c] = "clear"
       /\ doing[c] \in {"route", "invalidate", "clear"}
       /\ doing[c] = "invalidate" => result[c] = Nothing

\* Nobody is about to put a dropped model back, and an invalidation writes
\* nothing for its own.
WritesAreClean ==
  /\ \A m \in dropped, d \in Lookups : ~PutsBack(d, m)
  /\ \A c \in Lookups : doing[c] = "invalidate" /\ stage[c] \in {"opening", "saving"} =>
       read[c][about[c]] = Nothing

CacheInv == CacheTypeOK /\ StagesFit /\ WritesAreClean /\ InvalidatedStaysGone

LEMMA CacheInitially == CacheInit => CacheInv
  <1> SUFFICES ASSUME CacheInit PROVE CacheInv  OBVIOUS
  <1>1. UnderWay = {}  BY DEF CacheInit, UnderWay
  <1>2. Empty \in Decisions  BY DEF Empty, Decisions
  <1>3. CacheTypeOK  BY <1>2 DEF CacheInit, CacheTypeOK
  <1>4. StagesFit /\ WritesAreClean
    BY <1>1 DEF CacheInit, StagesFit, WritesAreClean
  <1>5. QED  BY <1>3, <1>4 DEF CacheInit, CacheInv, InvalidatedStaysGone

LEMMA CacheStep == CacheInv /\ [CacheNext]_cacheVars => CacheInv'
  <1> SUFFICES ASSUME CacheInv, [CacheNext]_cacheVars PROVE CacheInv'  OBVIOUS
  <1> USE DEF CacheInv
  <1>e. Empty \in Decisions /\ \A m \in Routed : Empty[m] = Nothing  BY DEF Empty, Decisions
  <1>1. ASSUME NEW c \in Lookups, NEW m \in Routed, Route(c, m) PROVE CacheInv'
    <2> USE <1>1 DEF Route, Enter, Reach
    <2>1. CacheTypeOK'  BY DEF CacheTypeOK, Decisions, UnderWay
    <2>2. StagesFit'  BY DEF CacheTypeOK, StagesFit, UnderWay
    <2>3. WritesAreClean'  BY DEF CacheTypeOK, WritesAreClean, PutsBack
    <2>4. InvalidatedStaysGone'  BY DEF InvalidatedStaysGone, OnDisk, Empty
    <2>5. QED  BY <2>1, <2>2, <2>3, <2>4
  <1>2. ASSUME NEW c \in Lookups, NEW m \in Routed, NEW what \in {"invalidate", "clear"},
               Invalidate(c, what, m)
        PROVE  CacheInv'
    <2> USE <1>2 DEF Invalidate, Enter, Reach
    <2>1. CacheTypeOK'  BY <1>e DEF CacheTypeOK, Decisions, UnderWay
    <2>2. StagesFit'  BY DEF CacheTypeOK, StagesFit, UnderWay
    <2>3. WritesAreClean'  BY DEF CacheTypeOK, WritesAreClean, PutsBack
    <2>4. InvalidatedStaysGone'
      BY <1>e DEF CacheTypeOK, InvalidatedStaysGone, OnDisk, Decisions, Empty
    <2>5. QED  BY <2>1, <2>2, <2>3, <2>4
  <1>3. ASSUME NEW m \in Routed, Expire(m) PROVE CacheInv'
    BY <1>3 DEF Expire, CacheTypeOK, StagesFit, WritesAreClean, PutsBack,
       InvalidatedStaysGone, UnderWay, Decisions, OnDisk, Empty
  <1>4. ASSUME NEW c \in Lookups, Decided(c) PROVE CacheInv'
    <2> USE <1>4 DEF Decided, Reach
    <2>0. c \in UnderWay /\ about[c] \in Routed /\ doing[c] = "route"
      BY DEF UnderWay, StagesFit
    <2>1. CacheTypeOK'  BY <2>0 DEF CacheTypeOK, Decisions
    <2>2. StagesFit'  BY <2>0 DEF CacheTypeOK, StagesFit, UnderWay
    <2>3. WritesAreClean'  BY <2>0 DEF CacheTypeOK, WritesAreClean, PutsBack
    <2>4. InvalidatedStaysGone'
      BY <2>0 DEF CacheTypeOK, InvalidatedStaysGone, OnDisk, Decisions, Empty
    <2>5. QED  BY <2>1, <2>2, <2>3, <2>4
  <1>5. ASSUME NEW c \in Lookups, OfflineFallback(c) PROVE CacheInv'
    <2> USE <1>5 DEF OfflineFallback, Reach
    <2>0. c \in UnderWay /\ about[c] \in Routed /\ doing[c] = "route"
      BY DEF UnderWay, StagesFit
    <2>1. \A held \in {OnDisk, Empty} : held[about[c]] \in Lookups \cup {Nothing}
      BY <2>0, <1>e DEF OnDisk, CacheTypeOK, Decisions
    <2>2. CacheTypeOK'  BY <2>0, <2>1 DEF CacheTypeOK
    <2>3. StagesFit'  BY <2>0 DEF CacheTypeOK, StagesFit, UnderWay
    <2>4. WritesAreClean'  BY <2>0 DEF CacheTypeOK, WritesAreClean, PutsBack
    <2>5. InvalidatedStaysGone'  BY DEF InvalidatedStaysGone, OnDisk, Empty
    <2>6. QED  BY <2>2, <2>3, <2>4, <2>5
  <1>6. ASSUME NEW c \in Lookups, ReadFile(c) PROVE CacheInv'
    <2> USE <1>6 DEF ReadFile, Reach
    <2>0. c \in UnderWay /\ about[c] \in Routed
      BY DEF UnderWay, StagesFit
    <2>1. PICK held \in {OnDisk, Empty} : read' = [read EXCEPT ![c] = Entries(c, held)]
      OBVIOUS
    <2>2. /\ Entries(c, held) \in Decisions
          /\ Entries(c, held)[about[c]] = result[c]
          /\ \A m \in Routed \ {about[c]} : Entries(c, held)[m] = held[m]
      <3>1. held \in Decisions  BY <1>e, <2>1 DEF OnDisk, CacheTypeOK
      <3>2. QED  BY <2>0, <3>1 DEF Entries, Decisions, CacheTypeOK
    <2>3. doing[c] = "route" \/ (doing[c] = "invalidate" /\ result[c] = Nothing)
      BY <2>0 DEF StagesFit
    <2>4. \A m \in dropped : Entries(c, held)[m] = Nothing
      BY <1>e, <2>0, <2>1, <2>2, <2>3
      DEF InvalidatedStaysGone, WritesAreClean, PutsBack, CacheTypeOK
    <2>5. CacheTypeOK'  BY <2>1, <2>2 DEF CacheTypeOK
    <2>6. StagesFit'  BY <2>0, <2>3 DEF CacheTypeOK, StagesFit, UnderWay
    <2>7. WritesAreClean'
      BY <2>0, <2>1, <2>2, <2>3, <2>4 DEF CacheTypeOK, WritesAreClean, PutsBack
    <2>8. InvalidatedStaysGone'  BY DEF InvalidatedStaysGone, OnDisk, Empty
    <2>9. QED  BY <2>5, <2>6, <2>7, <2>8
  <1>7. ASSUME NEW c \in Lookups, OpenFile(c) PROVE CacheInv'
    <2> USE <1>7 DEF OpenFile, Reach
    <2>0. c \in UnderWay  BY DEF UnderWay
    <2>1. CacheTypeOK'  BY DEF CacheTypeOK
    <2>2. StagesFit'  BY <2>0 DEF CacheTypeOK, StagesFit, UnderWay
    <2>3. WritesAreClean'  BY DEF CacheTypeOK, WritesAreClean, PutsBack
    <2>4. InvalidatedStaysGone'
      BY <1>e DEF CacheTypeOK, InvalidatedStaysGone, OnDisk, Empty
    <2>5. QED  BY <2>1, <2>2, <2>3, <2>4
  <1>8. ASSUME NEW c \in Lookups, SaveFile(c) PROVE CacheInv'
    <2> USE <1>8 DEF SaveFile, Leave, Reach
    <2>0. c \in UnderWay /\ about[c] \in Routed /\ doing[c] \in {"route", "invalidate"}
      BY DEF UnderWay, StagesFit
    <2>1. CacheTypeOK'  BY <2>0 DEF CacheTypeOK
    <2>2. StagesFit'  BY <2>0 DEF CacheTypeOK, StagesFit, UnderWay
    <2>3. \A m \in dropped' \ dropped :
            /\ doing[c] = "invalidate" /\ m = about[c] /\ memory[m] = Nothing
            /\ \A d \in Lookups : ~PutsBack(d, m)'
      BY <2>0
    <2>4. \A m \in dropped, d \in Lookups : ~PutsBack(d, m)'
      BY DEF CacheTypeOK, WritesAreClean, PutsBack
    <2>5. WritesAreClean'  BY <2>3, <2>4 DEF CacheTypeOK, WritesAreClean
    <2>6. \A m \in dropped' : read[c][m] = Nothing /\ memory[m] = Nothing
      BY <2>3 DEF WritesAreClean, PutsBack, InvalidatedStaysGone
    <2>7. InvalidatedStaysGone'
      BY <1>e, <2>1, <2>6 DEF CacheTypeOK, InvalidatedStaysGone, OnDisk
    <2>8. QED  BY <2>1, <2>2, <2>5, <2>7
  <1>9. ASSUME NEW c \in Lookups, SaveUnseen(c) \/ SaveFails(c) \/ RemoveFails(c)
        PROVE  CacheInv'
    <2>0. /\ stage[c] # "new" /\ stage' = [stage EXCEPT ![c] = "done"]
          /\ opened' \in {opened, opened \ {c}} /\ torn' \in {torn, TRUE}
          /\ UNCHANGED <<memory, stored, doing, about, read, result, crowded, dropped>>
      BY <1>9 DEF SaveUnseen, SaveFails, RemoveFails, Reach
    <2>1. CacheTypeOK'  BY <2>0 DEF CacheTypeOK
    <2>2. StagesFit'  BY <2>0 DEF CacheTypeOK, StagesFit, UnderWay
    <2>3. WritesAreClean'  BY <2>0 DEF CacheTypeOK, WritesAreClean, PutsBack
    <2>4. torn => torn'  BY <1>9 DEF SaveUnseen, SaveFails, RemoveFails
    <2>5. OnDisk' \in {OnDisk, Empty}  BY <2>0, <2>4 DEF OnDisk, Empty
    <2>6. InvalidatedStaysGone'
      BY <1>e, <2>0, <2>5 DEF CacheTypeOK, InvalidatedStaysGone
    <2>7. QED  BY <2>1, <2>2, <2>3, <2>6
  <1>10. ASSUME NEW c \in Lookups, RemoveFile(c) PROVE CacheInv'
    <2> USE <1>10 DEF RemoveFile, Leave, Reach
    <2>0. c \in UnderWay /\ doing[c] = "clear"  BY DEF UnderWay, StagesFit
    <2>1. CacheTypeOK'  BY <2>0, <1>e DEF CacheTypeOK
    <2>2. StagesFit'  BY <2>0 DEF CacheTypeOK, StagesFit, UnderWay
    <2>3. \A m \in dropped' \ dropped :
            memory[m] = Nothing /\ \A d \in Lookups : ~PutsBack(d, m)'
      BY <2>0
    <2>4. \A m \in dropped, d \in Lookups : ~PutsBack(d, m)'
      BY DEF CacheTypeOK, WritesAreClean, PutsBack
    <2>5. WritesAreClean'  BY <2>0, <2>3, <2>4 DEF CacheTypeOK, WritesAreClean
    <2>6. InvalidatedStaysGone'
      BY <1>e, <2>1, <2>3 DEF CacheTypeOK, InvalidatedStaysGone, OnDisk
    <2>7. QED  BY <2>1, <2>2, <2>5, <2>6
  <1>11. CASE UNCHANGED cacheVars
    BY <1>11 DEF cacheVars, CacheTypeOK, StagesFit, WritesAreClean, PutsBack,
       InvalidatedStaysGone, UnderWay, OnDisk, Empty
  <1>12. QED
    BY <1>1, <1>2, <1>3, <1>4, <1>5, <1>6, <1>7, <1>8, <1>9, <1>10, <1>11 DEF CacheNext

\* A decision whose invalidation went through, with nobody between reading or
\* fetching a decision for the model and writing it, answers nobody again until the
\* server does, for any models and any number of calls that rewrite the file, fail
\* to or mix their writes, side by side or later on.
THEOREM InvalidationHolds == CacheSpec => []InvalidatedStaysGone
  <1>1. CacheInv => InvalidatedStaysGone  BY DEF CacheInv
  <1>2. QED  BY <1>1, CacheInitially, CacheStep, PTL DEF CacheSpec
-----------------------------------------------------------------------------
(* Registration *)

RegistrationTypeOK ==
  /\ idFile \in Contexts \cup {Blank}
  /\ step \in [Contexts -> {"new", "generating", "writing", "posting", "waiting",
                           "settled", "dead"}]
  /\ id \in [Contexts -> Contexts \cup {Blank}]
  /\ kept \subseteq Contexts /\ shared \subseteq Contexts /\ unread \subseteq Contexts

\* A process that looks for an id beside no other is the only one that does, and
\* once one has found or written it like this, the file holds it until one opens
\* it that could not read it.
IdsInv ==
  /\ RegistrationTypeOK
  /\ \A c \in Looking \ shared : \A d \in Looking : d = c
  /\ \A c \in kept \ shared :
       /\ idFile # Blank /\ id[c] = idFile
       /\ \A d \in Looking : d \in unread /\ step[d] = "generating"
  /\ \A c \in Contexts : step[c] = "new" => c \notin kept
  /\ Looking \cap kept = {}

LEMMA IdsInitially == RegistrationInit => IdsInv
  BY DEF RegistrationInit, IdsInv, RegistrationTypeOK, Looking

LEMMA IdsStep == IdsInv /\ [RegistrationNext]_registrationVars => IdsInv'
  <1> SUFFICES ASSUME IdsInv, [RegistrationNext]_registrationVars PROVE IdsInv'  OBVIOUS
  <1> USE RegistrationAssumption DEF IdsInv, RegistrationTypeOK, Looking, GoTo, GoOn, registering
  <1>1. ASSUME NEW c \in Contexts, NEW registers \in BOOLEAN, FindId(c, registers)
        PROVE  IdsInv'
    BY <1>1 DEF FindId
  <1>2. ASSUME NEW c \in Contexts, NEW registers \in BOOLEAN, WriteId(c, registers)
        PROVE  IdsInv'
    BY <1>2 DEF WriteId
  <1>3. ASSUME NEW c \in Contexts, NEW registers \in BOOLEAN, WriteIdFails(c, registers)
        PROVE  IdsInv'
    BY <1>3 DEF WriteIdFails
  <1>4. ASSUME NEW c \in Contexts, GenerateId(c) PROVE IdsInv'
    BY <1>4 DEF GenerateId
  <1>5. ASSUME NEW c \in Contexts, OpenIdFile(c) PROVE IdsInv'
    BY <1>5 DEF OpenIdFile
  <1>6. ASSUME NEW c \in Contexts, Die(c) PROVE IdsInv'
    BY <1>6 DEF Die
  <1>7. ASSUME NEW c \in Contexts, Register(c) \/ Lapse(c) PROVE IdsInv'
    BY <1>7 DEF Register, Registered, MarkFailed403, Throws, Again, Lapse
  <1>8. CASE UNCHANGED registrationVars
    BY <1>8 DEF registrationVars
  <1>9. QED
    BY <1>1, <1>2, <1>3, <1>4, <1>5, <1>6, <1>7, <1>8 DEF RegistrationNext

\* Any number of processes that kept an id since the last one that wrote its own
\* over an id it could not read, and did not look for one side by side, kept the
\* same one, whatever others failed to write or died over.
THEOREM OneIdPerMachine == RegistrationSpec => []OneInstallation
  <1>1. IdsInv => OneInstallation  BY DEF IdsInv, OneInstallation
  <1>2. QED  BY <1>1, IdsInitially, IdsStep, PTL DEF RegistrationSpec

\* A registration that is not over has nothing to show yet, and waits only where
\* another attempt is left.
AttemptsInv ==
  /\ RegistrationTypeOK
  /\ attempt \in [Contexts -> 0..MaxAttempts]
  /\ status \in [Contexts -> {"pending", "registered", "failed"}]
  /\ token \in [Contexts -> {"none", "valid", "lapsed"}]
  /\ \A c \in Contexts :
       /\ step[c] = "waiting" => attempt[c] < MaxAttempts
       /\ step[c] # "settled" => status[c] = "pending"
       /\ status[c] # "registered" => token[c] = "none" /\ c \notin beating

LEMMA AttemptsInitially == RegistrationInit => AttemptsInv
  BY RegistrationAssumption DEF RegistrationInit, AttemptsInv, RegistrationTypeOK

LEMMA AttemptsStep == AttemptsInv /\ [RegistrationNext]_registrationVars => AttemptsInv'
  <1> SUFFICES ASSUME AttemptsInv, [RegistrationNext]_registrationVars PROVE AttemptsInv'
    OBVIOUS
  <1> USE RegistrationAssumption DEF AttemptsInv, RegistrationTypeOK, GoTo, GoOn, registering
  <1>1. ASSUME NEW c \in Contexts, NEW registers \in BOOLEAN,
               FindId(c, registers) \/ WriteId(c, registers) \/ WriteIdFails(c, registers)
        PROVE  AttemptsInv'
    BY <1>1 DEF FindId, WriteId, WriteIdFails
  <1>2. ASSUME NEW c \in Contexts, GenerateId(c) \/ OpenIdFile(c) \/ Die(c)
        PROVE  AttemptsInv'
    <2>1. PICK x \in {"generating", "writing", "dead"} : step' = [step EXCEPT ![c] = x]
      BY <1>2 DEF GenerateId, OpenIdFile, Die
    <2>2. UNCHANGED <<id, attempt, status, token, beating>> /\ step[c] # "settled"
      BY <1>2 DEF GenerateId, OpenIdFile, Die
    <2>3. /\ idFile' \in Contexts \cup {Blank} /\ shared' \subseteq Contexts
          /\ kept' \subseteq Contexts /\ unread' \subseteq Contexts
      BY <1>2 DEF GenerateId, OpenIdFile, Die, Looking
    <2>4. QED  BY <2>1, <2>2, <2>3
  <1>3. ASSUME NEW c \in Contexts, Registered(c) \/ MarkFailed403(c) PROVE AttemptsInv'
    BY <1>3 DEF Registered, MarkFailed403
  <1>4. ASSUME NEW c \in Contexts, Throws(c) PROVE AttemptsInv'
    BY <1>4 DEF Throws
  <1>5. ASSUME NEW c \in Contexts, Again(c) PROVE AttemptsInv'
    BY <1>5 DEF Again, NextAttempt
  <1>6. ASSUME NEW c \in Contexts, Lapse(c) PROVE AttemptsInv'
    BY <1>6 DEF Lapse
  <1>7. CASE UNCHANGED registrationVars
    BY <1>7 DEF registrationVars
  <1>8. QED
    BY <1>1, <1>2, <1>3, <1>4, <1>5, <1>6, <1>7 DEF RegistrationNext, Register

\* What is left of c's registration: a post and a wait for every attempt.
AttemptsLeft(c) ==
  IF step[c] = "posting" THEN 2 * (MaxAttempts - attempt[c]) + 1
  ELSE IF step[c] = "waiting" THEN 2 * (MaxAttempts - attempt[c])
  ELSE 0

\* Registered with a token and a heartbeat, or failed with neither.
Whole(c) ==
  \/ status[c] = "registered" /\ token[c] # "none" /\ c \in beating
  \/ status[c] = "failed" /\ token[c] = "none" /\ c \notin beating

\* The finite descent under RegistrationSettles: each post and each timer takes a
\* registration forward, nothing that another process does takes it back, and
\* where it ends it ends whole.
AttemptsRunOut ==
  [][\A c \in Contexts :
       /\ step[c] \in {"posting", "waiting"} =>
            AttemptsLeft(c)' \in 0..AttemptsLeft(c)
       /\ Register(c) =>
            /\ AttemptsLeft(c)' \in 0..(AttemptsLeft(c) - 1)
            /\ step'[c] = "settled" => Whole(c)']_registrationVars

LEMMA AttemptsLeftType ==
  ASSUME NEW c \in Contexts
  PROVE  /\ AttemptsInv => AttemptsLeft(c) \in Nat
         /\ AttemptsInv /\ step[c] = "posting" => AttemptsLeft(c) > 0
         /\ AttemptsInv /\ step[c] = "waiting" => AttemptsLeft(c) > 1
  BY RegistrationAssumption DEF AttemptsInv, AttemptsLeft

LEMMA RegisterRunsOut ==
  ASSUME AttemptsInv, AttemptsInv', NEW c \in Contexts, Register(c)
  PROVE  /\ AttemptsLeft(c)' \in 0..(AttemptsLeft(c) - 1)
         /\ step'[c] = "settled" => Whole(c)'
         /\ \A d \in Contexts \ {c} : step'[d] = step[d] /\ attempt'[d] = attempt[d]
  <1> USE RegistrationAssumption
  <1> DEFINE Apart == \A d \in Contexts \ {c} : step'[d] = step[d] /\ attempt'[d] = attempt[d]
  <1>0. /\ AttemptsLeft(c) \in Nat /\ DOMAIN step = Contexts
        /\ step[c] = "posting" => AttemptsLeft(c) > 0
    BY AttemptsLeftType DEF AttemptsInv, RegistrationTypeOK
  <1>1. ASSUME step[c] = "posting", step' = [step EXCEPT ![c] = "settled"],
               attempt' = attempt
        PROVE  AttemptsLeft(c)' \in 0..(AttemptsLeft(c) - 1) /\ Apart
    BY <1>0, <1>1 DEF AttemptsLeft
  <1>2. CASE Registered(c)
    <2>1. Whole(c)'  BY <1>2 DEF AttemptsInv, Registered, Whole
    <2>2. QED  BY <1>1, <1>2, <2>1 DEF Registered, GoTo
  <1>3. CASE MarkFailed403(c)
    <2>1. Whole(c)'  BY <1>3 DEF AttemptsInv, MarkFailed403, Whole
    <2>2. QED  BY <1>1, <1>3, <2>1 DEF MarkFailed403, GoTo
  <1>4. CASE Throws(c)
    <2>1. CASE attempt[c] < MaxAttempts
      <3>1. /\ step[c] = "posting" /\ step' = [step EXCEPT ![c] = "waiting"]
            /\ attempt' = attempt
        BY <1>4, <2>1 DEF Throws, GoTo
      <3>2. step'[c] = "waiting" /\ Apart  BY <1>0, <3>1
      <3>3. AttemptsLeft(c) = 2 * (MaxAttempts - attempt[c]) + 1
            /\ AttemptsLeft(c)' = 2 * (MaxAttempts - attempt[c])
            /\ attempt[c] \in 0..MaxAttempts
        BY <3>1, <3>2 DEF AttemptsInv, AttemptsLeft
      <3>4. QED  BY <3>2, <3>3
    <2>2. CASE ~(attempt[c] < MaxAttempts)
      <3>1. Whole(c)'  BY <1>4, <2>2 DEF AttemptsInv, Throws, Whole
      <3>2. QED  BY <1>1, <1>4, <2>2, <3>1 DEF Throws, GoTo
    <2>3. QED  BY <2>1, <2>2
  <1>5. CASE Again(c)
    <2>1. /\ step[c] = "waiting" /\ step' = [step EXCEPT ![c] = "posting"]
          /\ attempt' = [attempt EXCEPT ![c] = @ + 1]
          /\ attempt \in [Contexts -> 0..MaxAttempts] /\ attempt[c] < MaxAttempts
      BY <1>5 DEF Again, NextAttempt, GoTo, AttemptsInv
    <2>2. /\ step'[c] = "posting" /\ attempt'[c] = attempt[c] + 1
          /\ attempt[c] \in 0..MaxAttempts /\ Apart
      BY <1>0, <2>1
    <2>3. AttemptsLeft(c) = 2 * (MaxAttempts - attempt[c])
          /\ AttemptsLeft(c)' = 2 * (MaxAttempts - (attempt[c] + 1)) + 1
      BY <2>1, <2>2 DEF AttemptsLeft
    <2>4. QED  BY <2>1, <2>2, <2>3
  <1>6. QED  BY <1>2, <1>3, <1>4, <1>5 DEF Register

LEMMA AttemptsRunOutStep ==
  AttemptsInv /\ AttemptsInv' /\ [RegistrationNext]_registrationVars =>
    [\A c \in Contexts :
       /\ step[c] \in {"posting", "waiting"} =>
            AttemptsLeft(c)' \in 0..AttemptsLeft(c)
       /\ Register(c) =>
            /\ AttemptsLeft(c)' \in 0..(AttemptsLeft(c) - 1)
            /\ step'[c] = "settled" => Whole(c)']_registrationVars
  <1> SUFFICES ASSUME AttemptsInv, AttemptsInv', RegistrationNext, NEW c \in Contexts,
                      step[c] \in {"posting", "waiting"} \/ Register(c)
               PROVE  /\ step[c] \in {"posting", "waiting"} =>
                           AttemptsLeft(c)' \in 0..AttemptsLeft(c)
                      /\ Register(c) =>
                           /\ AttemptsLeft(c)' \in 0..(AttemptsLeft(c) - 1)
                           /\ step'[c] = "settled" => Whole(c)'
    OBVIOUS
  <1>0. AttemptsLeft(c) \in Nat /\ DOMAIN step = Contexts
    BY AttemptsLeftType DEF AttemptsInv, RegistrationTypeOK
  <1>1. CASE Register(c)  BY <1>0, <1>1, RegisterRunsOut
  <1>2. CASE ~Register(c)
    <2>0. step[c] \in {"posting", "waiting"}  BY <1>2
    <2>1. ASSUME step'[c] = step[c], attempt'[c] = attempt[c]
          PROVE  AttemptsLeft(c)' = AttemptsLeft(c)
      BY <2>1 DEF AttemptsLeft
    <2>2. ASSUME NEW d \in Contexts, Register(d)
          PROVE  AttemptsLeft(c)' = AttemptsLeft(c)
      BY <1>2, <2>1, <2>2, RegisterRunsOut
    <2>3. ASSUME NEW d \in Contexts, NEW registers \in BOOLEAN,
                 FindId(d, registers) \/ WriteId(d, registers) \/ WriteIdFails(d, registers)
                   \/ GenerateId(d) \/ OpenIdFile(d)
          PROVE  AttemptsLeft(c)' = AttemptsLeft(c)
      <3>1. d # c /\ attempt' = attempt
        BY <2>0, <2>3 DEF FindId, WriteId, WriteIdFails, GenerateId, OpenIdFile, registering
      <3>2. step'[c] = step[c]
        BY <1>0, <2>3, <3>1 DEF FindId, WriteId, WriteIdFails, GenerateId, OpenIdFile, GoTo, GoOn
      <3>3. QED  BY <2>1, <3>1, <3>2
    <2>4. ASSUME NEW d \in Contexts, Die(d)
          PROVE  AttemptsLeft(c)' \in {0, AttemptsLeft(c)}
      <3>1. attempt' = attempt /\ step' = [step EXCEPT ![d] = "dead"]
        BY <2>4 DEF Die, registering, GoTo
      <3>2. CASE d = c  BY <1>0, <3>1, <3>2 DEF AttemptsLeft
      <3>3. CASE d # c  BY <1>0, <2>1, <3>1, <3>3
      <3>4. QED  BY <3>2, <3>3
    <2>5. ASSUME NEW d \in Contexts, Lapse(d)
          PROVE  AttemptsLeft(c)' = AttemptsLeft(c)
      BY <2>1, <2>5 DEF Lapse
    <2>6. AttemptsLeft(c)' \in {0, AttemptsLeft(c)}
      BY <2>2, <2>3, <2>4, <2>5 DEF RegistrationNext
    <2>7. QED  BY <1>0, <1>2, <2>6
  <1>3. QED  BY <1>1, <1>2

\* For any number of processes and attempts, and whoever dies: a registration makes
\* at most MaxAttempts + 1 posts, and leaves no half of one behind.
THEOREM RegistrationsRunOut == RegistrationSpec => AttemptsRunOut
  BY AttemptsInitially, AttemptsStep, AttemptsRunOutStep, PTL
  DEF RegistrationSpec, AttemptsRunOut
-----------------------------------------------------------------------------
(* TelemetryReporter *)

\* The sequence holds the n numbers that follow a.
Follow(s, a, n) ==
  /\ s \in Seq(Nat) /\ Len(s) = n
  /\ \A k \in 1 .. n : s[k] = a + k

\* How many events have been posted.
Posted == tracked - Len(queue)

\* The queue is the latest events in their order; what came before them was
\* posted, each once; and what is left beyond a full batch was left by batch.
QueueInv ==
  /\ tracked \in Nat /\ timer \in BOOLEAN /\ flooded \in BOOLEAN
  /\ Posted \in Nat
  /\ Follow(queue, Posted, Len(queue))
  /\ UNION {In(b) : b \in requests} = 1 .. Posted
  /\ \A a, b \in requests : a = b \/ In(a) \cap In(b) = {}
  /\ ~ flooded => Len(queue) <= MaxBatchSize
  /\ ~ timer /\ ~ flooded => In(queue) \subseteq tooLate

LEMMA FollowersIn ==
  ASSUME NEW s, NEW a \in Nat, NEW n \in Nat, Follow(s, a, n)
  PROVE  In(s) = a + 1 .. a + n
  <1>1. DOMAIN s = 1 .. n  BY LenProperties DEF Follow
  <1>2. \A x \in a + 1 .. a + n : x - a \in 1 .. n /\ s[x - a] = x  BY DEF Follow
  <1>3. \A k \in 1 .. n : s[k] \in a + 1 .. a + n  BY DEF Follow
  <1>4. QED  BY <1>1, <1>2, <1>3 DEF In

\* What flush does with a queue q of the n events after a.
LEMMA FlushEffect ==
  ASSUME NEW q, NEW a \in Nat, NEW n \in Nat, Follow(q, a, n)
  PROVE  LET m == Least(n, MaxBatchSize)
         IN /\ m \in 0 .. n /\ (n > 0 => m > 0)
            /\ Follow(Batch(q), a, m) /\ Follow(Rest(q), a + m, n - m)
  <1> DEFINE m == Least(n, MaxBatchSize)
  <1>1. m \in 0 .. n /\ (n > 0 => m > 0)  BY MaxBatchSizeAssumption DEF Least
  <1>2. \A k \in 1 .. n : q[k] \in Nat  BY DEF Follow
  <1>3. Follow(Batch(q), a, m)
    <2>1. Batch(q) = SubSeq(q, 1, m)  BY DEF Batch, Follow
    <2>2. /\ SubSeq(q, 1, m) \in Seq(Nat)
          /\ Len(SubSeq(q, 1, m)) = IF 1 <= m THEN m - 1 + 1 ELSE 0
          /\ \A k \in 1 .. m - 1 + 1 : SubSeq(q, 1, m)[k] = q[1 + k - 1]
      <3>1. \A k \in 1 .. m : q[k] \in Nat  BY <1>1, <1>2
      <3> HIDE DEF m
      <3>2. QED  BY <1>1, <3>1, SubSeqProperties
    <2> HIDE DEF m
    <2>3. QED  BY <1>1, <2>1, <2>2 DEF Follow
  <1>4. Follow(Rest(q), a + m, n - m)
    <2>1. Rest(q) = SubSeq(q, m + 1, n)  BY DEF Rest, Follow
    <2>2. /\ SubSeq(q, m + 1, n) \in Seq(Nat)
          /\ Len(SubSeq(q, m + 1, n)) = IF m + 1 <= n THEN n - (m + 1) + 1 ELSE 0
          /\ \A k \in 1 .. n - (m + 1) + 1 : SubSeq(q, m + 1, n)[k] = q[m + 1 + k - 1]
      <3>1. \A k \in m + 1 .. n : q[k] \in Nat  BY <1>1, <1>2
      <3> HIDE DEF m
      <3>2. QED  BY <1>1, <3>1, SubSeqProperties
    <2> HIDE DEF m
    <2>3. \A k \in 1 .. n - m : q[m + k] = a + m + k  BY <1>1 DEF Follow
    <2>4. QED  BY <1>1, <2>1, <2>2, <2>3 DEF Follow
  <1>5. QED  BY <1>1, <1>3, <1>4

\* The queue with the next n events is again of events that follow each other.
LEMMA WithEffect ==
  ASSUME QueueInv, NEW n \in Nat
  PROVE  Follow(With(n), Posted, Len(queue) + n)
  <1> DEFINE new == [k \in 1 .. n |-> tracked + k]
  <1>1. new \in Seq(Nat) /\ Len(new) = n /\ \A k \in 1 .. n : new[k] = tracked + k
    BY LenProperties DEF QueueInv
  <1>2. With(n) = queue \o new  BY DEF With
  <1> HIDE DEF new
  <1>3. /\ queue \o new \in Seq(Nat) /\ Len(queue \o new) = Len(queue) + n
        /\ \A k \in 1 .. Len(queue) + n :
             (queue \o new)[k] = IF k <= Len(queue) THEN queue[k] ELSE new[k - Len(queue)]
    BY <1>1, ConcatProperties DEF QueueInv, Follow
  <1>4. Len(queue) \in Nat  BY LenProperties DEF QueueInv, Follow
  <1>5. QED  BY <1>1, <1>2, <1>3, <1>4 DEF QueueInv, Follow, Posted

\* A flush of the queue with the next n events.
LEMMA FlushStep ==
  ASSUME QueueInv, NEW n \in Nat, tracked' = tracked + n, timer' \in BOOLEAN,
         flooded' \in BOOLEAN, NEW q, q = With(n), Flush(q),
         ~ flooded' => Len(Rest(q)) <= MaxBatchSize,
         ~ timer' /\ ~ flooded' => In(Rest(q)) \subseteq tooLate'
  PROVE  QueueInv'
  <1> DEFINE l == Len(queue) + n
             m == Least(l, MaxBatchSize)
  <1>1. l \in Nat /\ Posted \in Nat /\ tracked \in Nat /\ Len(queue) \in Nat
    BY LenProperties DEF QueueInv, Follow
  <1>2. Follow(q, Posted, l)  BY WithEffect
  <1> HIDE DEF l
  <1>3. /\ m \in 0 .. l /\ (l > 0 => m > 0)
        /\ Follow(Batch(q), Posted, m) /\ Follow(Rest(q), Posted + m, l - m)
    BY <1>1, <1>2, FlushEffect
  <1> HIDE DEF m
  <1>4. queue' = Rest(q) /\ Len(queue') = l - m /\ Posted' = Posted + m
    <2>1. queue' = Rest(q)  BY DEF Flush
    <2>2. Len(queue') = l - m  BY <1>3, <2>1 DEF Follow
    <2>3. tracked' - Len(queue') = tracked + n - (l - m)  BY <1>1, <1>3, <2>2
    <2>4. QED  BY <1>1, <1>3, <2>1, <2>2, <2>3 DEF Posted, l
  <1>5. UNION {In(b) : b \in requests} = 1 .. Posted  BY DEF QueueInv
  <1>6. In(Batch(q)) = Posted + 1 .. Posted + m  BY <1>1, <1>3, FollowersIn
  <1>7. CASE q = << >>
    <2>1. l = 0 /\ m = 0  BY <1>1, <1>2, <1>3, <1>7, EmptySeq DEF Follow
    <2>2. requests' = requests /\ Posted' = Posted  BY <1>1, <1>4, <1>7, <2>1 DEF Flush
    <2>3. Follow(queue', Posted', Len(queue'))  BY <1>1, <1>3, <1>4
    <2>4. QED  BY <1>1, <1>4, <2>2, <2>3 DEF QueueInv
  <1>8. CASE q # << >>
    <2>1. requests' = requests \cup {Batch(q)}  BY <1>8 DEF Flush
    <2>2. UNION {In(b) : b \in requests'} = (1 .. Posted) \cup (Posted + 1 .. Posted + m)
      BY <1>5, <1>6, <2>1
    <2>3. UNION {In(b) : b \in requests'} = 1 .. Posted'  BY <1>1, <1>3, <1>4, <2>2
    <2>4. \A b \in requests : In(b) \cap In(Batch(q)) = {}
      <3>1. \A b \in requests : In(b) \subseteq 1 .. Posted  BY <1>5
      <3>2. QED  BY <1>1, <1>3, <1>6, <3>1
    <2>5. \A a, b \in requests' : a = b \/ In(a) \cap In(b) = {}
      BY <2>1, <2>4 DEF QueueInv
    <2>6. Follow(queue', Posted', Len(queue'))  BY <1>1, <1>3, <1>4
    <2>7. Posted' \in Nat /\ tracked' \in Nat  BY <1>1, <1>3, <1>4
    <2>8. QED  BY <1>4, <2>3, <2>5, <2>6, <2>7 DEF QueueInv
  <1>9. QED  BY <1>7, <1>8

LEMMA QueueInitially == TelemetryInit => QueueInv
  <1> SUFFICES ASSUME TelemetryInit PROVE QueueInv  OBVIOUS
  <1>1. Len(queue) = 0 /\ queue \in Seq(Nat) /\ tracked = 0
    BY EmptySeq DEF TelemetryInit
  <1>2. Posted = 0  BY <1>1 DEF Posted
  <1>3. Follow(queue, Posted, Len(queue))  BY <1>1, <1>2 DEF Follow
  <1>4. UNION {In(b) : b \in requests} = 1 .. Posted  BY <1>2 DEF TelemetryInit
  <1>5. timer = TRUE /\ flooded = FALSE /\ requests = {}  BY DEF TelemetryInit
  <1>6. Len(queue) <= MaxBatchSize  BY <1>1, MaxBatchSizeAssumption
  <1>7. QED  BY <1>1, <1>2, <1>3, <1>4, <1>5, <1>6 DEF QueueInv

LEMMA QueueStep == QueueInv /\ [TelemetryNext]_telemetryVars => QueueInv'
  <1> SUFFICES ASSUME QueueInv, [TelemetryNext]_telemetryVars PROVE QueueInv'  OBVIOUS
  <1>0. /\ tracked \in Nat /\ Posted \in Nat /\ Len(queue) \in Nat /\ MaxBatchSize \in Nat \ {0}
        /\ Posted + Len(queue) = tracked
    BY LenProperties, MaxBatchSizeAssumption DEF QueueInv, Follow, Posted
  <1>q. In(queue) = Posted + 1 .. tracked
    BY <1>0, FollowersIn DEF QueueInv
  \* What a flush of the queue with the next n events leaves.
  <1>r. ASSUME NEW n \in Nat
        PROVE  /\ Len(Rest(With(n))) = IF Len(queue) + n <= MaxBatchSize THEN 0
                                      ELSE Len(queue) + n - MaxBatchSize
               /\ In(Rest(With(n))) \subseteq Posted + 1 .. tracked + n
               /\ Len(queue) + n <= MaxBatchSize => In(Rest(With(n))) = {}
               /\ Len(With(n)) = Len(queue) + n
               /\ In(With(n)) = Posted + 1 .. tracked + n
    <2> DEFINE l == Len(queue) + n
               m == Least(l, MaxBatchSize)
    <2>1. Follow(With(n), Posted, l) /\ l \in Nat  BY <1>0, WithEffect
    <2>2. In(With(n)) = Posted + 1 .. Posted + l  BY <1>0, <2>1, FollowersIn
    <2>3. Posted + l = tracked + n  BY <1>0
    <2> HIDE DEF l
    <2>4. m \in 0 .. l /\ Follow(Rest(With(n)), Posted + m, l - m)
      BY <1>0, <2>1, FlushEffect
    <2>5. In(Rest(With(n))) = Posted + m + 1 .. Posted + m + (l - m)
      <3> HIDE DEF m
      <3>1. QED  BY <1>0, <2>1, <2>4, FollowersIn
    <2>6. Len(Rest(With(n))) = l - m /\ Len(With(n)) = l
      BY <2>1, <2>4 DEF Follow
    <2>7. m = IF l <= MaxBatchSize THEN l ELSE MaxBatchSize  BY <1>0, <2>1 DEF Least
    <2> HIDE DEF m
    <2>8. Posted + m + (l - m) = tracked + n  BY <1>0, <2>1, <2>3, <2>4
    <2>9. In(Rest(With(n))) \subseteq Posted + 1 .. tracked + n
      BY <1>0, <2>1, <2>4, <2>5, <2>8
    <2>10. l <= MaxBatchSize => In(Rest(With(n))) = {}
      BY <1>0, <2>1, <2>4, <2>5, <2>7
    <2>11. Len(Rest(With(n))) = IF l <= MaxBatchSize THEN 0 ELSE l - MaxBatchSize
      BY <1>0, <2>1, <2>6, <2>7
    <2>12. In(With(n)) = Posted + 1 .. tracked + n  BY <2>2, <2>3
    <2> USE DEF l
    <2>13. Len(Rest(With(n))) = IF Len(queue) + n <= MaxBatchSize THEN 0
                                ELSE Len(queue) + n - MaxBatchSize
      BY <1>0, <2>1, <2>11
    <2>14. Len(queue) + n <= MaxBatchSize => In(Rest(With(n))) = {}  BY <2>10
    <2>15. Len(With(n)) = Len(queue) + n  BY <2>6
    <2>16. QED  BY <2>9, <2>12, <2>13, <2>14, <2>15, Zenon
  <1>z. With(0) = queue
    <2>1. With(0) = queue \o << >>  BY DEF With
    <2>2. QED  BY <2>1, ConcatEmptySeq DEF QueueInv, Follow
  <1>t. ~ timer /\ ~ flooded => Posted + 1 .. tracked \subseteq tooLate
    BY <1>q DEF QueueInv
  <1>s. ~ flooded => Len(queue) <= MaxBatchSize  BY DEF QueueInv
  <1>1. CASE Track
    <2>1. tracked' = tracked + 1 /\ timer' = timer /\ flooded' = flooded
          /\ tooLate' = IF timer THEN tooLate ELSE tooLate \cup (tracked + 1 .. tracked + 1)
      BY <1>1 DEF Track, Arrive
    <2>2. ~ timer' /\ ~ flooded' => Posted + 1 .. tracked + 1 \subseteq tooLate'
      BY <1>0, <1>t, <2>1
    <2>a. /\ Len(Rest(With(1))) = IF Len(queue) + 1 <= MaxBatchSize THEN 0
                                  ELSE Len(queue) + 1 - MaxBatchSize
          /\ Len(With(1)) = Len(queue) + 1
          /\ In(With(1)) = Posted + 1 .. tracked + 1
          /\ In(Rest(With(1))) \subseteq Posted + 1 .. tracked + 1
      BY <1>r
    <2>3. CASE Len(With(1)) >= MaxBatchSize
      <3>1. Flush(With(1))  BY <1>1, <2>3 DEF Track, Enqueue
      <3>2. ~ flooded' => Len(Rest(With(1))) <= MaxBatchSize
        BY <1>0, <2>a, <1>s, <2>1
      <3>3. ~ timer' /\ ~ flooded' => In(Rest(With(1))) \subseteq tooLate'
        <4>1. In(Rest(With(1))) \subseteq Posted + 1 .. tracked + 1  BY <1>0, <1>r
        <4>2. QED  BY <2>2, <4>1
      <3>4. timer' \in BOOLEAN /\ flooded' \in BOOLEAN  BY <2>1 DEF QueueInv
      <3>5. QED  BY <2>1, <3>1, <3>2, <3>3, <3>4, FlushStep
    <2>4. CASE ~ (Len(With(1)) >= MaxBatchSize)
      <3>1. queue' = With(1) /\ UNCHANGED <<requests, flying>>
        BY <1>1, <2>4 DEF Track, Enqueue
      <3>2. Len(queue') = Len(queue) + 1 /\ Posted' = Posted
        BY <1>0, <2>a, <2>1, <3>1 DEF Posted
      <3>3. Follow(queue', Posted', Len(queue'))  BY <3>1, <3>2, WithEffect
      <3>4. In(queue') = Posted + 1 .. tracked + 1  BY <2>a, <3>1
      <3>5. Len(queue') <= MaxBatchSize  BY <1>0, <2>a, <2>4, <3>1
      <3>6. /\ UNION {In(b) : b \in requests'} = 1 .. Posted'
            /\ \A a, b \in requests' : a = b \/ In(a) \cap In(b) = {}
        BY <3>1, <3>2 DEF QueueInv
      <3>7. ~ timer' /\ ~ flooded' => In(queue') \subseteq tooLate'  BY <2>2, <3>4
      <3>8. tracked' \in Nat /\ timer' \in BOOLEAN /\ flooded' \in BOOLEAN /\ Posted' \in Nat
        BY <1>0, <2>1, <3>2 DEF QueueInv
      <3>9. QED  BY <3>3, <3>5, <3>6, <3>7, <3>8 DEF QueueInv
    <2>5. QED  BY <2>3, <2>4
  <1>2. ASSUME NEW n \in 1 .. MaxEvents, TrackAll(n) PROVE QueueInv'
    <2>1. tracked' = tracked + n /\ timer' = timer /\ Flush(With(n)) /\ n \in Nat
          /\ tooLate' = (IF timer THEN tooLate ELSE tooLate \cup (tracked + 1 .. tracked + n))
      BY <1>2 DEF TrackAll, Arrive
    <2>a. flooded' = (flooded \/ Len(Rest(With(n))) > MaxBatchSize)  BY <1>2 DEF TrackAll
    <2>b. ~ flooded' => ~ flooded /\ ~ (Len(Rest(With(n))) > MaxBatchSize)  BY <2>a, Zenon
    <2>c. Len(Rest(With(n))) \in Nat  BY <1>0, <1>r, <2>1
    <2>2. ~ flooded' => ~ flooded /\ Len(Rest(With(n))) <= MaxBatchSize
      BY <1>0, <2>b, <2>c
    <2>3. ~ timer' /\ ~ flooded' => Posted + 1 .. tracked + n \subseteq tooLate'
      BY <1>0, <1>t, <2>1, <2>2
    <2>4. In(Rest(With(n))) \subseteq Posted + 1 .. tracked + n  BY <1>0, <1>r, <2>1
    <2>5. timer' \in BOOLEAN /\ flooded' \in BOOLEAN  BY <2>1, <2>a DEF QueueInv
    <2>6. QED  BY <2>1, <2>2, <2>3, <2>4, <2>5, FlushStep
  <1>3. CASE FlushNow
    <2>1. tracked' = tracked + 0 /\ timer' = timer /\ flooded' = flooded
          /\ tooLate' = tooLate /\ Flush(With(0))
      BY <1>0, <1>3, <1>z DEF FlushNow
    <2>2. ~ flooded' => Len(Rest(With(0))) <= MaxBatchSize
      BY <1>0, <1>r, <1>s, <2>1
    <2>3. In(Rest(With(0))) \subseteq Posted + 1 .. tracked  BY <1>0, <1>r
    <2>4. timer' \in BOOLEAN /\ flooded' \in BOOLEAN  BY <2>1 DEF QueueInv
    <2>5. ~ timer' /\ ~ flooded' => In(Rest(With(0))) \subseteq tooLate'
      BY <1>t, <2>1, <2>3
    <2>6. QED  BY <2>1, <2>2, <2>4, <2>5, FlushStep
  <1>4. CASE Dispose
    <2>1. tracked' = tracked + 0 /\ timer' = FALSE /\ flooded' = flooded
          /\ tooLate' = tooLate /\ Flush(With(0))
      BY <1>0, <1>4, <1>z DEF Dispose
    <2>2. ~ flooded' => Len(Rest(With(0))) <= MaxBatchSize
      BY <1>0, <1>r, <1>s, <2>1
    <2>3. ~ flooded' => In(Rest(With(0))) = {}
      BY <1>0, <1>r, <1>s, <2>1
    <2>4. timer' \in BOOLEAN /\ flooded' \in BOOLEAN  BY <2>1 DEF QueueInv
    <2>5. QED  BY <2>1, <2>2, <2>3, <2>4, FlushStep
  <1>5. ASSUME NEW b \in flying, Answered(b) PROVE QueueInv'
    BY <1>5 DEF Answered, QueueInv, Posted, Follow, In
  <1>6. CASE UNCHANGED telemetryVars
    BY <1>6 DEF telemetryVars, QueueInv, Posted, Follow, In
  <1>7. QED  BY <1>1, <1>2, <1>3, <1>4, <1>5, <1>6 DEF TelemetryNext

\* However flushes overlap, every event is posted once or waits, and dispose
\* strands none that came before it unless batch had overfilled the queue, for
\* any batch size and any number of events.
THEOREM NoEventIsStranded == TelemetrySpec => []NothingIsStranded
  <1>1. QueueInv => NothingIsStranded
    <2> SUFFICES ASSUME QueueInv PROVE NothingIsStranded  OBVIOUS
    <2>0. tracked \in Nat /\ Posted \in Nat /\ Len(queue) \in Nat /\ Posted + Len(queue) = tracked
      BY LenProperties DEF QueueInv, Follow, Posted
    <2>1. In(queue) = Posted + 1 .. tracked  BY <2>0, FollowersIn DEF QueueInv
    <2>2. UNION {In(b) : b \in requests} = 1 .. Posted  BY DEF QueueInv
    <2>3. \A b \in requests : In(b) \subseteq 1 .. Posted  BY <2>2
    <2>4. \A b \in requests : In(b) \cap In(queue) = {}  BY <2>0, <2>1, <2>3
    <2>5. 1 .. tracked = In(queue) \cup UNION {In(b) : b \in requests}
      BY <2>0, <2>1, <2>2
    <2>6. QED  BY <2>4, <2>5 DEF QueueInv, NothingIsStranded
  <1>2. QED  BY <1>1, QueueInitially, QueueStep, PTL DEF TelemetrySpec
-----------------------------------------------------------------------------
(* Readiness *)

\* A listener of model m has its turn still to come.
Coming(m) ==
  \E k \in DOMAIN listeners : listeners[k] = m /\ k >= turn /\ (inside => k > turn)

Served(m) == m \notin skipped => idRuntimes[m] = readyModels[m]

ReadinessTypes ==
  /\ listeners \in Seq(Managed \cup Listeners)
  /\ readyModels \in [Managed -> Paths \cup {Unset}]
  /\ idRuntimes \in [Managed -> Paths \cup {Unset}]
  /\ waiting \in [Managed -> SUBSET Waiters]
  /\ turn \in Nat
  /\ inside \in BOOLEAN /\ removedOne \in BOOLEAN /\ bootstrapped \in BOOLEAN
  /\ update # Quiet =>
       update.of \in Managed /\ update.path \in Paths \cup {"failed"} /\ turn >= 1
  /\ update # Quiet => bootstrapped
  /\ inside => update # Quiet

\* Once there are listeners of the models they stay, and before that no model is
\* ready.  What is ready is served; of the model that is being handed round, either
\* it is served already, or its listener is still to come, or a listener went.
ReadinessInv ==
  /\ ReadinessTypes
  /\ ~ bootstrapped => \A m \in Managed : readyModels[m] = Unset
  /\ bootstrapped => \A m \in Managed : \E k \in DOMAIN listeners : listeners[k] = m
  /\ \A m \in Managed :
       readyModels[m] # Unset /\ (update = Quiet \/ m # update.of) =>
         waiting[m] = {} /\ Served(m)
  /\ update # Quiet /\ update.path \in Paths =>
       /\ readyModels[update.of] = update.path
       /\ removedOne \/ idRuntimes[update.of] = update.path \/ Coming(update.of)
  /\ update # Quiet /\ update.path \notin Paths /\ readyModels[update.of] # Unset =>
       Served(update.of)

LEMMA ReadinessInitially == ReadinessInit => ReadinessInv
  <1> SUFFICES ASSUME ReadinessInit PROVE ReadinessInv  OBVIOUS
  <1>1. /\ listeners = << >> /\ update = Quiet /\ turn = 0 /\ skipped = {}
        /\ bootstrapped = FALSE /\ inside = FALSE /\ removedOne = FALSE
        /\ readyModels = [m \in Managed |-> Unset] /\ waiting = [m \in Managed |-> {}]
        /\ idRuntimes = [m \in Managed |-> Unset]
    BY DEF ReadinessInit
  <1>2. ReadinessTypes  BY <1>1, EmptySeq DEF ReadinessTypes
  <1>3. \A m \in Managed : readyModels[m] = Unset  BY <1>1
  <1>4. QED  BY <1>1, <1>2, <1>3 DEF ReadinessInv

\* The two ways in which an update begins.
LEMMA EmitStep ==
  ASSUME ReadinessInv, NEW m \in Managed, NEW path, Emit(m, path),
         \/ path \in Paths /\ readyModels' = [readyModels EXCEPT ![m] = path]
         \/ path = "failed" /\ UNCHANGED readyModels
  PROVE  ReadinessInv'
  <1> USE ReadinessAssumption
  <1>1. /\ update = Quiet /\ bootstrapped /\ ~ inside
        /\ update' = [of |-> m, path |-> path] /\ turn' = 1
        /\ UNCHANGED <<waiting, listeners, idRuntimes, bootstrapped, inside, skipped>>
        /\ removedOne' = FALSE
    BY DEF Emit, ReadinessInv, ReadinessTypes
  <1>2. update' # Quiet /\ update'.of = m /\ update'.path = path
    <2>1. Quiet.path = "none" /\ path # "none"  BY DEF Quiet
    <2>2. QED  BY <1>1, <2>1
  <1>a. readyModels' \in [Managed -> Paths \cup {Unset}]
    BY DEF ReadinessInv, ReadinessTypes
  <1>b. path \in Paths \cup {"failed"}  OBVIOUS
  <1>c. bootstrapped' /\ ~ inside' /\ ~ removedOne'  BY <1>1, Zenon
  <1>3. ReadinessTypes'
    <2>1. inside' \in BOOLEAN /\ removedOne' \in BOOLEAN /\ bootstrapped' \in BOOLEAN
      BY <1>1 DEF ReadinessInv, ReadinessTypes
    <2>2. /\ listeners' \in Seq(Managed \cup Listeners)
          /\ idRuntimes' \in [Managed -> Paths \cup {Unset}]
          /\ waiting' \in [Managed -> SUBSET Waiters]
      BY <1>1 DEF ReadinessInv, ReadinessTypes
    <2>3. update'.of \in Managed /\ update'.path \in Paths \cup {"failed"} /\ turn' >= 1
          /\ turn' \in Nat
      BY <1>1, <1>2, <1>b
    <2>4. QED  BY <1>a, <1>c, <2>1, <2>2, <2>3 DEF ReadinessTypes
  <1>4. PICK k \in DOMAIN listeners : listeners[k] = m  BY <1>1 DEF ReadinessInv
  <1>5. k >= 1  BY LenProperties, <1>4 DEF ReadinessInv, ReadinessTypes
  <1>6. Coming(m)'  BY <1>1, <1>4, <1>5 DEF Coming
  <1>7. ASSUME NEW n \in Managed, n # m, readyModels'[n] # Unset
        PROVE  waiting'[n] = {} /\ Served(n)'
    <2>1. readyModels'[n] = readyModels[n]  BY <1>7 DEF ReadinessInv, ReadinessTypes
    <2>2. QED  BY <1>1, <1>7, <2>1 DEF ReadinessInv, Served
  <1>8. path \in Paths => readyModels'[m] = path  BY DEF ReadinessInv, ReadinessTypes
  <1>9. path \notin Paths /\ readyModels'[m] # Unset => Served(m)'
    BY <1>1 DEF ReadinessInv, Served
  <1>10. QED  BY <1>1, <1>2, <1>3, <1>4, <1>6, <1>7, <1>8, <1>9 DEF ReadinessInv

LEMMA UnsubscribeStep ==
  ASSUME ReadinessInv, NEW l \in Listeners, Unsubscribe(l)
  PROVE  ReadinessInv'
  <1> USE ReadinessAssumption
  <1>1. PICK g \in DOMAIN listeners :
          /\ listeners[g] = l
          /\ listeners' = [j \in 1 .. Len(listeners) - 1 |->
                             listeners[IF j < g THEN j ELSE j + 1]]
          /\ removedOne' = (update # Quiet)
          /\ UNCHANGED <<readyModels, waiting, idRuntimes, bootstrapped, update, turn,
                         inside, skipped>>
    BY DEF Unsubscribe
  <1>2. /\ listeners \in Seq(Managed \cup Listeners) /\ Len(listeners) \in Nat
        /\ DOMAIN listeners = 1 .. Len(listeners)
    BY LenProperties DEF ReadinessInv, ReadinessTypes
  <1>3. \A j \in 1 .. Len(listeners) - 1 :
          (IF j < g THEN j ELSE j + 1) \in 1 .. Len(listeners)
    BY <1>1, <1>2
  <1>4. listeners' \in Seq(Managed \cup Listeners)
    <2>1. \A j \in 1 .. Len(listeners) - 1 : listeners'[j] \in Managed \cup Listeners
      BY <1>1, <1>2, <1>3
    <2>2. Len(listeners) - 1 \in Nat  BY <1>1, <1>2
    <2>3. QED  BY <1>1, <2>1, <2>2
  <1>5. DOMAIN listeners' = 1 .. Len(listeners) - 1  BY <1>1
  <1>6. ReadinessTypes'  BY <1>1, <1>4 DEF ReadinessInv, ReadinessTypes
  <1>7. ASSUME NEW m \in Managed, bootstrapped
        PROVE  \E k \in DOMAIN listeners' : listeners'[k] = m
    <2>1. PICK k \in DOMAIN listeners : listeners[k] = m  BY <1>7 DEF ReadinessInv
    <2>2. k # g  BY <1>1, <2>1
    <2>3. CASE k < g
      <3>1. k \in 1 .. Len(listeners) - 1  BY <1>1, <1>2, <2>1, <2>3
      <3>2. listeners'[k] = m  BY <1>1, <2>1, <2>3, <3>1
      <3>3. QED  BY <1>5, <3>1, <3>2
    <2>4. CASE k > g
      <3>1. k - 1 \in 1 .. Len(listeners) - 1 /\ ~ (k - 1 < g) /\ k - 1 + 1 = k
        BY <1>1, <1>2, <2>1, <2>4
      <3>2. listeners'[k - 1] = m  BY <1>1, <2>1, <3>1
      <3>3. QED  BY <1>5, <3>1, <3>2
    <2>5. QED  BY <1>1, <1>2, <2>1, <2>2, <2>3, <2>4
  <1>8. update' # Quiet => removedOne'  BY <1>1
  <1>9. QED  BY <1>1, <1>6, <1>7, <1>8 DEF ReadinessInv, Served

LEMMA CallStep == ASSUME ReadinessInv, Call PROVE ReadinessInv'
  <1> USE ReadinessAssumption
  <1> DEFINE m == update.of
  <1>1. /\ update # Quiet /\ ~ inside /\ turn \in DOMAIN listeners
        /\ UNCHANGED <<readyModels, waiting, listeners, bootstrapped, update, removedOne,
                       skipped>>
    BY DEF Call
  <1>2. m \in Managed /\ turn \in Nat  BY <1>1 DEF ReadinessInv, ReadinessTypes
  <1>d. \A k \in DOMAIN listeners : k \in Nat
    BY LenProperties DEF ReadinessInv, ReadinessTypes
  <1>3. CASE listeners[turn] \in Listeners
    <2>1. inside' = TRUE /\ turn' = turn /\ idRuntimes' = idRuntimes  BY <1>3 DEF Call
    <2>2. Coming(m) => Coming(m)'  BY <1>1, <1>2, <1>3, <1>d, <2>1 DEF Coming
    <2>3. ReadinessTypes'  BY <1>1, <2>1 DEF ReadinessInv, ReadinessTypes
    <2>4. QED  BY <1>1, <2>1, <2>2, <2>3 DEF ReadinessInv, Served
  <1>4. CASE listeners[turn] \notin Listeners /\ listeners[turn] = m /\ update.path \in Paths
    <2>1. /\ idRuntimes' = [idRuntimes EXCEPT ![m] = update.path]
          /\ turn' = turn + 1 /\ inside' = inside
      BY <1>4 DEF Call
    <2>2. idRuntimes'[m] = update.path  BY <1>2, <2>1 DEF ReadinessInv, ReadinessTypes
    <2>3. \A n \in Managed : n # m => idRuntimes'[n] = idRuntimes[n]
      BY <2>1 DEF ReadinessInv, ReadinessTypes
    <2>4. ReadinessTypes'  BY <1>1, <1>4, <2>1 DEF ReadinessInv, ReadinessTypes
    <2>5. QED  BY <1>1, <1>4, <2>2, <2>3, <2>4 DEF ReadinessInv, Served
  <1>5. CASE listeners[turn] \notin Listeners /\ ~ (listeners[turn] = m /\ update.path \in Paths)
    <2>1. idRuntimes' = idRuntimes /\ turn' = turn + 1 /\ inside' = inside
      BY <1>5 DEF Call
    <2>2. update.path \in Paths /\ Coming(m) => Coming(m)'
      BY <1>1, <1>2, <1>5, <1>d, <2>1 DEF Coming
    <2>3. ReadinessTypes'  BY <1>1, <2>1 DEF ReadinessInv, ReadinessTypes
    <2>4. QED  BY <1>1, <2>1, <2>2, <2>3 DEF ReadinessInv, Served
  <1>6. QED  BY <1>3, <1>4, <1>5

LEMMA SettleStep == ASSUME ReadinessInv, Settle PROVE ReadinessInv'
  <1> USE ReadinessAssumption
  <1>0. PICK m \in Managed : update.of = m  BY DEF Settle, ReadinessInv, ReadinessTypes
  <1>1. /\ update # Quiet /\ ~ inside /\ turn \notin DOMAIN listeners
        /\ waiting' = [waiting EXCEPT ![m] = {}]
        /\ skipped' = IF removedOne THEN skipped \cup {m}
                      ELSE IF update.path \in Paths THEN skipped \ {m} ELSE skipped
        /\ update' = Quiet /\ turn' = 0 /\ removedOne' = FALSE
        /\ UNCHANGED <<readyModels, listeners, idRuntimes, bootstrapped, inside>>
    BY <1>0 DEF Settle
  <1>2. m \in Managed /\ turn \in Nat /\ turn >= 1 /\ bootstrapped
    BY <1>0, <1>1 DEF ReadinessInv, ReadinessTypes
  <1>3. ~ Coming(m)
    <2>1. DOMAIN listeners = 1 .. Len(listeners) /\ Len(listeners) \in Nat
      BY LenProperties DEF ReadinessInv, ReadinessTypes
    <2>2. turn > Len(listeners)  BY <1>1, <1>2, <2>1
    <2>3. QED  BY <1>2, <2>1, <2>2 DEF Coming
  <1>4. ReadinessTypes'  BY <1>1, <1>2 DEF ReadinessInv, ReadinessTypes
  <1>5. waiting'[m] = {}  BY <1>1, <1>2 DEF ReadinessInv, ReadinessTypes
  <1>6. readyModels[m] # Unset => Served(m)'
    <2>1. CASE removedOne  BY <1>1, <2>1 DEF Served
    <2>2. CASE ~ removedOne /\ update.path \in Paths
      <3>1. readyModels[m] = update.path /\ idRuntimes[m] = update.path
        BY <1>1, <1>3, <2>2, <1>0 DEF ReadinessInv
      <3>2. QED  BY <1>1, <3>1 DEF Served
    <2>3. CASE ~ removedOne /\ update.path \notin Paths
      BY <1>0, <1>1, <2>3 DEF ReadinessInv, Served
    <2>4. QED  BY <2>1, <2>2, <2>3
  <1>7. ASSUME NEW n \in Managed, n # m, readyModels[n] # Unset
        PROVE  waiting'[n] = {} /\ Served(n)'
    <2>1. waiting'[n] = waiting[n] /\ (n \in skipped' <=> n \in skipped)
      BY <1>1, <1>7 DEF ReadinessInv, ReadinessTypes
    <2>2. QED  BY <1>0, <1>1, <1>7, <2>1 DEF ReadinessInv, Served
  <1>8. bootstrapped' => \A n \in Managed : \E k \in DOMAIN listeners' : listeners'[k] = n
    BY <1>1 DEF ReadinessInv
  <1>9. \A n \in Managed : readyModels'[n] # Unset => waiting'[n] = {} /\ Served(n)'
    BY <1>1, <1>5, <1>6, <1>7
  <1>10. QED  BY <1>1, <1>2, <1>4, <1>8, <1>9 DEF ReadinessInv

LEMMA ReadinessStep == ReadinessInv /\ [ReadinessNext]_readinessVars => ReadinessInv'
  <1> SUFFICES ASSUME ReadinessInv, [ReadinessNext]_readinessVars PROVE ReadinessInv'
    OBVIOUS
  <1> USE ReadinessAssumption
  <1>d. /\ listeners \in Seq(Managed \cup Listeners) /\ Len(listeners) \in Nat
        /\ DOMAIN listeners = 1 .. Len(listeners)
    BY LenProperties DEF ReadinessInv, ReadinessTypes
  <1>1. ASSUME NEW l \in Listeners, OnUpdate(l) PROVE ReadinessInv'
    <2>1. /\ listeners' = Append(listeners, l)
          /\ UNCHANGED <<readyModels, waiting, idRuntimes, bootstrapped, update, turn,
                         inside, removedOne, skipped>>
      BY <1>1 DEF OnUpdate
    <2>2. /\ listeners' \in Seq(Managed \cup Listeners)
          /\ Len(listeners') = Len(listeners) + 1
          /\ \A k \in 1 .. Len(listeners) : listeners'[k] = listeners[k]
      BY <1>d, <2>1, AppendProperties
    <2>3. \A k \in DOMAIN listeners : k \in DOMAIN listeners' /\ listeners'[k] = listeners[k]
      BY <1>d, <2>2, LenProperties
    <2>4. ReadinessTypes'  BY <2>1, <2>2 DEF ReadinessInv, ReadinessTypes
    <2>5. \A m \in Managed : Coming(m) => Coming(m)'  BY <2>1, <2>3 DEF Coming
    <2>6. \A m \in Managed : bootstrapped => \E k \in DOMAIN listeners' : listeners'[k] = m
      BY <2>3 DEF ReadinessInv
    <2>7. QED  BY <2>1, <2>4, <2>5, <2>6 DEF ReadinessInv, ReadinessTypes, Served
  <1>2. ASSUME NEW l \in Listeners, Unsubscribe(l) PROVE ReadinessInv'
    BY <1>2, UnsubscribeStep
  <1>3. ASSUME NEW w \in Waiters, NEW m \in Managed, AwaitReady(w, m) PROVE ReadinessInv'
    <2>1. UNCHANGED <<readyModels, listeners, idRuntimes, bootstrapped, update, turn,
                      inside, removedOne, skipped>>
      BY <1>3 DEF AwaitReady
    <2>2. waiting' \in [Managed -> SUBSET Waiters]
          /\ \A n \in Managed : readyModels[n] # Unset => waiting'[n] = waiting[n]
      BY <1>3 DEF AwaitReady, ReadinessInv, ReadinessTypes
    <2>3. ReadinessTypes'  BY <2>1, <2>2 DEF ReadinessInv, ReadinessTypes
    <2>4. \A n \in Managed : Coming(n) <=> Coming(n)'  BY <2>1 DEF Coming
    <2>5. QED  BY <2>1, <2>2, <2>3, <2>4 DEF ReadinessInv, ReadinessTypes, Served
  <1>4. ASSUME NEW order \in Orders, Bootstrap(order) PROVE ReadinessInv'
    <2>1. /\ update = Quiet /\ ~ bootstrapped /\ bootstrapped' = TRUE
          /\ listeners' = listeners \o order
          /\ UNCHANGED <<readyModels, waiting, idRuntimes, update, turn, inside,
                         removedOne, skipped>>
      BY <1>4 DEF Bootstrap
    <2>2. Cardinality(Managed) \in Nat  BY FS_CardinalityType
    <2>3. /\ order \in Seq(Managed) /\ Len(order) = Cardinality(Managed)
          /\ DOMAIN order = 1 .. Len(order)
          /\ \A m \in Managed : \E k \in DOMAIN order : order[k] = m
      BY <2>2 DEF Orders
    <2>4. order \in Seq(Managed \cup Listeners)  BY <2>3
    <2>5. /\ listeners' \in Seq(Managed \cup Listeners)
          /\ Len(listeners') = Len(listeners) + Len(order)
          /\ \A k \in 1 .. Len(listeners) + Len(order) :
               listeners'[k] = IF k <= Len(listeners) THEN listeners[k]
                               ELSE order[k - Len(listeners)]
      BY <1>d, <2>1, <2>4, ConcatProperties
    <2>6. DOMAIN listeners' = 1 .. Len(listeners) + Len(order)  BY <2>5, LenProperties
    <2>7. ASSUME NEW m \in Managed PROVE \E k \in DOMAIN listeners' : listeners'[k] = m
      <3>1. PICK k \in DOMAIN order : order[k] = m  BY <2>3
      <3>2. /\ Len(listeners) + k \in 1 .. Len(listeners) + Len(order)
            /\ ~ (Len(listeners) + k <= Len(listeners))
            /\ Len(listeners) + k - Len(listeners) = k
        BY <1>d, <2>2, <2>3, <3>1
      <3>3. listeners'[Len(listeners) + k] = m  BY <2>5, <3>1, <3>2
      <3>4. QED  BY <2>6, <3>2, <3>3
    <2>8. ReadinessTypes'  BY <2>1, <2>5 DEF ReadinessInv, ReadinessTypes
    <2>9. \A m \in Managed : readyModels'[m] = Unset  BY <2>1 DEF ReadinessInv
    <2>10. QED  BY <2>1, <2>7, <2>8, <2>9 DEF ReadinessInv
  <1>5. ASSUME NEW m \in Managed, MarkFailed(m) PROVE ReadinessInv'
    BY <1>5, EmitStep DEF MarkFailed
  <1>6. ASSUME NEW m \in Managed, NEW path \in Paths, MarkReady(m, path) PROVE ReadinessInv'
    BY <1>6, EmitStep DEF MarkReady
  <1>7. CASE Call  BY <1>7, CallStep
  <1>8. CASE Return
    <2>1. /\ inside /\ inside' = FALSE /\ turn' = turn + 1
          /\ UNCHANGED <<readyModels, waiting, listeners, idRuntimes, bootstrapped, update,
                         removedOne, skipped>>
      BY <1>8 DEF Return
    <2>2. turn \in Nat  BY DEF ReadinessInv, ReadinessTypes
    <2>3. \A m \in Managed : Coming(m) => Coming(m)'  BY <1>d, <2>1, <2>2 DEF Coming
    <2>4. ReadinessTypes'
      <3>1. ~ inside'  BY <2>1, Zenon
      <3>2. /\ inside' \in BOOLEAN /\ removedOne' \in BOOLEAN /\ bootstrapped' \in BOOLEAN
            /\ update' # Quiet => bootstrapped'
        BY <2>1 DEF ReadinessInv, ReadinessTypes
      <3>3. update' # Quiet => update'.of \in Managed /\ update'.path \in Paths \cup {"failed"}
                              /\ turn' >= 1
        BY <2>1, <2>2 DEF ReadinessInv, ReadinessTypes
      <3>4. /\ listeners' \in Seq(Managed \cup Listeners)
            /\ readyModels' \in [Managed -> Paths \cup {Unset}]
            /\ idRuntimes' \in [Managed -> Paths \cup {Unset}]
            /\ waiting' \in [Managed -> SUBSET Waiters]
            /\ turn' \in Nat
        BY <2>1, <2>2 DEF ReadinessInv, ReadinessTypes
      <3>5. QED  BY <3>1, <3>2, <3>3, <3>4 DEF ReadinessTypes
    <2>5. QED  BY <2>1, <2>3, <2>4 DEF ReadinessInv, ReadinessTypes, Served
  <1>9. CASE Settle  BY <1>9, SettleStep
  <1>10. CASE UNCHANGED readinessVars
    BY <1>10 DEF readinessVars, ReadinessInv, ReadinessTypes, Served, Coming
  <1>11. QED
    BY <1>1, <1>2, <1>3, <1>4, <1>5, <1>6, <1>7, <1>8, <1>9, <1>10 DEF ReadinessNext

\* Whatever the app's listeners do in their turns, subscribing, unsubscribing or
\* waiting, and however often models become ready again or fail, between updates
\* nobody waits for a ready model and it is served from its latest path: for any
\* number of models, paths, listeners and waiters.
THEOREM ReadyModelsAreServed == ReadinessSpec => []ReadyIsServed
  <1>1. ReadinessInv => ReadyIsServed  BY DEF ReadinessInv, ReadyIsServed, Served
  <1>2. QED  BY <1>1, ReadinessInitially, ReadinessStep, PTL DEF ReadinessSpec
-----------------------------------------------------------------------------
(* PolicyCache *)

Copies == [revision : Nat, stamp : Asks]

PolicyTypeOK ==
  /\ policies \in [Clients -> Copies \cup {NoPolicy}]
  /\ policyFile \in Copies \cup {NoPolicy}
  /\ current \in Nat /\ met \subseteq Asks
  /\ phase \in [Asks -> {"new", "reading", "read", "fetching", "answered", "opening",
                        "saving", "ended"}]
  /\ asker \in [Asks -> Clients]
  /\ found \in [Asks -> Copies \cup {NoPolicy}] /\ draft \in [Asks -> Copies \cup {NoPolicy}]
  /\ tag \in [Asks -> Nat \cup {NoPolicy}] /\ told \in [Asks -> Nat \cup {NoPolicy}]
  /\ modified \in [Asks -> BOOLEAN]

\* A copy has the stamp of a call that the server has answered, and unless that
\* call met another, is of what it was told.
Vouched(copy) ==
  copy # NoPolicy =>
    /\ phase[copy.stamp] \in {"opening", "saving", "ended"}
    /\ copy.stamp \in met \/ copy.revision = told[copy.stamp]

EveryCopyVouched ==
  /\ \A k \in Clients : Vouched(policies[k])
  /\ Vouched(policyFile)
  /\ \A a \in Asks : Vouched(found[a]) /\ Vouched(draft[a])

\* What a call goes by is what it has sent the etag of; a 304 confirms it.
ShownIsAtHand ==
  /\ \A a \in Asks : phase[a] \in {"fetching", "answered"} =>
       /\ tag[a] # NoPolicy => AtHand(a) # NoPolicy
       /\ a \notin met /\ tag[a] # NoPolicy => AtHand(a).revision = tag[a]
  /\ \A a \in Asks : phase[a] = "answered" =>
       /\ told[a] # NoPolicy
       /\ ~ modified[a] => told[a] = tag[a]

\* Two calls of one client that are under way at once have met.
RivalsMet ==
  \A a, b \in Pending : asker[a] = asker[b] /\ a # b => a \in met

PolicyInv == PolicyTypeOK /\ EveryCopyVouched /\ ShownIsAtHand /\ RivalsMet

LEMMA PolicyInitially == PolicyInit => PolicyInv
  BY DEF PolicyInit, PolicyInv, PolicyTypeOK, EveryCopyVouched, Vouched, ShownIsAtHand,
     RivalsMet, Pending

LEMMA PolicyStep == PolicyInv /\ [PolicyNext]_policyVars => PolicyInv'
  <1> SUFFICES ASSUME PolicyInv, [PolicyNext]_policyVars PROVE PolicyInv'  OBVIOUS
  <1> USE PolicyAssumption DEF PolicyInv, PolicyTypeOK, Proceed, Pending
  <1>1. ASSUME NEW a \in Asks, AskPolicy(a) PROVE PolicyInv'
    <2> USE <1>1 DEF AskPolicy
    <2>1. PolicyTypeOK'  OBVIOUS
    <2>2. EveryCopyVouched'  BY DEF EveryCopyVouched, Vouched, Copies
    <2>3. ShownIsAtHand'  BY DEF ShownIsAtHand, AtHand, Mine
    <2>4. RivalsMet'  BY DEF RivalsMet
    <2>5. QED  BY <2>1, <2>2, <2>3, <2>4
  <1>2. ASSUME NEW a \in Asks, ReadPolicyFile(a) PROVE PolicyInv'
    <2> USE <1>2 DEF ReadPolicyFile
    <2>1. PolicyTypeOK'  OBVIOUS
    <2>2. EveryCopyVouched'  BY DEF EveryCopyVouched, Vouched, Copies
    <2>3. ShownIsAtHand'  BY DEF ShownIsAtHand, AtHand, Mine
    <2>4. RivalsMet'  BY DEF RivalsMet
    <2>5. QED  BY <2>1, <2>2, <2>3, <2>4
  <1>3. ASSUME NEW a \in Asks, TakeFromFile(a) PROVE PolicyInv'
    <2> USE <1>3 DEF TakeFromFile, Conclude, Cache, IsFresh
    <2>1. PolicyTypeOK'  OBVIOUS
    <2>2. EveryCopyVouched'  BY DEF EveryCopyVouched, Vouched, Copies
    <2>3. ShownIsAtHand'  BY DEF ShownIsAtHand, AtHand, Mine, RivalsMet
    <2>4. RivalsMet'  BY DEF RivalsMet
    <2>5. QED  BY <2>1, <2>2, <2>3, <2>4
  <1>4. ASSUME NEW a \in Asks, FetchPolicy(a) PROVE PolicyInv'
    <2> USE <1>4 DEF FetchPolicy
    <2>1. AtHand(a) \in Copies \cup {NoPolicy}  BY DEF AtHand, Mine
    <2>2. PolicyTypeOK'  BY <2>1 DEF Copies
    <2>3. EveryCopyVouched'  BY DEF EveryCopyVouched, Vouched, Copies
    <2>4. ShownIsAtHand'  BY DEF ShownIsAtHand, AtHand, Mine
    <2>5. RivalsMet'  BY DEF RivalsMet
    <2>6. QED  BY <2>2, <2>3, <2>4, <2>5
  <1>5. ASSUME NEW a \in Asks, NEW sends \in BOOLEAN, ServePolicy(a, sends) PROVE PolicyInv'
    <2> USE <1>5 DEF ServePolicy
    <2>1. PolicyTypeOK'  OBVIOUS
    <2>2. EveryCopyVouched'  BY DEF EveryCopyVouched, Vouched, Copies
    <2>3. ShownIsAtHand'  BY DEF ShownIsAtHand, AtHand, Mine
    <2>4. RivalsMet'  BY DEF RivalsMet
    <2>5. QED  BY <2>1, <2>2, <2>3, <2>4
  <1>6. ASSUME NEW a \in Asks, ReceivePolicy(a) PROVE PolicyInv'
    <2> USE <1>6 DEF ReceivePolicy, Cache
    <2>1. ~ modified[a] => AtHand(a) # NoPolicy /\ tag[a] # NoPolicy
      BY DEF ShownIsAtHand
    <2>2. ~ modified[a] => AtHand(a) \in Copies /\ Renewed(a) = AtHand(a).revision
      BY <2>1 DEF AtHand, Renewed, Mine
    <2>3. PICK copy : /\ copy = [revision |-> IF modified[a] THEN told[a] ELSE Renewed(a),
                                 stamp |-> a]
                      /\ policies' = [policies EXCEPT ![asker[a]] = copy]
                      /\ draft' = [draft EXCEPT ![a] = copy]
      OBVIOUS
    <2>4. copy \in Copies  BY <2>2, <2>3 DEF Copies, ShownIsAtHand
    <2>5. copy.stamp = a /\ (a \in met \/ copy.revision = told[a])
      BY <2>1, <2>2, <2>3 DEF ShownIsAtHand
    <2>6. phase' = [phase EXCEPT ![a] = "opening"] /\ phase[a] = "answered"  OBVIOUS
    <2>7. PolicyTypeOK'  BY <2>3, <2>4
    <2>8. Vouched(copy)'  BY <2>5, <2>6 DEF Vouched
    <2>9. EveryCopyVouched'
      <3>1. ASSUME NEW p \in Copies \cup {NoPolicy}, Vouched(p) PROVE Vouched(p)'
        BY <3>1, <2>6 DEF Vouched, Copies
      <3>2. QED  BY <2>3, <2>8, <3>1 DEF EveryCopyVouched
    <2>10. ShownIsAtHand'
      <3>1. ASSUME NEW b \in Asks, b # a, phase[b] \in {"fetching", "answered"}
            PROVE  /\ AtHand(b) # NoPolicy => AtHand(b)' # NoPolicy
                   /\ b \notin met => AtHand(b)' = AtHand(b)
        <4>1. copy # NoPolicy  BY <2>4 DEF Copies
        <4>2. policies'[asker[b]] \in {policies[asker[b]], copy}  BY <2>3
        <4>3. b \notin met => policies'[asker[b]] = policies[asker[b]]
          BY <3>1, <2>3, <2>6 DEF RivalsMet
        <4>4. found' = found /\ asker' = asker  OBVIOUS
        <4>5. QED  BY <4>1, <4>2, <4>3, <4>4 DEF AtHand, Mine
      <3>2. QED  BY <3>1, <2>6 DEF ShownIsAtHand
    <2>11. RivalsMet'  BY DEF RivalsMet
    <2>12. QED  BY <2>7, <2>9, <2>10, <2>11
  <1>7. ASSUME NEW a \in Asks, Unreachable(a) PROVE PolicyInv'
    <2> USE <1>7 DEF Unreachable, Conclude, Cache
    <2>1. PolicyTypeOK'  OBVIOUS
    <2>2. EveryCopyVouched'  BY DEF EveryCopyVouched, Vouched, Copies
    <2>3. ShownIsAtHand'  BY DEF ShownIsAtHand, AtHand, Mine, RivalsMet
    <2>4. RivalsMet'  BY DEF RivalsMet
    <2>5. QED  BY <2>1, <2>2, <2>3, <2>4
  <1>8. ASSUME NEW a \in Asks, OpenPolicyFile(a) \/ PolicyNotSaved(a) \/ PolicySaved(a)
        PROVE  PolicyInv'
    <2>1. /\ phase[a] \in {"opening", "saving"}
          /\ \E where \in {"saving", "ended"} : phase' = [phase EXCEPT ![a] = where]
          /\ policyFile' \in {policyFile, draft[a]}
          /\ found' \in {found, [found EXCEPT ![a] = NoPolicy]}
          /\ tag' \in {tag, [tag EXCEPT ![a] = NoPolicy]}
          /\ draft' \in {draft, [draft EXCEPT ![a] = NoPolicy]}
          /\ UNCHANGED <<policies, lapsed, current, asker, told, modified, met>>
      BY <1>8 DEF OpenPolicyFile, PolicyNotSaved, PolicySaved, Conclude
    <2>2. PolicyTypeOK'  BY <2>1
    <2>3. EveryCopyVouched'
      <3>1. ASSUME NEW p \in Copies \cup {NoPolicy}, Vouched(p) PROVE Vouched(p)'
        BY <2>1, <3>1 DEF Vouched, Copies
      <3>2. Vouched(NoPolicy)  BY DEF Vouched
      <3>3. QED  BY <2>1, <3>1, <3>2 DEF EveryCopyVouched
    <2>4. ShownIsAtHand'  BY <2>1 DEF ShownIsAtHand, AtHand, Mine
    <2>5. RivalsMet'  BY <2>1 DEF RivalsMet
    <2>6. QED  BY <2>2, <2>3, <2>4, <2>5
  <1>9. ASSUME NEW k \in Clients, ClientDies(k) PROVE PolicyInv'
    <2> USE <1>9 DEF ClientDies
    <2>1. PolicyTypeOK'  OBVIOUS
    <2>2. EveryCopyVouched'  BY DEF EveryCopyVouched, Vouched, Copies
    <2>3. ShownIsAtHand'  BY DEF ShownIsAtHand, AtHand, Mine
    <2>4. RivalsMet'  BY DEF RivalsMet
    <2>5. QED  BY <2>1, <2>2, <2>3, <2>4
  <1>10. CASE (\E a \in Asks : PolicyLapses(a)) \/ NewRevision \/ UNCHANGED policyVars
    <2> USE <1>10 DEF PolicyLapses, NewRevision, policyVars
    <2>1. PolicyTypeOK'  OBVIOUS
    <2>2. EveryCopyVouched'  BY DEF EveryCopyVouched, Vouched, Copies
    <2>3. ShownIsAtHand'  BY DEF ShownIsAtHand, AtHand, Mine
    <2>4. RivalsMet'  BY DEF RivalsMet
    <2>5. QED  BY <2>1, <2>2, <2>3, <2>4
  <1>11. QED
    BY <1>1, <1>2, <1>3, <1>4, <1>5, <1>6, <1>7, <1>8, <1>9, <1>10 DEF PolicyNext

\* Any number of clients and calls renew a policy only in the name of the server,
\* whatever the file they share holds when they read it.
THEOREM RenewalsAreTold == PolicySpec => []RenewedAsTold
  <1>1. PolicyInv => RenewedAsTold
    BY DEF PolicyInv, RenewedAsTold, EveryCopyVouched, Vouched
  <1>2. QED  BY <1>1, PolicyInitially, PolicyStep, PTL DEF PolicySpec
-----------------------------------------------------------------------------
(* ResponseRouting: the candidates of a request *)

\* A set of candidates has a first one.
LEMMA FirstIsThere ==
  ASSUME NEW P, P \subseteq Nat, P # {}
  PROVE  First(P) \in P
  <1> DEFINE Less == OpToRel(<, Nat)
  <1>1. IsWellFoundedOn(Less, Nat)  BY NatLessThanWellFounded
  <1>2. \A x, y \in Nat : <<x, y>> \in Less <=> x < y  BY DEF OpToRel
  <1> HIDE DEF Less
  <1>3. PICK x \in P : \A y \in P : ~ (<<y, x>> \in Less)  BY <1>1, WFMin
  <1>4. ASSUME NEW y \in P PROVE x <= y
    <2>1. x \in Nat /\ y \in Nat  BY <1>3
    <2>2. ~ (y < x)  BY <1>2, <1>3, <2>1, Zenon
    <2>3. QED  BY <2>1, <2>2
  <1>5. QED  BY <1>4 DEF First
-----------------------------------------------------------------------------
(* ResponseRouting: the invariant *)

Shape ==
  /\ conf \in [planner : BOOLEAN, local : BOOLEAN, external : BOOLEAN]
  /\ pc \in [Requests -> Settled \cup InFlight]
  /\ policy \in [Requests -> Policies \cup {None}]
  /\ api \in [Requests -> {"create", "stream"}]
  /\ plan \in [Requests -> Plans \cup {None}]
  /\ at \in [Requests -> Nat]
  /\ deltas \in [Requests -> SUBSET Nat] /\ dones \in [Requests -> SUBSET Nat]
  /\ used \in [Requests -> SUBSET {"local", "cloud"}]
  /\ lastRoute \in Requests \cup {None}
  /\ reported \in [Requests -> Requests \cup {None}]
  /\ overlapped \in SUBSET Requests

\* What is so of a request whatever the others do.  Its caller has seen output of
\* the candidate it is at, and nothing while there may be another attempt; a
\* private request that is still to contact a transport has contacted none.
Own(q) ==
  /\ at[q] > 1 => at[q] \in DOMAIN Candidates(q)
  /\ deltas[q] \cup dones[q] \subseteq DOMAIN Candidates(q)
  /\ deltas[q] \subseteq {at[q]}
  /\ pc[q] \in {"idle", "planning"} =>
       at[q] = 0 /\ deltas[q] = {} /\ dones[q] = {} /\ used[q] = {}
  /\ pc[q] = "trying" => at[q] >= 1
  /\ pc[q] \in {"trying", "awaiting"} => deltas[q] = {}
  /\ pc[q] \in {"awaiting", "streaming", "draining"} => at[q] \in DOMAIN Candidates(q)
  /\ policy[q] = "private" => used[q] # {"local", "cloud"}
  /\ policy[q] = "private" /\ pc[q] = "trying" => used[q] = {}

\* Requests that run at the same time are known to have overlapped.
Beside(q) ==
  \A p \in Requests : p # q /\ Running(p) /\ Running(q) => q \in overlapped

\* The client's last route is that of a stream that runs alone, and what a request
\* that ran alone has reported is its own.
Alone(q) ==
  q \notin overlapped =>
    /\ conf.planner /\ pc[q] \in {"streaming", "draining"} => lastRoute = q
    /\ reported[q] # None => reported[q] = q

RoutingInv == Shape /\ \A q \in Requests : Own(q) /\ Beside(q) /\ Alone(q)

\* Nothing of request q changes.
Same(q) ==
  /\ pc'[q] = pc[q] /\ policy'[q] = policy[q] /\ api'[q] = api[q] /\ plan'[q] = plan[q]
  /\ at'[q] = at[q] /\ deltas'[q] = deltas[q] /\ dones'[q] = dones[q]
  /\ used'[q] = used[q] /\ reported'[q] = reported[q]

LEMMA CandidatesAreSequences ==
  ASSUME NEW p \in Plans \cup {None}
  PROVE  /\ PlannerCandidates(p) \in Seq(Candidate)
         /\ Len(PlannerCandidates(p)) \in Nat
         /\ DOMAIN PlannerCandidates(p) = 1 .. Len(PlannerCandidates(p))
  <1>1. PlannerCandidates(p) \in Seq(Candidate)
    <2>1. CASE p = None
      <3>1. /\ [locality |-> "local", blocked |-> FALSE] \in Candidate
            /\ [locality |-> "cloud", blocked |-> FALSE] \in Candidate
        BY DEF Candidate
      <3> HIDE DEF Candidate
      <3>2. ResponseCandidates \in Seq(Candidate)  BY <3>1 DEF ResponseCandidates
      <3>3. QED  BY <2>1, <3>2 DEF PlannerCandidates
    <2>2. CASE p # None  BY <2>2, RoutingAssumption DEF PlannerCandidates
    <2>3. QED  BY <2>1, <2>2
  <1>2. QED  BY <1>1, LenProperties

\* A step of request r, when what it changes of r is right.
LEMMA FrameStep ==
  ASSUME RoutingInv, NEW r \in Requests, Shape', conf' = conf,
         overlapped \subseteq overlapped',
         \A q \in Requests \ {r} : Same(q),
         Own(r)', Alone(r)', \A q \in Requests : Beside(q)',
         lastRoute' = lastRoute \/ (Running(r) /\ lastRoute' = r)
  PROVE  RoutingInv'
  <1> SUFFICES ASSUME NEW q \in Requests, q # r PROVE Own(q)' /\ Alone(q)'
    BY DEF RoutingInv
  <1>1. Same(q)  OBVIOUS
  <1>2. Own(q) /\ Alone(q) /\ Beside(q)  BY DEF RoutingInv
  <1>3. Candidates(q)' = Candidates(q)
    BY <1>1 DEF Same, Candidates, PlannerCandidates, ResponseCandidates, HasLocal
  <1>4. Own(q)'  BY <1>1, <1>2, <1>3 DEF Own, Same
  <1>5. Alone(q)'
    <2>1. lastRoute' = lastRoute \/ q \in overlapped \/ ~ Running(q)
      BY <1>2 DEF Beside
    <2>2. pc[q] \in {"streaming", "draining"} => Running(q)  BY DEF Running, InFlight
    <2>3. QED  BY <1>1, <1>2, <2>1, <2>2 DEF Alone, Same
  <1>6. QED  BY <1>4, <1>5

\* The same for a request that was running already.
LEMMA RunningStep ==
  ASSUME RoutingInv, NEW r \in Requests, Running(r), Shape', conf' = conf,
         overlapped' = overlapped,
         \A q \in Requests \ {r} : Same(q),
         Own(r)', Alone(r)', lastRoute' \in {lastRoute, r}
  PROVE  RoutingInv'
  <1>1. \A q \in Requests : Running(q)' => Running(q)  BY DEF Same, Running
  <1>2. \A q \in Requests : Beside(q)'  BY <1>1 DEF RoutingInv, Beside
  <1>3. overlapped \subseteq overlapped'  OBVIOUS
  <1>4. lastRoute' = lastRoute \/ (Running(r) /\ lastRoute' = r)  OBVIOUS
  <1>5. QED  BY <1>2, <1>3, <1>4, FrameStep

LEMMA RoutingInitially == Init => RoutingInv
  <1> SUFFICES ASSUME Init PROVE RoutingInv  OBVIOUS
  <1>1. Shape  BY RoutingAssumption DEF Init, Shape, Settled, InFlight
  <1>2. ASSUME NEW q \in Requests PROVE Own(q) /\ Beside(q) /\ Alone(q)
    <2>1. /\ pc[q] = "idle" /\ at[q] = 0 /\ deltas[q] = {} /\ dones[q] = {} /\ used[q] = {}
          /\ policy[q] = None /\ reported[q] = None
      BY DEF Init
    <2>2. Own(q)  BY <2>1 DEF Own
    <2>3. ~ Running(q)  BY <2>1 DEF Running, InFlight
    <2>4. QED  BY <2>1, <2>2, <2>3 DEF Beside, Alone
  <1>3. QED  BY <1>1, <1>2 DEF RoutingInv
-----------------------------------------------------------------------------
(* ResponseRouting: each step *)

LEMMA BeginStep ==
  ASSUME RoutingInv, NEW r \in Requests, NEW p \in Policies, NEW a \in {"create", "stream"},
         Begin(r, p, a)
  PROVE  RoutingInv'
  <1> DEFINE others == {q \in Requests \ {r} : Running(q)}
  <1>1. /\ pc[r] = "idle" /\ pc' = [pc EXCEPT ![r] = "planning"]
        /\ policy' = [policy EXCEPT ![r] = p] /\ api' = [api EXCEPT ![r] = a]
        /\ overlapped' = IF others = {} THEN overlapped
                                        ELSE overlapped \cup others \cup {r}
        /\ UNCHANGED <<conf, plan, at, deltas, dones, used, lastRoute, reported>>
    BY DEF Begin, Goto
  <1>2. Shape'  BY <1>1 DEF RoutingInv, Shape, Settled, InFlight
  <1>3. \A q \in Requests \ {r} : Same(q)  BY <1>1 DEF RoutingInv, Shape, Same
  <1>4. Candidates(r)' = Candidates(r)
    BY <1>1 DEF Candidates, PlannerCandidates, ResponseCandidates, HasLocal
  <1>5. pc'[r] = "planning"  BY <1>1 DEF RoutingInv, Shape
  <1>6. Own(r)'  BY <1>1, <1>4, <1>5 DEF RoutingInv, Own
  <1>7. Alone(r)'  BY <1>1, <1>5 DEF RoutingInv, Alone
  <1>8. ASSUME NEW q \in Requests PROVE Beside(q)'
    <2>1. \A x \in Requests \ {r} : Running(x)' <=> x \in others
      BY <1>3 DEF Same, Running
    <2>2. CASE q = r  BY <1>1, <2>1, <2>2 DEF Beside
    <2>3. CASE q # r /\ q \in others  BY <1>1, <2>3 DEF RoutingInv, Beside
    <2>4. CASE q # r /\ q \notin others  BY <2>1, <2>4 DEF Beside
    <2>5. QED  BY <2>2, <2>3, <2>4
  <1>9. overlapped \subseteq overlapped' /\ conf' = conf /\ lastRoute' = lastRoute  BY <1>1
  <1>10. lastRoute' = lastRoute \/ (Running(r) /\ lastRoute' = r)  BY <1>9
  <1>11. QED  BY <1>2, <1>3, <1>6, <1>7, <1>8, <1>9, <1>10, FrameStep

LEMMA PlanStep ==
  ASSUME RoutingInv, NEW r \in Requests, NEW p \in Plans \cup {None}, PlanArrives(r, p)
  PROVE  RoutingInv'
  <1> DEFINE cs == PlannerCandidates(p)
             able == Selectable(cs, PlannerFallbackAllowed(r, p))
             k == First(able)
  <1>1. /\ pc[r] = "planning" /\ plan' = [plan EXCEPT ![r] = p]
        /\ UNCHANGED <<conf, policy, api, deltas, dones, reported, overlapped>>
    BY DEF PlanArrives
  <1>2. Running(r)  BY <1>1 DEF Running, InFlight
  <1>3. cs \in Seq(Candidate) /\ Len(cs) \in Nat /\ DOMAIN cs = 1 .. Len(cs)
    BY CandidatesAreSequences
  <1>4. Candidates(r)' = cs
    BY <1>1 DEF RoutingInv, Shape, Candidates, PlannerCandidates, ResponseCandidates, HasLocal
  <1>5. at[r] = 0 /\ deltas[r] = {} /\ dones[r] = {} /\ used[r] = {}
    BY <1>1 DEF RoutingInv, Own
  <1>6. able \subseteq DOMAIN cs  BY DEF Selectable
  <1>7. able # {} => k \in DOMAIN cs
    <2> HIDE DEF cs, able
    <2>1. able \subseteq Nat  BY <1>3, <1>6
    <2>2. QED  BY <1>6, <2>1, FirstIsThere
  <1>8. able # {} => cs[k] \in Candidate /\ cs[k].locality \in {"local", "cloud"}
    <2>1. able # {} => cs[k] \in Candidate  BY <1>3, <1>7
    <2>2. QED  BY <2>1 DEF Candidate
  <1>9. \/ /\ at' = [at EXCEPT ![r] = 1]
           /\ pc' = [pc EXCEPT ![r] = "trying"] /\ UNCHANGED <<used, lastRoute>>
        \/ /\ pc' = [pc EXCEPT ![r] = "failed"] /\ UNCHANGED <<at, used, lastRoute>>
        \/ /\ able # {} /\ at' = [at EXCEPT ![r] = k]
           /\ lastRoute' = (IF conf.planner THEN r ELSE lastRoute)
           /\ used' = [used EXCEPT ![r] = @ \cup {cs[k].locality}]
           /\ pc' = [pc EXCEPT ![r] = "streaming"]
    BY DEF PlanArrives, Goto, Describe, Contact
  <1> HIDE DEF cs, able, k
  <1>s. UNCHANGED <<conf, policy, api, deltas, dones, reported, overlapped>>
        /\ plan' \in [Requests -> Plans \cup {None}]
    BY <1>1 DEF RoutingInv, Shape
  <1>10. CASE /\ at' = [at EXCEPT ![r] = 1]
              /\ pc' = [pc EXCEPT ![r] = "trying"] /\ UNCHANGED <<used, lastRoute>>
    <2>1. Shape'  BY <1>s, <1>10 DEF RoutingInv, Shape, Settled, InFlight
    <2>2. \A q \in Requests \ {r} : Same(q)  BY <1>1, <1>10 DEF RoutingInv, Shape, Same
    <2>3. at'[r] = 1 /\ pc'[r] = "trying"  BY <1>10 DEF RoutingInv, Shape
    <2>4. Own(r)'  BY <1>s, <1>4, <1>5, <1>10, <2>3 DEF Own
    <2>5. Alone(r)'  BY <1>s, <1>10, <2>3 DEF RoutingInv, Alone
    <2>6. QED  BY <1>s, <1>2, <1>10, <2>1, <2>2, <2>4, <2>5, RunningStep
  <1>11. CASE pc' = [pc EXCEPT ![r] = "failed"] /\ UNCHANGED <<at, used, lastRoute>>
    <2>1. Shape'  BY <1>s, <1>11 DEF RoutingInv, Shape, Settled, InFlight
    <2>2. \A q \in Requests \ {r} : Same(q)  BY <1>1, <1>11 DEF RoutingInv, Shape, Same
    <2>3. pc'[r] = "failed"  BY <1>11 DEF RoutingInv, Shape
    <2>4. Own(r)'  BY <1>s, <1>4, <1>5, <1>11, <2>3 DEF Own
    <2>5. Alone(r)'  BY <1>s, <1>11, <2>3 DEF RoutingInv, Alone
    <2>6. QED  BY <1>s, <1>2, <1>11, <2>1, <2>2, <2>4, <2>5, RunningStep
  <1>12. CASE /\ able # {} /\ at' = [at EXCEPT ![r] = k]
              /\ lastRoute' = (IF conf.planner THEN r ELSE lastRoute)
              /\ used' = [used EXCEPT ![r] = @ \cup {cs[k].locality}]
              /\ pc' = [pc EXCEPT ![r] = "streaming"]
    <2>1. k \in DOMAIN cs /\ k \in Nat /\ cs[k].locality \in {"local", "cloud"}
      BY <1>3, <1>7, <1>8, <1>12
    <2>2. Shape'  BY <1>s, <1>12, <2>1 DEF RoutingInv, Shape, Settled, InFlight
    <2>3. \A q \in Requests \ {r} : Same(q)  BY <1>1, <1>12 DEF RoutingInv, Shape, Same
    <2>4. at'[r] = k /\ pc'[r] = "streaming" /\ used'[r] = {cs[k].locality}
      BY <1>5, <1>12 DEF RoutingInv, Shape
    <2>5. used'[r] # {"local", "cloud"}  BY <2>4
    <2>6. Own(r)'  BY <1>s, <1>4, <1>5, <2>1, <2>4, <2>5 DEF Own
    <2>7. Alone(r)'  BY <1>s, <1>12 DEF RoutingInv, Alone
    <2>8. lastRoute' \in {lastRoute, r}  BY <1>12
    <2>9. QED  BY <1>s, <1>2, <2>2, <2>3, <2>6, <2>7, <2>8, RunningStep
  <1>13. QED  BY <1>9, <1>10, <1>11, <1>12

\* What the loop of create does when a candidate is out.
LEMMA MoveOnEffect ==
  ASSUME RoutingInv, NEW r \in Requests, pc[r] \in {"trying", "awaiting"}, MoveOn(r),
         UNCHANGED <<conf, policy, api, plan, deltas, dones, used, lastRoute, reported,
                     overlapped>>
  PROVE  RoutingInv'
  <1>1. Running(r)  BY DEF Running, InFlight
  <1>2. DOMAIN Candidates(r) = 1 .. Len(Candidates(r)) /\ Len(Candidates(r)) \in Nat
        /\ at[r] \in Nat
    BY CandidatesAreSequences DEF Candidates, RoutingInv, Shape
  <1>3. Candidates(r)' = Candidates(r)
    BY DEF Candidates, PlannerCandidates, ResponseCandidates, HasLocal
  <1>4. deltas[r] = {} /\ Own(r) /\ Alone(r)  BY DEF RoutingInv, Own
  <1>5. CASE /\ at[r] < Len(Candidates(r)) /\ PlannerFallbackAllowed(r, plan[r])
             /\ at' = [at EXCEPT ![r] = @ + 1] /\ pc' = [pc EXCEPT ![r] = "trying"]
    <2>1. Shape'  BY <1>5 DEF RoutingInv, Shape, Settled, InFlight
    <2>2. \A q \in Requests \ {r} : Same(q)  BY <1>5 DEF RoutingInv, Shape, Same
    <2>3. at'[r] = at[r] + 1 /\ pc'[r] = "trying"  BY <1>5 DEF RoutingInv, Shape
    <2>4. policy[r] # "private"  BY <1>5 DEF PlannerFallbackAllowed, CloudFallbackAllowed
    <2>5. at'[r] \in DOMAIN Candidates(r) /\ at'[r] >= 1  BY <1>2, <1>5, <2>3
    <2>6. Own(r)'  BY <1>3, <1>4, <2>3, <2>4, <2>5 DEF Own
    <2>7. Alone(r)'  BY <1>4, <2>3 DEF Alone
    <2>8. QED  BY <1>1, <2>1, <2>2, <2>6, <2>7, RunningStep
  <1>6. CASE at' = at /\ pc' = [pc EXCEPT ![r] = "failed"]
    <2>1. Shape'  BY <1>6 DEF RoutingInv, Shape, Settled, InFlight
    <2>2. \A q \in Requests \ {r} : Same(q)  BY <1>6 DEF RoutingInv, Shape, Same
    <2>3. pc'[r] = "failed"  BY <1>6 DEF RoutingInv, Shape
    <2>4. Own(r)'  BY <1>3, <1>4, <1>6, <2>3 DEF Own
    <2>5. Alone(r)'  BY <1>4, <2>3 DEF Alone
    <2>6. QED  BY <1>1, <2>1, <2>2, <2>4, <2>5, RunningStep
  <1>7. QED  BY <1>5, <1>6 DEF MoveOn, Goto

LEMMA TryStep ==
  ASSUME RoutingInv, NEW r \in Requests, TryCandidate(r)
  PROVE  RoutingInv'
  <1>1. /\ pc[r] = "trying"
        /\ UNCHANGED <<conf, policy, api, plan, deltas, dones, lastRoute, reported, overlapped>>
    BY DEF TryCandidate
  <1>2. Running(r)  BY <1>1 DEF Running, InFlight
  <1>3. Candidates(r)' = Candidates(r)
    BY <1>1 DEF Candidates, PlannerCandidates, ResponseCandidates, HasLocal
  <1>4. Own(r) /\ Alone(r) /\ at[r] \in Nat  BY DEF RoutingInv, Shape
  <1>5. Candidates(r) \in Seq(Candidate) /\ Len(Candidates(r)) \in Nat
        /\ DOMAIN Candidates(r) = 1 .. Len(Candidates(r))
    BY CandidatesAreSequences DEF Candidates, RoutingInv, Shape
  <1>6. CASE pc' = [pc EXCEPT ![r] = "failed"] /\ UNCHANGED <<at, used>>
    <2>1. Shape'  BY <1>1, <1>6 DEF RoutingInv, Shape, Settled, InFlight
    <2>2. \A q \in Requests \ {r} : Same(q)  BY <1>1, <1>6 DEF RoutingInv, Shape, Same
    <2>3. pc'[r] = "failed"  BY <1>6 DEF RoutingInv, Shape
    <2>4. Own(r)'  BY <1>1, <1>3, <1>4, <1>6, <2>3 DEF Own
    <2>5. Alone(r)'  BY <1>1, <1>4, <2>3 DEF Alone
    <2>6. QED  BY <1>1, <1>2, <2>1, <2>2, <2>4, <2>5, RunningStep
  <1>7. CASE MoveOn(r) /\ UNCHANGED used  BY <1>1, <1>7, MoveOnEffect
  <1>8. CASE /\ at[r] <= Len(Candidates(r))
             /\ used' = [used EXCEPT ![r] = @ \cup {Candidates(r)[at[r]].locality}]
             /\ pc' = [pc EXCEPT ![r] = "awaiting"] /\ UNCHANGED at
    <2>1. at[r] \in DOMAIN Candidates(r)  BY <1>1, <1>4, <1>5, <1>8 DEF Own
    <2>2. Candidates(r)[at[r]] \in Candidate  BY <1>5, <2>1
    <2>3. Candidates(r)[at[r]].locality \in {"local", "cloud"}  BY <2>2 DEF Candidate
    <2>4. Shape'  BY <1>1, <1>8, <2>3 DEF RoutingInv, Shape, Settled, InFlight
    <2>5. \A q \in Requests \ {r} : Same(q)  BY <1>1, <1>8 DEF RoutingInv, Shape, Same
    <2>6. /\ pc'[r] = "awaiting"
          /\ used'[r] = used[r] \cup {Candidates(r)[at[r]].locality}
      BY <1>8 DEF RoutingInv, Shape
    <2>7. policy[r] = "private" => used'[r] # {"local", "cloud"}
      BY <1>1, <1>4, <2>6 DEF Own
    <2>8. Own(r)'  BY <1>1, <1>3, <1>4, <1>8, <2>1, <2>6, <2>7 DEF Own
    <2>9. Alone(r)'  BY <1>1, <1>4, <2>6 DEF Alone
    <2>10. QED  BY <1>1, <1>2, <2>4, <2>5, <2>8, <2>9, RunningStep
  <1>9. QED  BY <1>6, <1>7, <1>8 DEF TryCandidate, Goto, Contact

LEMMA ReturnStep ==
  ASSUME RoutingInv, NEW r \in Requests, CreateReturns(r)
  PROVE  RoutingInv'
  <1>1. /\ pc[r] = "awaiting" /\ pc' = [pc EXCEPT ![r] = "returned"]
        /\ deltas' = [deltas EXCEPT ![r] = {at[r]}] /\ dones' = [dones EXCEPT ![r] = {at[r]}]
        /\ lastRoute' = (IF conf.planner THEN r ELSE lastRoute)
        /\ reported' = [reported EXCEPT ![r] = IF conf.planner THEN lastRoute' ELSE @]
        /\ UNCHANGED <<conf, policy, api, plan, at, used, overlapped>>
    BY DEF CreateReturns, Goto, Describe, Report
  <1>2. Running(r)  BY <1>1 DEF Running, InFlight
  <1>3. Candidates(r)' = Candidates(r)
    BY <1>1 DEF Candidates, PlannerCandidates, ResponseCandidates, HasLocal
  <1>4. Own(r) /\ Alone(r) /\ at[r] \in Nat  BY DEF RoutingInv, Shape
  <1>5. Shape'  BY <1>1, <1>4 DEF RoutingInv, Shape, Settled, InFlight
  <1>6. \A q \in Requests \ {r} : Same(q)  BY <1>1 DEF RoutingInv, Shape, Same
  <1>7. pc'[r] = "returned" /\ deltas'[r] = {at[r]} /\ dones'[r] = {at[r]}
        /\ reported'[r] = (IF conf.planner THEN r ELSE reported[r])
    BY <1>1 DEF RoutingInv, Shape
  <1>8. Own(r)'  BY <1>1, <1>3, <1>4, <1>7 DEF Own
  <1>9. Alone(r)'  BY <1>1, <1>4, <1>7 DEF Alone
  <1>10. lastRoute' \in {lastRoute, r}  BY <1>1
  <1>11. QED  BY <1>1, <1>2, <1>5, <1>6, <1>8, <1>9, <1>10, RunningStep

\* The events of a stream, its end, and a caller that leaves.
LEMMA StreamStep ==
  ASSUME RoutingInv, NEW r \in Requests,
         EmitDelta(r) \/ EmitDone(r) \/ StreamReturns(r) \/ Abandon(r)
  PROVE  RoutingInv'
  <1>1. /\ pc[r] \in {"streaming", "draining"}
        /\ UNCHANGED <<conf, policy, api, plan, at, used, lastRoute, overlapped>>
    BY DEF EmitDelta, EmitDone, StreamReturns, Abandon
  <1>2. Running(r)  BY <1>1 DEF Running, InFlight
  <1>3. Candidates(r)' = Candidates(r)
    BY <1>1 DEF Candidates, PlannerCandidates, ResponseCandidates, HasLocal
  <1>4. Own(r) /\ Alone(r) /\ at[r] \in Nat /\ at[r] \in DOMAIN Candidates(r)
    BY <1>1 DEF RoutingInv, Shape, Own
  <1>5. CASE EmitDelta(r)
    <2>1. deltas' = [deltas EXCEPT ![r] = @ \cup {at[r]}] /\ UNCHANGED <<pc, dones, reported>>
      BY <1>5 DEF EmitDelta
    <2>2. Shape'  BY <1>1, <1>4, <2>1 DEF RoutingInv, Shape
    <2>3. \A q \in Requests \ {r} : Same(q)  BY <1>1, <2>1 DEF RoutingInv, Shape, Same
    <2>4. deltas'[r] = deltas[r] \cup {at[r]}  BY <2>1 DEF RoutingInv, Shape
    <2>5. Own(r)'  BY <1>1, <1>3, <1>4, <2>1, <2>4 DEF Own
    <2>6. Alone(r)'  BY <1>1, <1>4, <2>1 DEF Alone
    <2>7. QED  BY <1>1, <1>2, <2>2, <2>3, <2>5, <2>6, RunningStep
  <1>6. CASE EmitDone(r)
    <2>1. /\ dones' = [dones EXCEPT ![r] = @ \cup {at[r]}]
          /\ pc' = [pc EXCEPT ![r] = "draining"] /\ UNCHANGED <<deltas, reported>>
      BY <1>6 DEF EmitDone, Goto
    <2>2. Shape'  BY <1>1, <1>4, <2>1 DEF RoutingInv, Shape, Settled, InFlight
    <2>3. \A q \in Requests \ {r} : Same(q)  BY <1>1, <2>1 DEF RoutingInv, Shape, Same
    <2>4. dones'[r] = dones[r] \cup {at[r]} /\ pc'[r] = "draining"
      BY <2>1 DEF RoutingInv, Shape
    <2>5. Own(r)'  BY <1>1, <1>3, <1>4, <2>1, <2>4 DEF Own
    <2>6. Alone(r)'  BY <1>1, <1>4, <2>1, <2>4 DEF Alone
    <2>7. QED  BY <1>1, <1>2, <2>2, <2>3, <2>5, <2>6, RunningStep
  <1>7. CASE StreamReturns(r)
    <2>1. /\ reported' = [reported EXCEPT ![r] = IF conf.planner THEN lastRoute ELSE @]
          /\ pc' = [pc EXCEPT ![r] = "returned"] /\ UNCHANGED <<deltas, dones>>
      BY <1>7 DEF StreamReturns, Report, Goto
    <2>2. Shape'  BY <1>1, <1>4, <2>1 DEF RoutingInv, Shape, Settled, InFlight
    <2>3. \A q \in Requests \ {r} : Same(q)  BY <1>1, <2>1 DEF RoutingInv, Shape, Same
    <2>4. /\ reported'[r] = (IF conf.planner THEN lastRoute ELSE reported[r])
          /\ pc'[r] = "returned"
      BY <2>1 DEF RoutingInv, Shape
    <2>5. Own(r)'  BY <1>1, <1>3, <1>4, <2>1, <2>4 DEF Own
    <2>6. Alone(r)'  BY <1>1, <1>4, <2>1, <2>4 DEF Alone
    <2>7. QED  BY <1>1, <1>2, <2>2, <2>3, <2>5, <2>6, RunningStep
  <1>8. CASE Abandon(r)
    <2>1. pc' = [pc EXCEPT ![r] = "abandoned"] /\ UNCHANGED <<deltas, dones, reported>>
      BY <1>8 DEF Abandon, Goto
    <2>2. Shape'  BY <1>1, <2>1 DEF RoutingInv, Shape, Settled, InFlight
    <2>3. \A q \in Requests \ {r} : Same(q)  BY <1>1, <2>1 DEF RoutingInv, Shape, Same
    <2>4. pc'[r] = "abandoned"  BY <2>1 DEF RoutingInv, Shape
    <2>5. Own(r)'  BY <1>1, <1>3, <1>4, <2>1, <2>4 DEF Own
    <2>6. Alone(r)'  BY <1>1, <1>4, <2>1, <2>4 DEF Alone
    <2>7. QED  BY <1>1, <1>2, <2>2, <2>3, <2>5, <2>6, RunningStep
  <1>9. QED  BY <1>5, <1>6, <1>7, <1>8

LEMMA ThrowStep ==
  ASSUME RoutingInv, NEW r \in Requests, StreamThrows(r)
  PROVE  RoutingInv'
  <1>1. /\ pc[r] \in {"streaming", "draining"}
        /\ UNCHANGED <<conf, policy, api, plan, deltas, dones, reported, overlapped>>
    BY DEF StreamThrows
  <1>2. Running(r)  BY <1>1 DEF Running, InFlight
  <1>3. Candidates(r)' = Candidates(r)
    BY <1>1 DEF Candidates, PlannerCandidates, ResponseCandidates, HasLocal
  <1>4. Own(r) /\ Alone(r) /\ at[r] \in Nat  BY DEF RoutingInv, Shape
  <1>5. DOMAIN Candidates(r) = 1 .. Len(Candidates(r)) /\ Len(Candidates(r)) \in Nat
    BY CandidatesAreSequences DEF Candidates, RoutingInv, Shape
  <1>6. CASE /\ MayStartCloud(r) /\ at' = [at EXCEPT ![r] = First(NextCloud(r))]
             /\ lastRoute' = (IF conf.planner THEN r ELSE lastRoute)
             /\ used' = [used EXCEPT ![r] = @ \cup {"cloud"}]
             /\ pc' = [pc EXCEPT ![r] = "streaming"]
    <2>1. deltas[r] = {} /\ NextCloud(r) # {} /\ policy[r] # "private"
      BY <1>6 DEF MayStartCloud, PlannerFallbackAllowed, CloudFallbackAllowed
    <2>2. First(NextCloud(r)) \in DOMAIN Candidates(r) /\ First(NextCloud(r)) \in Nat
      <3>1. NextCloud(r) \subseteq DOMAIN Candidates(r)  BY DEF NextCloud
      <3>2. NextCloud(r) \subseteq Nat  BY <1>5, <3>1
      <3>3. QED  BY <2>1, <3>1, <3>2, FirstIsThere
    <2>3. Shape'  BY <1>1, <1>6, <2>2 DEF RoutingInv, Shape, Settled, InFlight
    <2>4. \A q \in Requests \ {r} : Same(q)  BY <1>1, <1>6 DEF RoutingInv, Shape, Same
    <2>5. at'[r] = First(NextCloud(r)) /\ pc'[r] = "streaming"
      BY <1>6 DEF RoutingInv, Shape
    <2>6. Own(r)'  BY <1>1, <1>3, <1>4, <2>1, <2>2, <2>5 DEF Own
    <2>7. Alone(r)'  BY <1>1, <1>4, <1>6 DEF Alone
    <2>8. lastRoute' \in {lastRoute, r}  BY <1>6
    <2>9. QED  BY <1>1, <1>2, <2>3, <2>4, <2>6, <2>7, <2>8, RunningStep
  <1>7. CASE pc' = [pc EXCEPT ![r] = "failed"] /\ UNCHANGED <<at, lastRoute, used>>
    <2>1. Shape'  BY <1>1, <1>7 DEF RoutingInv, Shape, Settled, InFlight
    <2>2. \A q \in Requests \ {r} : Same(q)  BY <1>1, <1>7 DEF RoutingInv, Shape, Same
    <2>3. pc'[r] = "failed"  BY <1>7 DEF RoutingInv, Shape
    <2>4. Own(r)'  BY <1>1, <1>3, <1>4, <1>7, <2>3 DEF Own
    <2>5. Alone(r)'  BY <1>1, <1>4, <2>3 DEF Alone
    <2>6. QED  BY <1>1, <1>2, <1>7, <2>1, <2>2, <2>4, <2>5, RunningStep
  <1>8. QED  BY <1>6, <1>7 DEF StreamThrows, Describe, Contact, Goto

LEMMA RoutingStep == RoutingInv /\ [Next]_vars => RoutingInv'
  <1> SUFFICES ASSUME RoutingInv, [Next]_vars PROVE RoutingInv'  OBVIOUS
  <1>1. CASE UNCHANGED vars
    <2>1. Shape'  BY <1>1 DEF vars, RoutingInv, Shape
    <2>2. \A q \in Requests : Own(q)' /\ Beside(q)' /\ Alone(q)'
      BY <1>1 DEF vars, RoutingInv, Own, Beside, Alone, Running, Candidates,
                  PlannerCandidates, ResponseCandidates, HasLocal
    <2>3. QED  BY <2>1, <2>2 DEF RoutingInv
  <1>2. CASE Next
    <2> SUFFICES ASSUME NEW r \in Requests,
                        \/ \E p \in Policies, a \in {"create", "stream"} : Begin(r, p, a)
                        \/ Progress(r) \/ EmitDelta(r) \/ Abandon(r)
                 PROVE  RoutingInv'
      BY <1>2 DEF Next
    <2>1. ASSUME NEW p \in Policies, NEW a \in {"create", "stream"}, Begin(r, p, a)
          PROVE  RoutingInv'
      BY <2>1, BeginStep
    <2>2. ASSUME NEW p \in Plans \cup {None}, PlanArrives(r, p) PROVE RoutingInv'
      BY <2>2, PlanStep
    <2>3. CASE TryCandidate(r)  BY <2>3, TryStep
    <2>4. CASE CandidateFails(r)  BY <2>4, MoveOnEffect DEF CandidateFails
    <2>5. CASE CreateReturns(r)  BY <2>5, ReturnStep
    <2>6. CASE StreamThrows(r)  BY <2>6, ThrowStep
    <2>7. CASE EmitDelta(r) \/ EmitDone(r) \/ StreamReturns(r) \/ Abandon(r)
      BY <2>7, StreamStep
    <2>8. QED  BY <2>1, <2>2, <2>3, <2>4, <2>5, <2>6, <2>7 DEF Progress
  <1>3. QED  BY <1>1, <1>2

LEMMA RoutingInvariant == Spec => []RoutingInv
  BY RoutingInitially, RoutingStep, PTL DEF Spec
-----------------------------------------------------------------------------
(* ResponseRouting: for any number of requests, any plans and any interleaving *)

\* The client and its requests stay well formed: whatever a caller has seen came
\* from a candidate of the plan its request was given.
THEOREM RoutingTypeCorrect == Spec => []TypeOK
  <1>1. RoutingInv => TypeOK  BY DEF RoutingInv, Shape, Own, TypeOK
  <1>2. QED  BY <1>1, RoutingInvariant, PTL

\* No loop, no rejected output and no broken stream takes a private request from
\* one locality to the other.
THEOREM PrivateStaysPut == Spec => []PrivateNeverFallsOver
  <1>1. RoutingInv => PrivateNeverFallsOver  BY DEF RoutingInv, Own, PrivateNeverFallsOver
  <1>2. QED  BY <1>1, RoutingInvariant, PTL

\* Once a caller has seen output of one candidate it sees that of no other.
THEOREM OneVoice == Spec => []DeltasFromOneRoute
  <1>1. RoutingInv => DeltasFromOneRoute  BY DEF RoutingInv, Own, DeltasFromOneRoute
  <1>2. QED  BY <1>1, RoutingInvariant, PTL

\* The field that all requests of a client share is, for one that ran alone, its own.
THEOREM OwnRouteReported == Spec => []AloneReportsItself
  <1>1. RoutingInv => AloneReportsItself  BY DEF RoutingInv, Alone, AloneReportsItself
  <1>2. QED  BY <1>1, RoutingInvariant, PTL
-----------------------------------------------------------------------------
(* ResponseRouting: every step of a request brings its end closer *)

\* The plan is still to come, or the candidates are walked, or it is over.
Phase(r) == IF pc[r] = "planning" THEN 2 ELSE IF Running(r) THEN 1 ELSE 0

\* Each candidate that a running request may still reach counts twice: it is
\* started, and it answers.
TriesLeft(r) ==
  LET after == 2 * ((Len(Candidates(r)) + 1) - at[r])
  IN IF pc[r] \in {"trying", "streaming"} THEN after + 1
     ELSE IF pc[r] \in {"awaiting", "draining"} THEN after
     ELSE 0

\* The request gets closer to its end.  Both measures are natural numbers.
Nearer(r) ==
  \/ Phase(r)' \in 0..(Phase(r) - 1)
  \/ Phase(r)' = Phase(r) /\ TriesLeft(r)' \in 0..(TriesLeft(r) - 1)

AsNear(r) == Phase(r)' = Phase(r) /\ TriesLeft(r)' = TriesLeft(r)

\* The finite descent under EveryRequestSettles: no step of another request takes
\* a running one back, and each step of its own but an output event takes it
\* forward, through the attempt loop of create and the fallback of stream.
RequestsRunOut ==
  [][\A r \in Requests :
       /\ Running(r) => Nearer(r) \/ AsNear(r)
       /\ Progress(r) => Nearer(r)]_vars

LEMMA OthersStayNear ==
  ASSUME NEW r \in Requests, conf' = conf,
         pc'[r] = pc[r], plan'[r] = plan[r], at'[r] = at[r]
  PROVE  AsNear(r)
  BY DEF AsNear, Phase, TriesLeft, Running, Candidates, PlannerCandidates,
         ResponseCandidates, HasLocal

LEMMA PhaseType ==
  ASSUME NEW r \in Requests
  PROVE  /\ Phase(r) \in 0..2 /\ Phase(r)' \in 0..2
         /\ Running(r) => Phase(r) > 0
         /\ ~Running(r)' => Phase(r)' = 0
  BY DEF Phase, Running, InFlight

\* A request that goes on to a later candidate, or waits for the one it is at.
LEMMA GoesOn ==
  ASSUME RoutingInv, RoutingInv', NEW r \in Requests, Candidates(r)' = Candidates(r),
         pc[r] \in {"trying", "awaiting", "streaming", "draining"},
         pc'[r] \in {"trying", "awaiting", "streaming", "draining"},
         \/ at'[r] > at[r]
         \/ /\ at'[r] = at[r]
            /\ pc[r] \in {"trying", "streaming"} /\ pc'[r] \in {"awaiting", "draining"}
  PROVE  Nearer(r)
  <1>1. Phase(r) = 1 /\ Phase(r)' = 1  BY DEF Phase, Running, InFlight
  <1>2. /\ at[r] \in Nat /\ at'[r] \in Nat /\ plan[r] \in Plans \cup {None}
        /\ at'[r] > 1 => at'[r] \in DOMAIN Candidates(r)
    BY DEF RoutingInv, Shape, Own
  <1>3. Len(Candidates(r)) \in Nat /\ DOMAIN Candidates(r) = 1 .. Len(Candidates(r))
    BY <1>2, CandidatesAreSequences DEF Candidates
  <1>4. at'[r] <= Len(Candidates(r)) + 1  BY <1>2, <1>3
  <1>5. TriesLeft(r)' =
          IF pc'[r] \in {"trying", "streaming"}
          THEN 2 * ((Len(Candidates(r)) + 1) - at'[r]) + 1
          ELSE 2 * ((Len(Candidates(r)) + 1) - at'[r])
    BY DEF TriesLeft
  <1>6. TriesLeft(r) =
          IF pc[r] \in {"trying", "streaming"}
          THEN 2 * ((Len(Candidates(r)) + 1) - at[r]) + 1
          ELSE 2 * ((Len(Candidates(r)) + 1) - at[r])
    BY DEF TriesLeft
  <1> DEFINE n == Len(Candidates(r))
             here == pc[r] \in {"trying", "streaming"}
             there == pc'[r] \in {"trying", "streaming"}
  <1> HIDE DEF n, here, there
  <1>7. TriesLeft(r)' \in 0..(TriesLeft(r) - 1)
    <2>1. /\ TriesLeft(r)' = 2 * ((n + 1) - at'[r]) + (IF there THEN 1 ELSE 0)
          /\ TriesLeft(r) = 2 * ((n + 1) - at[r]) + (IF here THEN 1 ELSE 0)
      BY <1>2, <1>3, <1>5, <1>6 DEF n, here, there
    <2>2. at'[r] > at[r] \/ (at'[r] = at[r] /\ here /\ ~there)
      BY DEF here, there
    <2>3. n \in Nat /\ at'[r] <= n + 1  BY <1>3, <1>4 DEF n
    <2>4. QED  BY <1>2, <2>1, <2>2, <2>3
  <1>8. QED  BY <1>1, <1>7 DEF Nearer

LEMMA ProgressIsNearer ==
  ASSUME RoutingInv, RoutingInv', NEW r \in Requests, Progress(r)
  PROVE  /\ Nearer(r)
         /\ conf' = conf
         /\ \A q \in Requests \ {r} :
              pc'[q] = pc[q] /\ plan'[q] = plan[q] /\ at'[q] = at[q]
  <1> DEFINE Apart == /\ conf' = conf
                      /\ \A q \in Requests \ {r} :
                           pc'[q] = pc[q] /\ plan'[q] = plan[q] /\ at'[q] = at[q]
  <1>0. /\ pc \in [Requests -> Settled \cup InFlight]
        /\ at \in [Requests -> Nat] /\ plan \in [Requests -> Plans \cup {None}]
    BY DEF RoutingInv, Shape
  <1>1. ASSUME Running(r), ~Running(r)' PROVE Nearer(r)
    BY <1>1, PhaseType DEF Nearer
  <1>2. ASSUME UNCHANGED <<conf, plan>>
        PROVE  Candidates(r)' = Candidates(r)
    BY <1>2 DEF Candidates, PlannerCandidates, ResponseCandidates, HasLocal
  <1>3. ASSUME MoveOn(r), pc[r] \in {"trying", "awaiting"}, UNCHANGED <<conf, plan>>
        PROVE  Nearer(r) /\ Apart
    <2>1. CASE at' = [at EXCEPT ![r] = @ + 1] /\ pc' = [pc EXCEPT ![r] = "trying"]
      BY <1>0, <1>2, <1>3, <2>1, GoesOn
    <2>2. CASE at' = at /\ pc' = [pc EXCEPT ![r] = "failed"]
      BY <1>0, <1>1, <1>3, <2>2 DEF Running, InFlight
    <2>3. QED  BY <1>3, <2>1, <2>2 DEF MoveOn, Goto
  <1>4. ASSUME NEW p \in Plans \cup {None}, PlanArrives(r, p) PROVE Nearer(r) /\ Apart
    <2>1. /\ pc[r] = "planning" /\ pc'[r] # "planning"
          /\ \A q \in Requests \ {r} :
               pc'[q] = pc[q] /\ plan'[q] = plan[q] /\ at'[q] = at[q]
          /\ conf' = conf
      BY <1>0, <1>4 DEF PlanArrives, Goto
    <2>2. Phase(r) = 2 /\ Phase(r)' \in 0..1  BY <2>1 DEF Phase
    <2>3. QED  BY <2>1, <2>2 DEF Nearer
  <1>5. CASE TryCandidate(r)
    <2>1. pc[r] = "trying" /\ UNCHANGED <<conf, plan>>  BY <1>5 DEF TryCandidate
    <2>2. CASE at' = at /\ pc' = [pc EXCEPT ![r] = "failed"]
      BY <1>0, <1>1, <2>1, <2>2 DEF Running, InFlight
    <2>3. CASE MoveOn(r)  BY <1>3, <2>1, <2>3
    <2>4. CASE at' = at /\ pc' = [pc EXCEPT ![r] = "awaiting"]
      BY <1>0, <1>2, <2>1, <2>4, GoesOn
    <2>5. QED  BY <1>5, <2>2, <2>3, <2>4 DEF TryCandidate, Goto
  <1>6. CASE CandidateFails(r)  BY <1>3, <1>6 DEF CandidateFails
  <1>7. CASE CreateReturns(r)
    BY <1>0, <1>1, <1>7 DEF CreateReturns, Goto, Running, InFlight
  <1>8. CASE EmitDone(r)
    <2>1. /\ pc[r] = "streaming" /\ pc' = [pc EXCEPT ![r] = "draining"]
          /\ UNCHANGED <<conf, plan, at>>
      BY <1>8 DEF EmitDone, Goto
    <2>2. QED  BY <1>0, <1>2, <2>1, GoesOn
  <1>9. CASE StreamReturns(r)
    BY <1>0, <1>1, <1>9 DEF StreamReturns, Goto, Running, InFlight
  <1>10. CASE StreamThrows(r)
    <2>1. pc[r] \in {"streaming", "draining"} /\ UNCHANGED <<conf, plan>>
      BY <1>10 DEF StreamThrows
    <2>2. CASE MayStartCloud(r) /\ at' = [at EXCEPT ![r] = First(NextCloud(r))]
               /\ pc' = [pc EXCEPT ![r] = "streaming"]
      <3>1. Candidates(r) \in Seq(Candidate)
            /\ DOMAIN Candidates(r) = 1 .. Len(Candidates(r))
        BY <1>0, CandidatesAreSequences DEF Candidates
      <3>2. NextCloud(r) \subseteq Nat /\ NextCloud(r) # {}
        BY <2>2, <3>1 DEF NextCloud, MayStartCloud
      <3>3. First(NextCloud(r)) \in NextCloud(r)  BY <3>2, FirstIsThere
      <3>4. at'[r] > at[r]  BY <1>0, <2>2, <3>3 DEF NextCloud
      <3>5. pc'[r] = "streaming"  BY <1>0, <2>2
      <3>6. Nearer(r)  BY <1>2, <2>1, <3>4, <3>5, GoesOn
      <3>7. QED  BY <1>0, <2>1, <2>2, <3>6
    <2>3. CASE at' = at /\ pc' = [pc EXCEPT ![r] = "failed"]
      BY <1>0, <1>1, <2>1, <2>3 DEF Running, InFlight
    <2>4. QED  BY <1>10, <2>2, <2>3 DEF StreamThrows, Goto
  <1>11. QED
    BY <1>4, <1>5, <1>6, <1>7, <1>8, <1>9, <1>10 DEF Progress

LEMMA RunOutStep ==
  RoutingInv /\ RoutingInv' /\ [Next]_vars =>
    [\A r \in Requests : /\ Running(r) => Nearer(r) \/ AsNear(r)
                         /\ Progress(r) => Nearer(r)]_vars
  <1> SUFFICES ASSUME RoutingInv, RoutingInv', Next, NEW r \in Requests
               PROVE  (Running(r) => Nearer(r) \/ AsNear(r)) /\ (Progress(r) => Nearer(r))
    OBVIOUS
  <1>0. pc \in [Requests -> Settled \cup InFlight]  BY DEF RoutingInv, Shape
  <1>1. Progress(r) => Nearer(r)  BY ProgressIsNearer
  <1>2. ASSUME NEW q \in Requests, Progress(q)  PROVE Nearer(r) \/ AsNear(r)
    BY <1>2, ProgressIsNearer, OthersStayNear
  <1>3. ASSUME Running(r), NEW q \in Requests, NEW p \in Policies,
               NEW a \in {"create", "stream"}, Begin(q, p, a)
        PROVE  AsNear(r)
    <2>1. q # r /\ UNCHANGED <<conf, plan, at>>
      BY <1>3 DEF Begin, Running, InFlight
    <2>2. pc'[r] = pc[r]  BY <1>0, <1>3, <2>1 DEF Begin, Goto
    <2>3. QED  BY <2>1, <2>2, OthersStayNear
  <1>4. ASSUME NEW q \in Requests, EmitDelta(q)  PROVE AsNear(r)
    BY <1>4, OthersStayNear DEF EmitDelta
  <1>5. ASSUME Running(r), NEW q \in Requests, Abandon(q)  PROVE Nearer(r) \/ AsNear(r)
    <2>1. UNCHANGED <<conf, plan, at>> /\ pc' = [pc EXCEPT ![q] = "abandoned"]
      BY <1>5 DEF Abandon, Goto
    <2>2. CASE q = r
      <3>1. pc'[r] = "abandoned"  BY <1>0, <2>1, <2>2
      <3>2. ~Running(r)'  BY <3>1 DEF Running, InFlight
      <3>3. QED  BY <1>5, <3>2, PhaseType DEF Nearer
    <2>3. CASE q # r  BY <1>0, <2>1, <2>3, OthersStayNear
    <2>4. QED  BY <2>2, <2>3
  <1>6. QED  BY <1>1, <1>2, <1>3, <1>4, <1>5 DEF Next

\* For any requests, plans and policies, in any interleaving: beside the output
\* events a request takes a bounded number of steps, and nothing sends it back.
THEOREM EveryRequestRunsOut == Spec => RequestsRunOut
  BY RoutingInvariant, RunOutStep, PTL DEF Spec, RequestsRunOut
=============================================================================
