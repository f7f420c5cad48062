----------------------------- MODULE Registration -----------------------------
(***************************************************************************)
(* configure() of src/configure.ts and DeviceContext of                    *)
(* src/device-context.ts: the installation id that the processes of a      *)
(* machine share through a file, and the registration that each call of    *)
(* configure leaves to run in the background.                              *)
(*                                                                         *)
(* Each call is one of another process.  Those of one process are some of  *)
(* these behaviours: there, the steps on the file follow each other at     *)
(* once.  An id has the name of the call that generated it.                *)
(***************************************************************************)
EXTENDS Naturals

CONSTANTS
  Contexts,     \* calls of configure, each with its DeviceContext
  MaxAttempts,  \* maxAttempts of silentRegister
  Blank         \* an id file that is absent, or empty

ASSUME RegistrationAssumption == MaxAttempts \in Nat /\ Blank \notin Contexts

VARIABLES
  idFile,      \* what ~/.octomil/installation_id holds
  step,        \* new, generating, writing, posting, waiting, settled, dead
  id,          \* installationId
  unread,      \* history: the contexts that could not read the id that was there
  kept,        \* history: the contexts whose id came from the file or went to it,
               \* since an id in it was last written over unread
  shared,      \* history: those that met another while they looked for an id
  attempt,     \* silentRegister's attempt
  status,      \* registrationState
  token,       \* tokenState: none, valid, lapsed (its expiresAt has passed)
  beating      \* the contexts with a heartbeat timer

registrationVars ==
  <<idFile, step, id, unread, kept, shared, attempt, status, token, beating>>

RegistrationInit ==
  /\ idFile = Blank
  /\ step = [c \in Contexts |-> "new"] /\ id = [c \in Contexts |-> Blank]
  /\ unread = {} /\ kept = {} /\ shared = {}
  /\ attempt = [c \in Contexts |-> 0]
  /\ status = [c \in Contexts |-> "pending"] /\ token = [c \in Contexts |-> "none"]
  /\ beating = {}

GoTo(c, where) == step' = [step EXCEPT ![c] = where]

Looking == {c \in Contexts : step[c] \in {"generating", "writing"}}

registering == <<attempt, status, token, beating>>
-----------------------------------------------------------------------------
(* getOrCreateInstallationId *)

\* configure goes on: with auth and monitoring it registers in the background.
GoOn(c, found, registers) ==
  /\ id' = [id EXCEPT ![c] = found]
  /\ GoTo(c, IF registers THEN "posting" ELSE "settled")

\* The file has an id, and can be read; a blank one does not count.
FindId(c, registers) ==
  /\ step[c] = "new" /\ idFile # Blank
  /\ GoOn(c, idFile, registers)
  /\ kept' = kept \cup {c}
  /\ shared' = IF Looking = {} THEN shared ELSE shared \cup {c}
  /\ UNCHANGED <<idFile, unread, registering>>

\* There is none, or reading it throws: the catch goes on to generate one.
GenerateId(c) ==
  /\ step[c] = "new"
  /\ unread' = IF idFile = Blank THEN unread ELSE unread \cup {c}
  /\ GoTo(c, "generating")
  /\ shared' = IF Looking = {} THEN shared ELSE shared \cup Looking \cup {c}
  /\ UNCHANGED <<idFile, id, kept, registering>>

\* writeFileSync truncates what another has written meanwhile.
OpenIdFile(c) ==
  /\ step[c] = "generating"
  /\ idFile' = Blank
  /\ kept' = IF c \in unread THEN {} ELSE kept
  /\ GoTo(c, "writing")
  /\ UNCHANGED <<id, unread, shared, registering>>

\* Mutant: the id is used and not written.
WriteNoId(c, registers) ==
  /\ step[c] = "writing"
  /\ GoOn(c, c, registers)
  /\ kept' = kept \cup {c}
  /\ UNCHANGED <<idFile, unread, shared, registering>>

WriteId(c, registers) ==
  /\ step[c] = "writing"
  /\ idFile' = c
  /\ GoOn(c, c, registers)
  /\ kept' = kept \cup {c}
  /\ UNCHANGED <<unread, shared, registering>>

\* The file cannot be written: the id is good for this process only.
WriteIdFails(c, registers) ==
  /\ step[c] \in {"generating", "writing"}
  /\ GoOn(c, c, registers)
  /\ UNCHANGED <<idFile, unread, kept, shared, registering>>

\* The process dies before its registration has settled; what it has opened for
\* writing is left blank.
Die(c) ==
  /\ step[c] \notin {"new", "settled", "dead"}
  /\ GoTo(c, "dead")
  /\ UNCHANGED <<idFile, id, unread, kept, shared, registering>>
-----------------------------------------------------------------------------
(* silentRegister and the heartbeat *)

\* The server registers the device and the answer can be read.
Registered(c) ==
  /\ step[c] = "posting"
  /\ status' = [status EXCEPT ![c] = "registered"]
  /\ token' = [token EXCEPT ![c] = "valid"]
  /\ beating' = beating \cup {c}
  /\ GoTo(c, "settled")
  /\ UNCHANGED <<idFile, id, unread, kept, shared, attempt>>

MarkFailed403(c) ==
  /\ step[c] = "posting"
  /\ status' = [status EXCEPT ![c] = "failed"]
  /\ GoTo(c, "settled")
  /\ UNCHANGED <<idFile, id, unread, kept, shared, attempt, token, beating>>

\* Anything else is tried again, after a wait, until there were enough attempts.
Throws(c) ==
  /\ step[c] = "posting"
  /\ IF attempt[c] < MaxAttempts
     THEN GoTo(c, "waiting") /\ UNCHANGED status
     ELSE GoTo(c, "settled") /\ status' = [status EXCEPT ![c] = "failed"]
  /\ UNCHANGED <<idFile, id, unread, kept, shared, attempt, token, beating>>

\* Mutant: the attempts are not counted.
NextAttemptUncounted(a) == a

NextAttempt(a) == a + 1

Again(c) ==
  /\ step[c] = "waiting"
  /\ attempt' = [attempt EXCEPT ![c] = NextAttempt(@)]
  /\ GoTo(c, "posting")
  /\ UNCHANGED <<idFile, id, unread, kept, shared, status, token, beating>>

\* The token's time is over: authHeaders returns null from then on.
Lapse(c) ==
  /\ token[c] = "valid"
  /\ token' = [token EXCEPT ![c] = "lapsed"]
  /\ UNCHANGED <<idFile, step, id, unread, kept, shared, attempt, status, beating>>
-----------------------------------------------------------------------------
Register(c) == Registered(c) \/ MarkFailed403(c) \/ Throws(c) \/ Again(c)

RegistrationNext ==
  \E c \in Contexts :
    \/ \E registers \in BOOLEAN :
         FindId(c, registers) \/ WriteId(c, registers) \/ WriteIdFails(c, registers)
    \/ GenerateId(c) \/ OpenIdFile(c) \/ Die(c)
    \/ Register(c) \/ Lapse(c)

\* Requests end and timers fire.
RegistrationSpec ==
  /\ RegistrationInit /\ [][RegistrationNext]_registrationVars
  /\ \A c \in Contexts : WF_registrationVars(Register(c))
-----------------------------------------------------------------------------
(* Properties *)

\* Processes that kept an id have the same one, although some died while they
\* wrote it and others could not write.  Those are left out that looked for it
\* while another was between its look and its write; and a process that cannot
\* read the id that is there puts its own in its place, so that this speaks of
\* those that came after the last one that did.
OneInstallation ==
  \A c, d \in kept \ shared : id[c] = id[d]

\* A registration comes to an end, and not with a half: registered with a token
\* and a heartbeat, or failed with neither; the attempts run out.
RegistrationSettles ==
  \A c \in Contexts :
    step[c] = "posting" ~>
      \/ step[c] = "dead"
      \/ status[c] = "registered" /\ token[c] # "none" /\ c \in beating
      \/ status[c] = "failed" /\ token[c] = "none" /\ c \notin beating
=============================================================================
