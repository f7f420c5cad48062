---------------------------- MODULE AttemptRunner ----------------------------
(***************************************************************************)
(* CandidateAttemptRunner: the loop that walks a plan's candidates.        *)
(* `run` stops at the first candidate that is ready; `runWithInference`    *)
(* also executes it, checks its output, and may move on to the next one.   *)
(*                                                                         *)
(* One behaviour is one call.  The candidates themselves are left open:    *)
(* whether a runtime is there, what the gates say, whether inference       *)
(* throws and what it emits are chosen as the loop reaches each one.       *)
(* Candidates are numbered from 1 (the code's indices start at 0).         *)
(***************************************************************************)
EXTENDS Naturals, Sequences

CONSTANTS
  MaxCandidates,   \* the longest plan
  GateSets,        \* the sets of evaluated pre-inference gates to consider
  None             \* JavaScript's null

Gate ==
  [required : BOOLEAN,
   kind : {"classified", "unclassified", "device"},
   status : {"passed", "failed", "unknown", "not_required"}]

\* A fallback trigger: whose failure it describes and at which stage, and
\* whether it carries the gate's facts (gate_code, gate_class, phase, ...).
Trigger ==
  [of : 1..MaxCandidates, gate : BOOLEAN,
   stage : {"prepare", "gate", "inference", "output_quality"}]

ASSUME RunnerAssumption ==
  /\ MaxCandidates \in Nat
  /\ GateSets \subseteq SUBSET Gate
  /\ None \notin Nat \cup Trigger

VARIABLES
  call,      \* the call: which method, with which options, on how many candidates
  pc,        \* where the loop is
  i,         \* the candidate it is at
  attempts,  \* the attempt log
  from,      \* fromAttempt: the candidate that failed first, or None
  trigger,   \* fallbackTrigger: what is said of that failure, or None
  visible,   \* whether any output has reached the caller
  emitted,   \* history: the candidates whose output the caller saw
  result     \* what the call returned, or None

vars == <<call, pc, i, attempts, from, trigger, visible, emitted, result>>

Call ==
  [method : {"run", "runWithInference"}, fallbackAllowed : BOOLEAN,
   streaming : BOOLEAN, count : 0..MaxCandidates]

Attempt ==
  [index : 1..MaxCandidates, status : {"failed", "selected"},
   stage : {"prepare", "gate", "inference", "output_quality"}]

Result ==
  [selected : 1..MaxCandidates \cup {None}, fallbackUsed : BOOLEAN,
   from : 1..MaxCandidates \cup {None}, to : 1..MaxCandidates \cup {None},
   trigger : Trigger \cup {None}]

\* The type invariant of a call of run or runWithInference.
TypeOK ==
  /\ call \in Call
  /\ pc \in {"check", "executing", "after", "returned"}
  /\ i \in 1..(MaxCandidates + 1)
  /\ attempts \in Seq(Attempt)
  /\ from \in 1..MaxCandidates \cup {None}
  /\ trigger \in Trigger \cup {None}
  /\ visible \in BOOLEAN
  /\ emitted \in SUBSET (1..MaxCandidates)
  /\ result \in Result \cup {None}

Init ==
  /\ call \in Call
  /\ pc = "check"
  /\ i = 1
  /\ attempts = << >>
  /\ from = None
  /\ trigger = None
  /\ visible = FALSE
  /\ emitted = {}
  /\ result = None

-----------------------------------------------------------------------------
(* Readiness: the runtime check and the pre-inference gates *)

\* A required gate blocks when it failed, and when nothing could evaluate it
\* and it is of no known class or about the device's state.
Blocks(g) ==
  /\ g.required
  /\ \/ g.status = "failed"
     \/ (g.status = "unknown" /\ g.kind # "classified")

Blocked(gates) == \E g \in gates : Blocks(g)

Failed(stage) == [index |-> i, status |-> "failed", stage |-> stage]
Selected == [index |-> i, status |-> "selected", stage |-> "inference"]

Record(attempt) == attempts' = Append(attempts, attempt)

About(stage, gate) == [of |-> i, stage |-> stage, gate |-> gate]

\* Mutant: the last failure is kept.
NoteFailureLast(t) == from' = i /\ trigger' = t

\* The first failure is the one a later success falls back from.
NoteFailure(t) ==
  IF trigger = None THEN from' = i /\ trigger' = t ELSE UNCHANGED <<from, trigger>>

Return(r) ==
  /\ pc' = "returned"
  /\ result' = r

\* No selection, and so no fallback; t is the trigger returned with it.
NothingBut(t) ==
  [selected |-> None, fallbackUsed |-> FALSE, from |-> None, to |-> None,
   trigger |-> t]

Nothing == NothingBut(None)

\* On to the next candidate, or out of the loop.
Advance(go) ==
  /\ IF go THEN i' = i + 1 /\ pc' = "check"
           ELSE i' = i /\ pc' = "after"
  /\ UNCHANGED result

\* Mutant: the loop runs one candidate past the last.
NotReadyPast(available, gates) ==
  /\ pc = "check"
  /\ i <= call.count + 1
  /\ ~available \/ Blocked(gates)
  /\ LET stage == IF available THEN "gate" ELSE "prepare"
     IN Record(Failed(stage)) /\ NoteFailure(About(stage, call.method = "run"))
  /\ Advance(call.fallbackAllowed)
  /\ UNCHANGED <<call, visible, emitted>>

NotReady(available, gates) ==
  /\ pc = "check"
  /\ i <= call.count
  /\ ~available \/ Blocked(gates)
  /\ LET stage == IF available THEN "gate" ELSE "prepare"
     IN Record(Failed(stage)) /\ NoteFailure(About(stage, call.method = "run"))
  /\ Advance(call.fallbackAllowed)
  /\ UNCHANGED <<call, visible, emitted>>

\* The result of a candidate that succeeds.
Success ==
  [selected |-> i, fallbackUsed |-> trigger # None, from |-> from,
   to |-> IF trigger # None THEN i ELSE None, trigger |-> trigger]

Ready(gates) ==
  /\ pc = "check"
  /\ i <= call.count
  /\ ~Blocked(gates)
  /\ IF call.method = "run"
     THEN Record(Selected) /\ Return(Success)
     ELSE pc' = "executing" /\ UNCHANGED <<attempts, result>>
  /\ UNCHANGED <<call, i, from, trigger, visible, emitted>>

\* The loop ran out of candidates, or broke out.
GiveUp ==
  /\ pc = "after" \/ (pc = "check" /\ i > call.count)
  /\ Return(Nothing)
  /\ UNCHANGED <<call, i, attempts, from, trigger, visible, emitted>>

-----------------------------------------------------------------------------
(* Inference *)

\* executeCandidate hands output to the caller.  Only a streaming call does
\* so before it returns.
Emit ==
  /\ pc = "executing"
  /\ call.streaming
  /\ visible' = TRUE
  /\ emitted' = emitted \cup {i}
  /\ UNCHANGED <<call, pc, i, attempts, from, trigger, result>>

\* Mutant: output the caller has seen is no obstacle.
FallbackWheneverAllowed == call.fallbackAllowed

ShouldFallbackAfterInferenceError ==
  call.fallbackAllowed /\ ~(call.streaming /\ visible)

\* Mutant: the last candidate is never fallen back to.
ThrowsOneEarly ==
  /\ pc = "executing"
  /\ Record(Failed("inference"))
  /\ NoteFailure(About("inference", FALSE))
  /\ Advance(i + 1 < call.count /\ ShouldFallbackAfterInferenceError)
  /\ UNCHANGED <<call, visible, emitted>>

\* executeCandidate, or an evaluator of its output, throws.
Throws ==
  /\ pc = "executing"
  /\ Record(Failed("inference"))
  /\ NoteFailure(About("inference", FALSE))
  /\ Advance(i < call.count /\ ShouldFallbackAfterInferenceError)
  /\ UNCHANGED <<call, visible, emitted>>

\* No selection, and yet a trigger: that of this failure, not of the first.
Rejected == NothingBut(About("output_quality", TRUE))

\* Mutant: a rejected output falls back even where fallback is forbidden.
OutputRejectedMovesOn ==
  /\ pc = "executing"
  /\ Record(Failed("output_quality"))
  /\ IF visible
     THEN Return(Rejected) /\ UNCHANGED <<i, from, trigger>>
     ELSE /\ NoteFailure(About("output_quality", TRUE))
          /\ IF i < call.count
             THEN Advance(TRUE)
             ELSE Return(Rejected) /\ UNCHANGED i
  /\ UNCHANGED <<call, visible, emitted>>

\* A required gate on the output failed.
OutputRejected ==
  /\ pc = "executing"
  /\ Record(Failed("output_quality"))
  /\ IF visible
     THEN Return(Rejected) /\ UNCHANGED <<i, from, trigger>>
     ELSE /\ NoteFailure(About("output_quality", TRUE))
          /\ IF call.fallbackAllowed /\ i < call.count
             THEN Advance(TRUE)
             ELSE Return(Rejected) /\ UNCHANGED i
  /\ UNCHANGED <<call, visible, emitted>>

OutputAccepted ==
  /\ pc = "executing"
  /\ Record(Selected)
  /\ Return(Success)
  /\ UNCHANGED <<call, i, from, trigger, visible, emitted>>

-----------------------------------------------------------------------------
Step ==
  \/ \E available \in BOOLEAN, gates \in GateSets : NotReady(available, gates)
  \/ \E gates \in GateSets : Ready(gates)
  \/ GiveUp
  \/ Throws \/ OutputRejected \/ OutputAccepted

Next == Step \/ Emit

Spec == Init /\ [][Next]_vars

-----------------------------------------------------------------------------
(* getLastResult: the same facts, rebuilt from the attempt log *)

First(P) == CHOOSE k \in P : \A m \in P : k <= m

LastResult ==
  LET chosen == {k \in DOMAIN attempts : attempts[k].status = "selected"}
      failed == {k \in DOMAIN attempts : attempts[k].status = "failed"}
  IN IF chosen = {} THEN Nothing
     ELSE LET s == attempts[First(chosen)].index
              f == attempts[First(failed)]
              used == failed # {} /\ f.index < s
          IN [selected |-> s, fallbackUsed |-> used,
              from |-> IF used THEN f.index ELSE None,
              to |-> IF used THEN s ELSE None,
              trigger |-> IF used THEN [of |-> f.index, stage |-> f.stage, gate |-> FALSE]
                          ELSE None]

-----------------------------------------------------------------------------
(* Properties *)

\* One stream never carries the output of two models: once a candidate's
\* output reached the caller, no other candidate's ever does, whatever fails
\* afterwards (the comment on shouldFallbackAfterInferenceError).
NoSplice == \A m, n \in emitted : m = n

\* A call that may not fall back touches one candidate only: no failure, of
\* any stage, lets a second one be checked or executed.
RestrictedTriesOne ==
  ~call.fallbackAllowed =>
     /\ Len(attempts) <= 1
     /\ pc = "executing" => attempts = << >>

LastRejection ==
  LET n == Len(attempts)
  IN IF n > 0 /\ attempts[n].stage = "output_quality"
     THEN [of |-> attempts[n].index, stage |-> "output_quality", gate |-> TRUE]
     ELSE None

WithoutGateFacts(t) == IF t = None THEN None ELSE [t EXCEPT !.gate = FALSE]

\* How far the route metadata that toRouteMetadataFields rebuilds from the log
\* agrees with what the call returned.  When something was selected: on the
\* candidate, on whether it was a fallback, from and to where, and on the
\* failure that triggered it, less the gate's facts, which the log does not
\* keep.  When nothing was: on all but the trigger, which the rebuilt metadata
\* lacks and the call returns, exactly when the attempt it ended with had its
\* output rejected; and then it is that attempt's, whichever failed first.
MetadataAgrees ==
  pc = "returned" =>
    IF result.selected # None
    THEN LastResult = [result EXCEPT !.trigger = WithoutGateFacts(result.trigger)]
    ELSE LastResult = Nothing /\ result = NothingBut(LastRejection)

\* A call returns without a selection only when nothing was left to try: every
\* candidate has a failed attempt, or fallback was forbidden, or the caller had
\* already seen output.
GivesUpOnlyWhenExhausted ==
  pc = "returned" /\ result.selected = None =>
     \/ visible
     \/ (~call.fallbackAllowed /\ Len(attempts) >= 1)
     \/ \A n \in 1..call.count : \E k \in DOMAIN attempts :
          attempts[k].index = n /\ attempts[k].status = "failed"
=============================================================================
