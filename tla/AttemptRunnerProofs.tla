------------------------- MODULE AttemptRunnerProofs -------------------------
(***************************************************************************)
(* Proofs about AttemptRunner, for plans of every length and every set of  *)
(* gates: no spliced streams, no second candidate for a call that may not  *)
(* fall back, and route metadata that agrees with what the call returned.  *)
(***************************************************************************)
EXTENDS AttemptRunner, TLAPS, SequenceTheorems

\* The first n entries of the log are the failures of candidates 1..n.
AllFailed(n) ==
  \A k \in 1..n : attempts[k].index = k /\ attempts[k].status = "failed"

\* What is kept of the first failure, once n candidates have failed.
FromFirst(n) ==
  IF n = 0 THEN from = None /\ trigger = None
  ELSE /\ from = 1
       /\ \E g \in BOOLEAN : trigger = [of |-> 1, stage |-> attempts[1].stage, gate |-> g]

\* Before the loop ends, the log holds one failure per candidate left behind.
InLoop ==
  pc \in {"check", "executing"} =>
    /\ Len(attempts) = i - 1
    /\ i <= call.count + 1
    /\ AllFailed(i - 1)
    /\ FromFirst(i - 1)
    /\ ~call.fallbackAllowed => i = 1
    /\ pc = "check" => emitted = {}
    /\ pc = "executing" => i <= call.count
    /\ i = call.count + 1 /\ i > 1 => attempts[i - 1].stage # "output_quality"

\* The loop was left by a break.
BrokeOut ==
  pc = "after" =>
    /\ Len(attempts) = i
    /\ i <= call.count
    /\ AllFailed(i)
    /\ i = call.count \/ visible \/ ~call.fallbackAllowed
    /\ ~call.fallbackAllowed => i = 1
    /\ attempts[i].stage # "output_quality"

\* A call that returned nothing.
Empty ==
  /\ result = NothingBut(LastRejection)
  /\ AllFailed(Len(attempts))
  /\ \/ visible
     \/ (~call.fallbackAllowed /\ Len(attempts) = 1)
     \/ Len(attempts) >= call.count
  /\ ~call.fallbackAllowed => Len(attempts) <= 1

\* A call that selected the last candidate of its log.
Chosen ==
  LET n == Len(attempts)
  IN /\ n >= 1
     /\ AllFailed(n - 1)
     /\ attempts[n].index = n
     /\ attempts[n].status = "selected"
     /\ result = [selected |-> n, fallbackUsed |-> n > 1,
                  from |-> IF n > 1 THEN 1 ELSE None,
                  to |-> IF n > 1 THEN n ELSE None, trigger |-> trigger]
     /\ FromFirst(n - 1)
     /\ n <= MaxCandidates
     /\ ~call.fallbackAllowed => n = 1

RunnerInv ==
  /\ TypeOK
  /\ InLoop
  /\ BrokeOut
  /\ pc = "returned" => Empty \/ Chosen
  /\ emitted \subseteq {i}
  /\ visible <=> emitted # {}
  /\ visible => call.streaming

LEMMA AppendAttempt ==
  ASSUME attempts \in Seq(Attempt), NEW a \in Attempt, Record(a)
  PROVE  /\ attempts' \in Seq(Attempt)
         /\ Len(attempts) \in Nat
         /\ Len(attempts') = Len(attempts) + 1
         /\ attempts'[Len(attempts) + 1] = a
         /\ \A k \in 1..Len(attempts) : attempts'[k] = attempts[k]
  BY AppendProperties, LenProperties DEF Record

\* A trigger that was noted is one.
LEMMA TriggerIsOne ==
  ASSUME TypeOK, NEW n \in Nat, n > 0, n <= Len(attempts), FromFirst(n)
  PROVE  trigger # None
  <1>1. attempts[1] \in Attempt  BY ElementOfSeq, LenProperties DEF TypeOK
  <1>2. PICK g \in BOOLEAN : trigger = [of |-> 1, stage |-> attempts[1].stage, gate |-> g]
    BY DEF FromFirst
  <1>3. 1 \in 1..MaxCandidates
    <2>1. attempts[1].index \in 1..MaxCandidates  BY <1>1 DEF Attempt
    <2>2. QED  BY <2>1, RunnerAssumption
  <1>4. attempts[1].stage \in {"prepare", "gate", "inference", "output_quality"}
    BY <1>1 DEF Attempt
  <1>5. trigger \in Trigger  BY <1>2, <1>3, <1>4 DEF Trigger
  <1>6. QED  BY <1>5, RunnerAssumption

LEMMA RunnerInit == Init => RunnerInv
  <1> SUFFICES ASSUME Init PROVE RunnerInv  OBVIOUS
  <1>1. Len(attempts) = 0 /\ attempts \in Seq(Attempt)
    BY EmptySeq DEF Init
  <1>2. call.count \in Nat  BY RunnerAssumption DEF Init, Call
  <1>3. 1 \in 1..(MaxCandidates + 1)  BY RunnerAssumption
  <1>3a. TypeOK  BY <1>1, <1>3 DEF Init, TypeOK
  <1>4. InLoop /\ BrokeOut
    BY <1>1, <1>2 DEF Init, InLoop, BrokeOut, AllFailed, FromFirst
  <1>5. QED  BY <1>3a, <1>4 DEF Init, RunnerInv

LEMMA RunnerStep == RunnerInv /\ [Next]_vars => RunnerInv'
  <1> SUFFICES ASSUME RunnerInv, [Next]_vars PROVE RunnerInv'  OBVIOUS
  <1>t. /\ call \in Call /\ i \in Nat /\ i >= 1 /\ attempts \in Seq(Attempt)
        /\ call.count \in Nat /\ call.count <= MaxCandidates
        /\ MaxCandidates \in Nat
        /\ call.fallbackAllowed \in BOOLEAN /\ call.streaming \in BOOLEAN
        /\ Len(attempts) \in Nat /\ None \notin Nat
    BY RunnerAssumption, LenProperties DEF RunnerInv, TypeOK, Call
  <1>f. ASSUME pc \in {"check", "executing"}, i <= call.count,
               NEW stage \in {"prepare", "gate", "inference", "output_quality"},
               Record(Failed(stage))
        PROVE  /\ attempts' \in Seq(Attempt)
               /\ Len(attempts') = i
               /\ \A k \in 1..i : attempts'[k].index = k /\ attempts'[k].status = "failed"
               /\ attempts'[i].stage = stage
               /\ \A k \in 1..(i - 1) : attempts'[k] = attempts[k]
    <2>1. Failed(stage) \in Attempt  BY <1>t, <1>f DEF Failed, Attempt
    <2>2. Len(attempts) = i - 1 /\ AllFailed(i - 1)
      BY <1>f DEF RunnerInv, InLoop
    <2>3. /\ attempts' \in Seq(Attempt) /\ Len(attempts') = i
          /\ attempts'[i] = Failed(stage)
          /\ \A k \in 1..(i - 1) : attempts'[k] = attempts[k]
      BY <1>t, <1>f, <2>1, <2>2, AppendAttempt
    <2>4. QED  BY <1>t, <2>2, <2>3 DEF AllFailed, Failed
  <1>s. ASSUME pc \in {"check", "executing"}, i <= call.count,
               Record(Selected), Return(Success), UNCHANGED <<call, from, trigger>>
        PROVE  attempts' \in Seq(Attempt) /\ Chosen' /\ result' \in Result
    <2>1. Selected \in Attempt  BY <1>t, <1>s DEF Selected, Attempt
    <2>2. Len(attempts) = i - 1 /\ AllFailed(i - 1) /\ FromFirst(i - 1)
          /\ (~call.fallbackAllowed => i = 1)
      BY <1>s DEF RunnerInv, InLoop
    <2>3. /\ attempts' \in Seq(Attempt) /\ Len(attempts') = i
          /\ attempts'[i] = Selected
          /\ \A k \in 1..(i - 1) : attempts'[k] = attempts[k]
      BY <1>t, <1>s, <2>1, <2>2, AppendAttempt
    <2>4. result' = [selected |-> i, fallbackUsed |-> i > 1,
                     from |-> IF i > 1 THEN 1 ELSE None,
                     to |-> IF i > 1 THEN i ELSE None, trigger |-> trigger]
      <3>1. from = IF i > 1 THEN 1 ELSE None
        BY <1>t, <2>2 DEF FromFirst
      <3>2. (trigger # None) = (i > 1)
        <4>1. CASE i = 1  BY <4>1, <2>2 DEF FromFirst
        <4>2. CASE i > 1  BY <1>t, <4>2, <2>2, TriggerIsOne DEF RunnerInv
        <4>3. QED  BY <1>t, <4>1, <4>2
      <3>3. QED  BY <1>s, <3>1, <3>2 DEF Return, Success
    <2>5. \A k \in 1..(i - 1) : attempts'[k].index = k /\ attempts'[k].status = "failed"
      BY <2>2, <2>3 DEF AllFailed
    <2>6. attempts'[i].index = i /\ attempts'[i].status = "selected"
      BY <2>3 DEF Selected
    <2>6a. IF i - 1 = 0 THEN from' = None /\ trigger' = None
           ELSE /\ from' = 1
                /\ \E g \in BOOLEAN :
                     trigger' = [of |-> 1, stage |-> attempts'[1].stage, gate |-> g]
      <3>1. i > 1 => attempts'[1] = attempts[1]  BY <1>t, <2>3
      <3>2. QED  BY <1>s, <1>t, <3>1, <2>2 DEF FromFirst
    <2>7. Chosen'
      BY <1>t, <1>s, <2>2, <2>3, <2>4, <2>5, <2>6, <2>6a
        DEF Chosen, AllFailed, FromFirst
    <2>8. i \in 1..MaxCandidates /\ 1 \in 1..MaxCandidates  BY <1>t, <1>s
    <2>9. result' \in Result
      BY <1>t, <2>4, <2>8 DEF Result, RunnerInv, TypeOK
    <2>10. QED  BY <2>3, <2>7, <2>9
  <1>n. ASSUME pc \in {"check", "executing"}, i <= call.count,
               NEW stage \in {"prepare", "gate", "inference", "output_quality"},
               NEW gate \in BOOLEAN,
               Record(Failed(stage)), NoteFailure(About(stage, gate))
        PROVE  /\ from' = 1 /\ trigger' \in Trigger
               /\ \E g \in BOOLEAN :
                    trigger' = [of |-> 1, stage |-> attempts'[1].stage, gate |-> g]
    <2>1. Len(attempts) = i - 1 /\ FromFirst(i - 1)  BY <1>n DEF RunnerInv, InLoop
    <2>2. attempts'[i].stage = stage /\ \A k \in 1..(i - 1) : attempts'[k] = attempts[k]
      BY <1>n, <1>f
    <2>3. 1 \in 1..MaxCandidates  BY <1>t, <1>n
    <2>4. CASE i = 1
      <3>1. trigger = None  BY <2>1, <2>4 DEF FromFirst
      <3>2. from' = 1 /\ trigger' = [of |-> 1, stage |-> stage, gate |-> gate]
        BY <1>n, <2>4, <3>1 DEF NoteFailure, About
      <3>3. QED  BY <2>2, <2>3, <2>4, <3>2 DEF Trigger
    <2>5. CASE i > 1
      <3>1. from = 1 /\ \E g \in BOOLEAN :
               trigger = [of |-> 1, stage |-> attempts[1].stage, gate |-> g]
        BY <1>t, <2>1, <2>5 DEF FromFirst
      <3>2. trigger # None  BY <1>t, <2>1, <2>5, TriggerIsOne DEF RunnerInv
      <3>3. UNCHANGED <<from, trigger>>  BY <1>n, <3>2 DEF NoteFailure
      <3>4. trigger \in Trigger  BY <3>2 DEF RunnerInv, TypeOK
      <3>5. attempts'[1] = attempts[1]  BY <1>t, <2>2, <2>5
      <3>6. QED  BY <3>1, <3>3, <3>4, <3>5
    <2>6. QED  BY <1>t, <2>4, <2>5
  <1>0. Nothing \in Result  BY DEF Nothing, NothingBut, Result
  <1>1. ASSUME NEW available \in BOOLEAN, NEW gates \in GateSets,
               NotReady(available, gates)
        PROVE  RunnerInv'
    <2>0. PICK stage \in {"prepare", "gate"} :
            Record(Failed(stage)) /\ NoteFailure(About(stage, call.method = "run"))
      BY <1>1 DEF NotReady
    <2>1. pc = "check" /\ i <= call.count  BY <1>1 DEF NotReady
    <2>2. /\ attempts' \in Seq(Attempt) /\ Len(attempts') = i
          /\ \A k \in 1..i : attempts'[k].index = k /\ attempts'[k].status = "failed"
          /\ attempts'[i].stage # "output_quality"
      BY <1>f, <2>0, <2>1
    <2>3. /\ from' = 1 /\ trigger' \in Trigger
          /\ \E g \in BOOLEAN : trigger' = [of |-> 1, stage |-> attempts'[1].stage, gate |-> g]
      <3>1. (call.method = "run") \in BOOLEAN  OBVIOUS
      <3>2. QED  BY <1>n, <2>0, <2>1, <3>1
    <2>4. pc = "check" /\ i <= call.count /\ UNCHANGED <<call, visible, emitted, result>>
          /\ emitted = {}
      BY <1>1 DEF NotReady, Advance, RunnerInv, InLoop
    <2>5. CASE call.fallbackAllowed
      <3>1. i' = i + 1 /\ pc' = "check"  BY <1>1, <2>5 DEF NotReady, Advance
      <3>2. TypeOK'  BY <1>t, <2>2, <2>3, <2>4, <3>1 DEF RunnerInv, TypeOK
      <3>3. InLoop'
        BY <1>t, <2>2, <2>3, <2>4, <2>5, <3>1 DEF InLoop, AllFailed, FromFirst
      <3>4. QED
        BY <2>4, <3>1, <3>2, <3>3 DEF RunnerInv, BrokeOut
    <2>6. CASE ~call.fallbackAllowed
      <3>1. i' = i /\ pc' = "after"  BY <1>1, <2>6 DEF NotReady, Advance
      <3>2. i = 1  BY <2>4, <2>6 DEF RunnerInv, InLoop
      <3>3. TypeOK'  BY <1>t, <2>2, <2>3, <2>4, <3>1 DEF RunnerInv, TypeOK
      <3>4. BrokeOut'
        BY <1>t, <2>2, <2>4, <2>6, <3>1, <3>2 DEF BrokeOut, AllFailed
      <3>5. QED  BY <2>4, <3>1, <3>3, <3>4 DEF RunnerInv, InLoop
    <2>7. QED  BY <2>5, <2>6
  <1>2. ASSUME NEW gates \in GateSets, Ready(gates)
        PROVE  RunnerInv'
    <2>0. pc = "check" /\ i <= call.count /\ UNCHANGED <<call, i, from, trigger, visible, emitted>>
      BY <1>2 DEF Ready
    <2>1. CASE call.method = "run"
      <3>1. Record(Selected) /\ Return(Success)  BY <1>2, <2>1 DEF Ready
      <3>2. attempts' \in Seq(Attempt) /\ Chosen' /\ result' \in Result
        BY <2>0, <3>1, <1>s
      <3>3. pc' = "returned"  BY <3>1 DEF Return
      <3>4. TypeOK'  BY <2>0, <3>2, <3>3 DEF RunnerInv, TypeOK
      <3>5. QED  BY <2>0, <3>2, <3>3, <3>4 DEF RunnerInv, InLoop, BrokeOut
    <2>2. CASE call.method # "run"
      <3>1. pc' = "executing" /\ UNCHANGED <<attempts, result>>
        BY <1>2, <2>2 DEF Ready
      <3>2. TypeOK'  BY <2>0, <3>1 DEF RunnerInv, TypeOK
      <3>3. InLoop'
        BY <2>0, <3>1 DEF RunnerInv, InLoop, AllFailed, FromFirst
      <3>4. QED  BY <2>0, <3>1, <3>2, <3>3 DEF RunnerInv, BrokeOut
    <2>3. QED  BY <2>1, <2>2
  <1>3. CASE GiveUp
    <2>1. /\ pc' = "returned" /\ result' = Nothing
          /\ UNCHANGED <<call, i, attempts, from, trigger, visible, emitted>>
      BY <1>3 DEF GiveUp, Return
    <2>2. TypeOK'  BY <1>0, <2>1 DEF RunnerInv, TypeOK
    <2>3. /\ AllFailed(Len(attempts)) /\ LastRejection = None
          /\ visible \/ (~call.fallbackAllowed /\ Len(attempts) = 1)
               \/ Len(attempts) >= call.count
          /\ ~call.fallbackAllowed => Len(attempts) <= 1
      <3>1. CASE pc = "after"
        BY <1>t, <3>1 DEF RunnerInv, BrokeOut, LastRejection
      <3>2. CASE pc = "check" /\ i > call.count
        BY <1>t, <3>2 DEF RunnerInv, InLoop, LastRejection
      <3>3. QED  BY <1>3, <3>1, <3>2 DEF GiveUp
    <2>4. Empty'
      <3>1. LastRejection' = None  BY <2>1, <2>3 DEF LastRejection
      <3>2. result' = NothingBut(LastRejection)'  BY <2>1, <3>1 DEF Nothing, NothingBut
      <3>3. QED  BY <2>1, <2>3, <3>2 DEF Empty, AllFailed
    <2>5. QED  BY <2>1, <2>2, <2>4 DEF RunnerInv, InLoop, BrokeOut
  <1>4. CASE Emit
    <2>1. pc = "executing" /\ call.streaming /\ visible' = TRUE
          /\ emitted' = emitted \cup {i}
          /\ UNCHANGED <<call, pc, i, attempts, from, trigger, result>>
      BY <1>4 DEF Emit
    <2>2. i <= call.count  BY <2>1 DEF RunnerInv, InLoop
    <2>3. TypeOK'  BY <1>t, <2>1, <2>2 DEF RunnerInv, TypeOK
    <2>4. InLoop'  BY <2>1 DEF RunnerInv, InLoop, AllFailed, FromFirst
    <2>5. QED  BY <2>1, <2>3, <2>4 DEF RunnerInv, BrokeOut
  <1>5. CASE Throws
    <2>0. pc = "executing" /\ i <= call.count /\ UNCHANGED <<call, visible, emitted, result>>
      BY <1>5 DEF Throws, Advance, RunnerInv, InLoop
    <2>1. /\ attempts' \in Seq(Attempt) /\ Len(attempts') = i
          /\ \A k \in 1..i : attempts'[k].index = k /\ attempts'[k].status = "failed"
          /\ attempts'[i].stage # "output_quality"
      BY <1>5, <1>f, <2>0 DEF Throws
    <2>2. /\ from' = 1 /\ trigger' \in Trigger
          /\ \E g \in BOOLEAN : trigger' = [of |-> 1, stage |-> attempts'[1].stage, gate |-> g]
      BY <1>5, <1>n, <2>0 DEF Throws
    <2>3. CASE i < call.count /\ ShouldFallbackAfterInferenceError
      <3>1. i' = i + 1 /\ pc' = "check"  BY <1>5, <2>3 DEF Throws, Advance
      <3>2. emitted = {} /\ call.fallbackAllowed
        BY <2>3 DEF ShouldFallbackAfterInferenceError, RunnerInv
      <3>3. TypeOK'  BY <1>t, <2>0, <2>1, <2>2, <3>1 DEF RunnerInv, TypeOK
      <3>4. InLoop'
        BY <1>t, <2>0, <2>1, <2>2, <3>1, <3>2 DEF InLoop, AllFailed, FromFirst
      <3>5. QED
        BY <2>0, <3>1, <3>2, <3>3, <3>4 DEF RunnerInv, BrokeOut
    <2>4. CASE ~(i < call.count /\ ShouldFallbackAfterInferenceError)
      <3>1. i' = i /\ pc' = "after"  BY <1>5, <2>4 DEF Throws, Advance
      <3>2. i = call.count \/ visible \/ ~call.fallbackAllowed
        BY <1>t, <2>0, <2>4 DEF ShouldFallbackAfterInferenceError
      <3>3. ~call.fallbackAllowed => i = 1  BY <2>0 DEF RunnerInv, InLoop
      <3>4. TypeOK'  BY <1>t, <2>0, <2>1, <2>2, <3>1 DEF RunnerInv, TypeOK
      <3>5. BrokeOut'
        BY <2>0, <2>1, <3>1, <3>2, <3>3 DEF BrokeOut, AllFailed
      <3>6. QED  BY <2>0, <3>1, <3>4, <3>5 DEF RunnerInv, InLoop
    <2>5. QED  BY <2>3, <2>4
  <1>6. CASE OutputRejected
    <2>0. pc = "executing" /\ i <= call.count /\ UNCHANGED <<call, visible, emitted>>
          /\ (~call.fallbackAllowed => i = 1)
      BY <1>6 DEF OutputRejected, RunnerInv, InLoop
    <2>1. /\ attempts' \in Seq(Attempt) /\ Len(attempts') = i
          /\ \A k \in 1..i : attempts'[k].index = k /\ attempts'[k].status = "failed"
          /\ attempts'[i].stage = "output_quality"
      BY <1>6, <1>f, <2>0 DEF OutputRejected
    <2>1a. ASSUME ~visible
           PROVE  /\ from' = 1 /\ trigger' \in Trigger
                  /\ \E g \in BOOLEAN :
                       trigger' = [of |-> 1, stage |-> attempts'[1].stage, gate |-> g]
      BY <1>6, <1>n, <2>0, <2>1a DEF OutputRejected
    <2>2. CASE ~visible /\ call.fallbackAllowed /\ i < call.count
      <3>1. i' = i + 1 /\ pc' = "check" /\ result' = result
        BY <1>6, <2>0, <2>2 DEF OutputRejected, Advance
      <3>2. emitted = {}  BY <2>2 DEF RunnerInv
      <3>3. TypeOK'  BY <1>t, <2>0, <2>1, <2>1a, <2>2, <3>1 DEF RunnerInv, TypeOK
      <3>4. InLoop'
        BY <1>t, <2>0, <2>1, <2>1a, <2>2, <3>1, <3>2 DEF InLoop, AllFailed, FromFirst
      <3>5. QED  BY <2>0, <3>1, <3>2, <3>3, <3>4 DEF RunnerInv, BrokeOut
    <2>3. CASE ~(~visible /\ call.fallbackAllowed /\ i < call.count)
      <3>1. i' = i /\ pc' = "returned" /\ result' = Rejected
        BY <1>6, <2>0, <2>3 DEF OutputRejected, Return
      <3>1a. UNCHANGED <<from, trigger>> \/ (from' = 1 /\ trigger' \in Trigger)
        BY <1>6, <2>1a DEF OutputRejected
      <3>1b. About("output_quality", TRUE) \in Trigger  BY <1>t, <2>0 DEF About, Trigger
      <3>1c. Rejected \in Result  BY <3>1b DEF Rejected, NothingBut, Result
      <3>1d. 1 \in 1..MaxCandidates  BY <1>t, <2>0
      <3>2. TypeOK'
        BY <1>t, <2>0, <2>1, <3>1, <3>1a, <3>1c, <3>1d DEF RunnerInv, TypeOK
      <3>3. result' = NothingBut(LastRejection)'
        <4>1. attempts'[i].index = i  BY <1>t, <2>1
        <4>2. LastRejection' = About("output_quality", TRUE)
          BY <1>t, <2>1, <4>1 DEF LastRejection, About
        <4>3. QED  BY <3>1, <4>2 DEF Rejected, NothingBut
      <3>3a. Empty'
        BY <1>t, <2>0, <2>1, <2>3, <3>3 DEF Empty, AllFailed
      <3>4. QED  BY <2>0, <3>1, <3>2, <3>3a DEF RunnerInv, InLoop, BrokeOut
    <2>4. QED  BY <2>2, <2>3
  <1>7. CASE OutputAccepted
    <2>1. pc = "executing" /\ i <= call.count /\ Record(Selected) /\ Return(Success)
          /\ UNCHANGED <<call, i, from, trigger, visible, emitted>>
      BY <1>7 DEF OutputAccepted, RunnerInv, InLoop
    <2>2. attempts' \in Seq(Attempt) /\ Chosen' /\ result' \in Result
      BY <2>1, <1>s
    <2>3. pc' = "returned"  BY <2>1 DEF Return
    <2>4. TypeOK'  BY <2>1, <2>2, <2>3 DEF RunnerInv, TypeOK
    <2>5. QED  BY <2>1, <2>2, <2>3, <2>4 DEF RunnerInv, InLoop, BrokeOut
  <1>8. CASE UNCHANGED vars
    BY <1>8 DEF vars, RunnerInv, TypeOK, InLoop, BrokeOut, Empty, Chosen,
       AllFailed, FromFirst, Nothing, NothingBut, LastRejection
  <1>9. QED
    BY <1>1, <1>2, <1>3, <1>4, <1>5, <1>6, <1>7, <1>8 DEF Next, Step

LEMMA RunnerInvariant == Spec => []RunnerInv
  BY RunnerInit, RunnerStep, PTL DEF Spec

\* The loop's index and its log stay within the plan, whatever its length.
THEOREM RunnerTypeCorrect == Spec => []TypeOK
  <1>1. RunnerInv => TypeOK  BY DEF RunnerInv
  <1>2. QED  BY <1>1, RunnerInvariant, PTL

\* However many candidates a plan has, the caller of one call sees the output
\* of at most one of them.
THEOREM NeverSplices == Spec => []NoSplice
  <1>1. RunnerInv => NoSplice  BY DEF RunnerInv, NoSplice
  <1>2. QED  BY <1>1, RunnerInvariant, PTL

\* A call that may not fall back never reaches a second candidate.
THEOREM RestrictionHolds == Spec => []RestrictedTriesOne
  <1>1. RunnerInv => RestrictedTriesOne
    <2> SUFFICES ASSUME RunnerInv, ~call.fallbackAllowed
                 PROVE  Len(attempts) <= 1 /\ (pc = "executing" => attempts = << >>)
      BY DEF RestrictedTriesOne
    <2>0. attempts \in Seq(Attempt)  BY DEF RunnerInv, TypeOK
    <2>1. CASE pc \in {"check", "executing"}
      <3>1. Len(attempts) = 0  BY <2>1 DEF RunnerInv, InLoop
      <3>2. QED  BY <2>0, <3>1, EmptySeq
    <2>2. CASE pc = "after"  BY <2>2 DEF RunnerInv, BrokeOut
    <2>3. CASE pc = "returned"  BY <2>3 DEF RunnerInv, Empty, Chosen
    <2>4. QED  BY <2>1, <2>2, <2>3 DEF RunnerInv, TypeOK
  <1>2. QED  BY <1>1, RunnerInvariant, PTL

\* What getLastResult rebuilds from the log is what the call returned, but for
\* the gate's facts of the trigger and for the trigger of a call without a
\* selection, which is the rejection it ended with.
THEOREM MetadataIsResult == Spec => []MetadataAgrees
  <1>1. RunnerInv => MetadataAgrees
    <2> SUFFICES ASSUME RunnerInv, pc = "returned" PROVE MetadataAgrees
      BY DEF MetadataAgrees
    <2> DEFINE n == Len(attempts)
               chosen == {k \in DOMAIN attempts : attempts[k].status = "selected"}
               failed == {k \in DOMAIN attempts : attempts[k].status = "failed"}
    <2>0. n \in Nat /\ DOMAIN attempts = 1..n /\ None \notin Nat
      BY LenProperties, RunnerAssumption DEF RunnerInv, TypeOK
    <2>1. CASE Empty
      <3>1. chosen = {}  BY <2>0, <2>1 DEF Empty, AllFailed
      <3>2. LastResult = Nothing  BY <3>1 DEF LastResult
      <3>3. result.selected = None  BY <2>1 DEF Empty, NothingBut
      <3>4. QED  BY <2>1, <3>2, <3>3 DEF Empty, MetadataAgrees
    <2>2. CASE Chosen
      <3>1. chosen = {n}  BY <2>0, <2>2 DEF Chosen, AllFailed
      <3>2. failed = 1..(n - 1)  BY <2>0, <2>2 DEF Chosen, AllFailed
      <3>3. First(chosen) = n  BY <2>0, <3>1 DEF First
      <3>4. attempts[First(chosen)].index = n  BY <2>2, <3>3 DEF Chosen
      <3>5. n >= 1 /\ FromFirst(n - 1)  BY <2>2 DEF Chosen
      <3>6. LastResult =
              [selected |-> n, fallbackUsed |-> n > 1,
               from |-> IF n > 1 THEN 1 ELSE None,
               to |-> IF n > 1 THEN n ELSE None,
               trigger |-> WithoutGateFacts(trigger)]
        <4> DEFINE s == attempts[First(chosen)].index
                   f == attempts[First(failed)]
                   used == failed # {} /\ f.index < s
        <4>1. LastResult = [selected |-> s, fallbackUsed |-> used,
                            from |-> IF used THEN f.index ELSE None,
                            to |-> IF used THEN s ELSE None,
                            trigger |-> IF used THEN [of |-> f.index, stage |-> f.stage,
                                                      gate |-> FALSE]
                                        ELSE None]
          BY <3>1 DEF LastResult
        <4>2. s = n  BY <3>4
        <4>3. CASE n = 1
          <5>1. used = FALSE /\ ~used  BY <3>2, <4>3
          <5>2. (n > 1) = FALSE /\ ~(n > 1)  BY <4>3
          <5>3. trigger = None  BY <3>5, <4>3 DEF FromFirst
          <5>4. WithoutGateFacts(trigger) = None  BY <5>3 DEF WithoutGateFacts
          <5> HIDE DEF s, f, used, n
          <5>5. QED  BY <4>1, <4>2, <5>1, <5>2, <5>4
        <4>4. CASE n > 1
          <5>1. First(failed) = 1
            <6>1. 1 \in failed /\ \A m \in failed : 1 <= m  BY <2>0, <3>2, <4>4
            <6>2. \A k \in failed : (\A m \in failed : k <= m) => k = 1
              BY <2>0, <3>2, <6>1
            <6>3. QED  BY <6>1, <6>2 DEF First
          <5>2. f.index = 1  BY <2>0, <2>2, <4>4, <5>1 DEF Chosen, AllFailed
          <5>3. used = TRUE /\ used
            <6>1. failed # {}  BY <2>0, <3>2, <4>4
            <6>2. f.index < s  BY <4>2, <4>4, <5>2
            <6>3. QED  BY <6>1, <6>2
          <5>4. (n > 1) = TRUE /\ n > 1  BY <4>4
          <5>5. PICK g \in BOOLEAN : trigger = [of |-> 1, stage |-> f.stage, gate |-> g]
            <6>1. f = attempts[1]  BY <5>1
            <6>2. n - 1 # 0  BY <2>0, <4>4
            <6> HIDE DEF n, f
            <6>3. QED  BY <3>5, <6>1, <6>2 DEF FromFirst
          <5>6. trigger # None
            <6>1. n - 1 \in Nat /\ n - 1 > 0 /\ n - 1 <= Len(attempts)  BY <2>0, <4>4
            <6>2. QED  BY <3>5, <6>1, TriggerIsOne DEF RunnerInv
          <5>7. WithoutGateFacts(trigger) = [of |-> 1, stage |-> f.stage, gate |-> FALSE]
            BY <5>5, <5>6 DEF WithoutGateFacts
          <5> HIDE DEF s, f, used, n
          <5>8. QED  BY <4>1, <4>2, <5>2, <5>3, <5>4, <5>7
        <4>5. QED  BY <2>0, <3>5, <4>3, <4>4
      <3>7. result = [selected |-> n, fallbackUsed |-> n > 1,
                      from |-> IF n > 1 THEN 1 ELSE None,
                      to |-> IF n > 1 THEN n ELSE None, trigger |-> trigger]
        BY <2>2 DEF Chosen
      <3>8. result.selected # None  BY <2>0, <3>7
      <3>9. [result EXCEPT !.trigger = WithoutGateFacts(result.trigger)] = LastResult
        BY <3>6, <3>7
      <3>10. QED  BY <3>8, <3>9 DEF MetadataAgrees
    <2>3. QED  BY <2>1, <2>2 DEF RunnerInv
  <1>2. QED  BY <1>1, RunnerInvariant, PTL

\* A call that selects nothing has left nothing untried that it was allowed.
THEOREM GivesUpLast == Spec => []GivesUpOnlyWhenExhausted
  <1>1. RunnerInv => GivesUpOnlyWhenExhausted
    <2> SUFFICES ASSUME RunnerInv, pc = "returned", result.selected = None
                 PROVE  \/ visible
                        \/ (~call.fallbackAllowed /\ Len(attempts) >= 1)
                        \/ \A n \in 1..call.count : \E k \in DOMAIN attempts :
                             attempts[k].index = n /\ attempts[k].status = "failed"
      BY DEF GivesUpOnlyWhenExhausted
    <2>0. /\ Len(attempts) \in Nat /\ DOMAIN attempts = 1..Len(attempts)
          /\ None \notin Nat /\ call.count \in Nat
      BY LenProperties, RunnerAssumption DEF RunnerInv, TypeOK, Call
    <2>1. Empty  BY <2>0 DEF RunnerInv, Chosen
    <2>2. ASSUME Len(attempts) >= call.count, NEW n \in 1..call.count
          PROVE  \E k \in DOMAIN attempts :
                   attempts[k].index = n /\ attempts[k].status = "failed"
      BY <2>0, <2>1, <2>2 DEF Empty, AllFailed
    <2>3. QED  BY <2>0, <2>1, <2>2 DEF Empty
  <1>2. QED  BY <1>1, RunnerInvariant, PTL
=============================================================================
