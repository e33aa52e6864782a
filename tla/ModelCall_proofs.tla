-------------------------- MODULE ModelCall_proofs --------------------------
(***************************************************************************)
(* The circuit breaker and the step, for any models, thresholds, retries   *)
(* and steps.                                                              *)
(***************************************************************************)
EXTENDS ModelCall, TLAPS

BreakerType == [state : {"closed", "open", "half_open"}, failures : 0 .. FailureThreshold,
                probes : Nat, due : BOOLEAN]
StepType == [pc : Pc, phase : Phase, attempt : 0 .. MaxRetries,
             at : 0 .. Len(Failovers), from : Models, open : BOOLEAN, outcome : Outcome]

(* A breaker after n answers in a row: its counters agree with its state.   *)
Sound(b, n) ==
  /\ b \in BreakerType /\ n \in Nat
  /\ b.state = "closed" <=> b.failures < FailureThreshold
  /\ b.state = "half_open" => b.probes < SuccessThreshold /\ b.probes <= n

(* What a step that waits, has ended or has thrown looks like.              *)
StepInv ==
  /\ step.pc = "between" => step.outcome \in {"none", "answered", "timeout"}
  /\ InStep => step.outcome = "none"
  /\ step.pc = "compacting" => step.phase = "compacted"
  /\ step.pc = "switching" => step.phase = "failover"
  /\ step.pc = "sleeping" => step.attempt < MaxRetries /\ breaker.state # "open"
  /\ step.pc \in {"calling", "sleeping", "switching"} /\ step.phase = "failover" /\ step.open =>
       breaker.state # "closed"

IInv == TypeOK /\ Sound(breaker, answers) /\ StepInv /\ TimeoutSparesTheRun /\ UnavailableIsTrue

(* The operations of the breaker.                                           *)
LEMMA CurrentSound ==
  ASSUME NEW b, NEW n, Sound(b, n)
  PROVE  /\ Sound(Current(b), n)
         /\ Current(b).state = "closed" <=> b.state = "closed"
<1>1. CASE b.state = "open" /\ b.due
  <2>1. /\ Current(b) \in BreakerType /\ Current(b).state = "half_open"
        /\ Current(b).probes = 0 /\ Current(b).failures = b.failures
    BY <1>1 DEF Sound, Current, BreakerType
  <2> QED BY <1>1, <2>1, ThresholdsAssumption DEF Sound
<1>2. CASE ~ (b.state = "open" /\ b.due)
  BY <1>2 DEF Current
<1> QED BY <1>1, <1>2

LEMMA OnSuccessSound ==
  ASSUME NEW b, NEW n, Sound(b, n)
  PROVE  /\ Sound(OnSuccess(b), n + 1)
         /\ b.state # "closed" /\ OnSuccess(b).state = "closed" => n + 1 >= SuccessThreshold
<1>1. b \in BreakerType /\ n \in Nat /\ n + 1 \in Nat
  BY DEF Sound
<1>2. CASE b.state = "half_open" /\ b.probes + 1 >= SuccessThreshold
  <2>3. OnSuccess(b) = [b EXCEPT !.state = "closed", !.failures = 0, !.probes = 0]
    BY <1>2 DEF OnSuccess
  <2>1. /\ OnSuccess(b) \in BreakerType /\ OnSuccess(b).state = "closed"
        /\ OnSuccess(b).failures = 0
    <3>1. 0 \in 0 .. FailureThreshold /\ 0 \in Nat
      BY ThresholdsAssumption
    <3> QED BY <1>1, <2>3, <3>1, Zenon DEF BreakerType
  <2>2. n + 1 >= SuccessThreshold
    BY <1>1, <1>2, ThresholdsAssumption DEF Sound, BreakerType
  <2> QED BY <1>1, <2>1, <2>2, ThresholdsAssumption DEF Sound
<1>3. CASE b.state = "half_open" /\ ~ (b.probes + 1 >= SuccessThreshold)
  <2>1. /\ OnSuccess(b) \in BreakerType /\ OnSuccess(b).state = "half_open"
        /\ OnSuccess(b).failures = b.failures /\ OnSuccess(b).probes = b.probes + 1
    BY <1>1, <1>3 DEF OnSuccess, BreakerType
  <2> QED BY <1>1, <1>3, <2>1, ThresholdsAssumption DEF Sound, BreakerType
<1>4. CASE b.state = "closed"
  <2>1. /\ OnSuccess(b) \in BreakerType /\ OnSuccess(b).state = "closed"
        /\ OnSuccess(b).failures = 0
    BY <1>1, <1>4, ThresholdsAssumption DEF OnSuccess, BreakerType
  <2> QED BY <1>1, <1>4, <2>1, ThresholdsAssumption DEF Sound
<1>5. CASE b.state = "open"
  <2>1. OnSuccess(b) = b
    BY <1>5 DEF OnSuccess
  <2> QED BY <1>1, <1>5, <2>1 DEF Sound
<1> QED BY <1>1, <1>2, <1>3, <1>4, <1>5 DEF BreakerType

LEMMA OnFailureSound ==
  ASSUME NEW b, NEW n, Sound(b, n)
  PROVE  /\ Sound(OnFailure(b), 0)
         /\ OnFailure(b).state = "closed" => b.state = "closed"
         /\ OnFailure(b).state \in {"closed", "open"}
<1> DEFINE f == IF b.failures < FailureThreshold THEN b.failures + 1 ELSE b.failures
<1>1. b \in BreakerType /\ f \in 0 .. FailureThreshold
  BY ThresholdsAssumption DEF Sound, BreakerType
<1>2. CASE f >= FailureThreshold
  <2>1. /\ OnFailure(b) \in BreakerType /\ OnFailure(b).state = "open"
        /\ OnFailure(b).failures = f
    BY <1>1, <1>2 DEF OnFailure, BreakerType
  <2> QED BY <1>1, <1>2, <2>1, ThresholdsAssumption DEF Sound
<1>3. CASE ~ (f >= FailureThreshold)
  <2>1. b.failures < FailureThreshold /\ b.state = "closed"
    BY <1>1, <1>3, ThresholdsAssumption DEF Sound, BreakerType
  <2>2. /\ OnFailure(b) \in BreakerType /\ OnFailure(b).state = "closed"
        /\ OnFailure(b).failures = f
    BY <1>1, <1>3, <2>1 DEF OnFailure, BreakerType
  <2> QED BY <1>1, <1>3, <2>1, <2>2, ThresholdsAssumption DEF Sound
<1> QED BY <1>2, <1>3

(* Where a rejected call takes the step.                                    *)
LEMMA RejectedFacts ==
  ASSUME TypeOK, StepInv, NEW phase \in Phase, NEW e \in Errors, NEW open \in BOOLEAN,
         InStep, phase = "failover" => step.phase = "failover",
         Rejected(phase, e, open)
  PROVE  /\ step' \in StepType /\ active' \in Models
         /\ step'.pc \in {"between", "over", "switching", "compacting"}
         /\ step'.pc = "between" => step'.outcome = "timeout"
         /\ step'.pc = "over" =>
              /\ step'.outcome \in {"failed", "unavailable", "cancelled"}
              /\ abort = "timeout" => step'.phase \in {"thinking", "compacted"}
              /\ step'.outcome = "unavailable" => open \/ (phase = "failover" /\ step.open)
         /\ step'.pc = "switching" =>
              /\ step'.phase = "failover" /\ step'.outcome = "none"
              /\ step'.open => open \/ (phase = "failover" /\ step.open)
         /\ step'.pc = "compacting" => step'.phase = "compacted" /\ step'.outcome = "none"
<1>1. step \in StepType /\ active \in Models /\ step.outcome = "none"
  BY DEF TypeOK, StepType, StepInv
<1>2. ASSUME NEW o \in {"failed", "unavailable"}, NEW p \in Phase
      PROVE  /\ Throws(p, o) \in StepType /\ Throws(p, o).pc = "over" /\ Throws(p, o).phase = p
             /\ Throws(p, o).outcome = (IF abort = "run" THEN "cancelled" ELSE o)
  BY <1>1 DEF Throws, StepType, Pc, Outcome
<1>3. ASSUME NEW i \in 0 .. Len(Failovers), NEW from \in Models, NEW o \in BOOLEAN,
             TryNext(i, from, o), abort # "timeout"
      PROVE  /\ step' \in StepType /\ active' \in Models
             /\ step'.pc \in {"over", "switching"}
             /\ step'.pc = "over" =>
                  /\ step'.outcome \in {"failed", "unavailable", "cancelled"}
                  /\ step'.outcome = "unavailable" => o
             /\ step'.pc = "switching" =>
                  step'.phase = "failover" /\ step'.outcome = "none" /\ step'.open = o
  <2>1. CASE /\ step' = Throws("failover", IF o THEN "unavailable" ELSE "failed")
             /\ active' = active
    BY <1>1, <1>2, <2>1 DEF Phase
  <2>2. CASE \E j \in Remaining(i, from) :
               /\ step'   = [step EXCEPT !.pc = "switching", !.phase = "failover",
                                         !.at = j, !.from = from, !.open = o]
               /\ active' = Failovers[j]
    <3>1. PICK j \in Remaining(i, from) :
               /\ step'   = [step EXCEPT !.pc = "switching", !.phase = "failover",
                                         !.at = j, !.from = from, !.open = o]
               /\ active' = Failovers[j]
      BY <2>2
    <3>2. j \in 0 .. Len(Failovers) /\ Failovers[j] \in Models
      BY FailoversAssumption DEF Remaining
    <3> QED BY <1>1, <3>1, <3>2 DEF StepType, Pc, Phase
  <2> QED BY <1>3, <2>1, <2>2 DEF TryNext
<1>4. CASE phase \in {"thinking", "compacted"} /\ step' = Throws(phase, "failed") /\ active' = active
  BY <1>1, <1>2, <1>4
<1>5. CASE step' = Ends(phase, "timeout") /\ active' = active
  BY <1>1, <1>5 DEF Ends, StepType, Pc, Outcome
<1>6. CASE phase = "failover" /\ abort # "timeout" /\ TryNext(step.at, step.from, step.open)
  <2>1. step.at \in 0 .. Len(Failovers) /\ step.from \in Models /\ step.open \in BOOLEAN
    BY <1>1 DEF StepType
  <2> QED BY <1>3, <1>6, <2>1
<1>7. CASE abort # "timeout" /\ TryNext(0, active, open)
  <2>1. 0 \in 0 .. Len(Failovers)
    BY FailoversAssumption
  <2> QED BY <1>1, <1>3, <1>7, <2>1
<1>8. CASE /\ phase = "chat" /\ abort # "timeout" /\ active' = active
           /\ step' = IF open THEN Throws(phase, "unavailable")
                      ELSE IF e.overflow /\ Compactor /\ index > 1
                           THEN [step EXCEPT !.pc = "compacting", !.phase = "compacted"]
                           ELSE Throws(phase, "failed")
  <2>1. CASE open
    BY <1>1, <1>2, <1>8, <2>1
  <2>2. CASE ~ open /\ e.overflow /\ Compactor /\ index > 1
    BY <1>1, <1>8, <2>2 DEF StepType, Pc, Phase
  <2>3. CASE ~ open /\ ~ (e.overflow /\ Compactor /\ index > 1)
    BY <1>1, <1>2, <1>8, <2>3
  <2> QED BY <2>1, <2>2, <2>3
<1> QED BY <1>4, <1>5, <1>6, <1>7, <1>8 DEF Rejected

(* What StepInv and the two invariants of the step ask of a step s and a    *)
(* breaker br, while the abort stays what it is.                            *)
Good(s, br) ==
  /\ s.pc = "between" => s.outcome \in {"none", "answered", "timeout"}
  /\ s.pc \notin {"between", "over"} => s.outcome = "none"
  /\ s.pc = "compacting" => s.phase = "compacted"
  /\ s.pc = "switching" => s.phase = "failover"
  /\ s.pc = "sleeping" => s.attempt < MaxRetries /\ br.state # "open"
  /\ s.pc \in {"calling", "sleeping", "switching"} /\ s.phase = "failover" /\ s.open =>
       br.state # "closed"
  /\ s.pc = "over" /\ abort = "timeout" /\ s.outcome \in {"failed", "unavailable"} =>
       s.phase \in {"thinking", "compacted"}
  /\ s.outcome = "unavailable" => br.state # "closed"

LEMMA RejectedGood ==
  ASSUME TypeOK, StepInv, NEW phase \in Phase, NEW e \in Errors, NEW open \in BOOLEAN, NEW br,
         InStep, phase = "failover" => step.phase = "failover",
         open \/ (phase = "failover" /\ step.open) => br.state # "closed",
         Rejected(phase, e, open)
  PROVE  step' \in StepType /\ active' \in Models /\ Good(step', br)
<1>1. /\ step' \in StepType /\ active' \in Models
      /\ step'.pc \in {"between", "over", "switching", "compacting"}
      /\ step'.pc = "between" => step'.outcome = "timeout"
      /\ step'.pc = "over" =>
           /\ step'.outcome \in {"failed", "unavailable", "cancelled"}
           /\ abort = "timeout" => step'.phase \in {"thinking", "compacted"}
           /\ step'.outcome = "unavailable" => open \/ (phase = "failover" /\ step.open)
      /\ step'.pc = "switching" =>
           /\ step'.phase = "failover" /\ step'.outcome = "none"
           /\ step'.open => open \/ (phase = "failover" /\ step.open)
      /\ step'.pc = "compacting" => step'.phase = "compacted" /\ step'.outcome = "none"
  BY RejectedFacts
<1> QED BY <1>1 DEF Good

(* A call, from a breaker b after n answers, in a step that called k times. *)
LEMMA CallFacts ==
  ASSUME TypeOK, StepInv, InStep, NEW phase \in Phase, NEW b, NEW n, NEW k \in Nat,
         Sound(b, n), Call(phase, b, k),
         phase = "failover" => step.phase = "failover" /\ (step.open => b.state # "closed")
  PROVE  /\ Sound(breaker', n) /\ tries' \in Nat
         /\ step' \in StepType /\ active' \in Models /\ Good(step', breaker')
         /\ tries' > k => abort = "no" /\ breaker'.state # "open"
         /\ breaker'.state = "closed" <=> b.state = "closed"
<1>1. /\ breaker' = Current(b) /\ Sound(breaker', n)
      /\ breaker'.state = "closed" <=> b.state = "closed"
  BY CurrentSound DEF Call
<1>2. step \in StepType /\ active \in Models /\ step.outcome = "none"
  BY DEF TypeOK, StepType, StepInv
<1>3. CASE breaker'.state # "open" /\ abort = "no" /\ Asks(phase, k)
  <2>1. /\ step' = [step EXCEPT !.pc = "calling", !.phase = phase, !.attempt = 0]
        /\ active' = active /\ tries' = k + 1
    BY <1>3 DEF Asks
  <2>2. 0 \in 0 .. MaxRetries
    BY ThresholdsAssumption
  <2>3. /\ step' \in StepType /\ step'.pc = "calling" /\ step'.phase = phase
        /\ step'.outcome = "none" /\ step'.open = step.open
    BY <1>2, <2>1, <2>2 DEF StepType, Pc
  <2>4. Good(step', breaker')
    BY <1>1, <2>3 DEF Good
  <2>5. tries' \in Nat
    BY <2>1
  <2> QED BY <1>1, <1>2, <1>3, <2>1, <2>3, <2>4, <2>5
<1>4. CASE Rejected(phase, AbortError, FALSE) /\ tries' = k
  <2>1. AbortError \in Errors
    BY DEF AbortError, OpenError, Errors
  <2>2. step' \in StepType /\ active' \in Models /\ Good(step', breaker')
    BY <1>1, <1>4, <2>1, RejectedGood
  <2> QED BY <1>1, <1>4, <2>2
<1>5. CASE breaker'.state = "open" /\ Rejected(phase, OpenError, TRUE) /\ tries' = k
  <2>1. OpenError \in Errors
    BY DEF OpenError, Errors
  <2>2. step' \in StepType /\ active' \in Models /\ Good(step', breaker')
    BY <1>1, <1>5, <2>1, RejectedGood
  <2> QED BY <1>1, <1>5, <2>2
<1> QED BY <1>1, <1>3, <1>4, <1>5 DEF Call

(* From the facts about the primed state to the invariant.                  *)
LEMMA GoodInv ==
  ASSUME abort \in {"no", "timeout", "run"}, UNCHANGED abort,
         index' \in 0 .. MaxSteps, Sound(breaker', answers'),
         step' \in StepType, active' \in Models, tries' \in Nat, Good(step', breaker')
  PROVE  IInv'
<1>1. TypeOK'
  BY DEF TypeOK, Sound, BreakerType, StepType
<1>2. StepInv'
  BY DEF StepInv, InStep, Good
<1>3. TimeoutSparesTheRun' /\ UnavailableIsTrue'
  BY DEF TimeoutSparesTheRun, UnavailableIsTrue, Good
<1> QED BY <1>1, <1>2, <1>3 DEF IInv, Sound

(* The two properties of the steps.                                         *)
Asked  == tries' > tries => abort = "no" /\ breaker'.state # "open"
Probed == breaker.state # "closed" /\ breaker'.state = "closed" => answers' >= SuccessThreshold
Kept   == IInv' /\ Asked /\ Probed

(* An action that calls through the breaker as it is.                       *)
LEMMA CallStep ==
  ASSUME IInv, InStep, NEW phase \in Phase, NEW k \in Nat, k <= tries, Call(phase, breaker, k),
         phase = "failover" => step.pc = "switching",
         UNCHANGED <<abort, index, answers>>
  PROVE  Kept
<1>1. /\ TypeOK /\ StepInv /\ Sound(breaker, answers)
      /\ phase = "failover" => step.phase = "failover" /\ (step.open => breaker.state # "closed")
  BY DEF IInv, StepInv
<1>2. /\ Sound(breaker', answers) /\ tries' \in Nat
      /\ step' \in StepType /\ active' \in Models /\ Good(step', breaker')
      /\ tries' > k => abort = "no" /\ breaker'.state # "open"
      /\ breaker'.state = "closed" <=> breaker.state = "closed"
  BY <1>1, CallFacts
<1>3. IInv'
  BY <1>1, <1>2, GoodInv DEF TypeOK
<1>4. Asked
  <2>1. tries' > tries => tries' > k
    BY <1>1, <1>2 DEF TypeOK
  <2> QED BY <1>2, <2>1 DEF Asked
<1> QED BY <1>2, <1>3, <1>4 DEF Kept, Probed

(* An action whose rejection leaves the breaker and the counts alone.       *)
LEMMA RejectStep ==
  ASSUME IInv, InStep, NEW phase \in Phase, NEW e \in Errors, Rejected(phase, e, FALSE),
         phase = "failover" => step.pc \in {"calling", "sleeping", "switching"} /\ step.phase = "failover",
         UNCHANGED <<breaker, abort, index, tries, answers>>
  PROVE  Kept
<1>1. TypeOK /\ StepInv /\ Sound(breaker, answers)
  BY DEF IInv
<1>2. phase = "failover" /\ step.open => breaker.state # "closed"
  BY <1>1 DEF StepInv
<1>3. step' \in StepType /\ active' \in Models /\ Good(step', breaker)
  BY <1>1, <1>2, RejectedGood
<1>4. IInv'
  BY <1>1, <1>3, GoodInv DEF TypeOK
<1>5. Asked /\ Probed
  BY <1>1 DEF Asked, Probed, TypeOK
<1> QED BY <1>4, <1>5 DEF Kept

(* An action that only changes the step, the abort and the index.           *)
LEMMA QuietStep ==
  ASSUME IInv, UNCHANGED <<breaker, answers>>, tries' \in {0, tries}, IInv'
  PROVE  Kept
<1>1. tries \in Nat
  BY DEF IInv, TypeOK
<1> QED BY <1>1 DEF Kept, Asked, Probed

LEMMA BeginStepKeeps == ASSUME IInv, BeginStep PROVE Kept
<1>1. step \in StepType /\ index \in Nat /\ MaxSteps \in Nat /\ index < MaxSteps
  BY ThresholdsAssumption DEF IInv, TypeOK, StepType, BeginStep
<1>2. /\ step' \in StepType /\ step'.pc = "guarding" /\ step'.outcome = "none"
  BY <1>1 DEF BeginStep, StepType, Pc, Outcome
<1>3. index' \in 0 .. MaxSteps
  BY <1>1 DEF BeginStep
<1>4. TypeOK'
  BY <1>2, <1>3 DEF IInv, TypeOK, StepType, BeginStep
<1>5. StepInv' /\ TimeoutSparesTheRun' /\ UnavailableIsTrue'
  BY <1>2 DEF StepInv, InStep, TimeoutSparesTheRun, UnavailableIsTrue
<1>6. Sound(breaker, answers)' /\ tries' = 0 /\ UNCHANGED <<breaker, answers>>
  BY DEF IInv, Sound, BeginStep
<1> QED BY <1>4, <1>5, <1>6, QuietStep DEF IInv

LEMMA LeaveKeeps == ASSUME IInv, Leave PROVE Kept
<1>1. /\ step \in StepType /\ step.outcome \in {"none", "answered", "timeout"}
      /\ Sound(breaker, answers) /\ TypeOK
  BY DEF IInv, TypeOK, StepInv, StepType, Leave
<1>2. /\ step' \in StepType /\ step'.pc = "over"
      /\ step'.outcome \in {"none", "answered", "timeout", "cancelled"}
  BY <1>1 DEF Leave, StepType, Pc, Outcome
<1>3. Good(step', breaker')
  BY <1>2 DEF Good
<1>4. IInv'
  BY <1>1, <1>2, <1>3, GoodInv DEF Leave, TypeOK
<1> QED BY <1>4, QuietStep DEF Leave

(* A step that throws outside of a call.                                    *)
LEMMA ThrowKeeps ==
  ASSUME IInv, InStep, NEW o \in {"denied", "failed"}, step' = Throws(step.phase, o),
         o = "failed" => step.pc = "compacting",
         UNCHANGED <<breaker, active, abort, index, tries, answers>>
  PROVE  Kept
<1>1. step \in StepType /\ Sound(breaker, answers) /\ TypeOK
  BY DEF IInv, TypeOK, StepType
<1>2. /\ step' \in StepType /\ step'.pc = "over" /\ step'.phase = step.phase
      /\ step'.outcome \in {o, "cancelled"}
  BY <1>1 DEF Throws, StepType, Pc, Outcome
<1>3. o = "failed" => step.phase = "compacted"
  BY DEF IInv, StepInv
<1>4. Good(step', breaker')
  BY <1>2, <1>3 DEF Good
<1>5. IInv'
  BY <1>1, <1>2, <1>4, GoodInv DEF TypeOK
<1> QED BY <1>5, QuietStep

LEMMA ThinkingEndsKeeps == ASSUME IInv, ThinkingEnds PROVE Kept
<1>1. TypeOK /\ StepInv /\ Sound(breaker, answers) /\ InStep /\ tries \in Nat
  BY DEF IInv, TypeOK, ThinkingEnds, InStep
<1>2. /\ Sound(OnSuccess(breaker), answers + 1)
      /\ breaker.state # "closed" /\ OnSuccess(breaker).state = "closed"
           => answers + 1 >= SuccessThreshold
  BY <1>1, OnSuccessSound
<1>3. /\ Sound(breaker', answers + 1) /\ tries' \in Nat
      /\ step' \in StepType /\ active' \in Models /\ Good(step', breaker')
      /\ tries' > tries => abort = "no" /\ breaker'.state # "open"
      /\ breaker'.state = "closed" <=> OnSuccess(breaker).state = "closed"
  BY <1>1, <1>2, CallFacts DEF ThinkingEnds, Phase
<1>4. IInv'
  BY <1>1, <1>3, GoodInv DEF TypeOK, ThinkingEnds
<1> QED BY <1>2, <1>3, <1>4 DEF Kept, Asked, Probed, ThinkingEnds

LEMMA AnsweredKeeps == ASSUME IInv, Answered PROVE Kept
<1>1. TypeOK /\ StepInv /\ Sound(breaker, answers) /\ step \in StepType /\ tries \in Nat
  BY DEF IInv, TypeOK, StepType
<1>2. /\ Sound(breaker', answers') /\ Probed
  BY <1>1, OnSuccessSound DEF Answered, Probed
<1>3. step' \in StepType /\ step'.pc = "between" /\ step'.outcome = "answered"
  BY <1>1 DEF Answered, Ends, StepType, Pc, Outcome
<1>4. Good(step', breaker')
  BY <1>3 DEF Good
<1>5. IInv'
  BY <1>1, <1>2, <1>3, <1>4, GoodInv DEF TypeOK, Answered
<1> QED BY <1>1, <1>2, <1>5 DEF Kept, Asked, Answered

(* A failure the breaker counts, with the step rejected or sent to sleep.   *)
LEMMA CountedFacts ==
  ASSUME IInv, NEW e \in Errors, FailsCounted(e)
  PROVE  /\ TypeOK /\ StepInv /\ InStep /\ step.phase \in Phase /\ Probed /\ Asked
         /\ Sound(breaker', answers') /\ UNCHANGED abort /\ tries' \in Nat
         /\ index' \in 0 .. MaxSteps /\ abort \in {"no", "timeout", "run"}
         /\ breaker'.state # "open" => breaker.state = "closed"
         /\ step.phase = "failover" /\ step.open => breaker.state # "closed"
<1>1. /\ TypeOK /\ StepInv /\ InStep /\ step.phase \in Phase /\ Sound(breaker, answers)
      /\ tries \in Nat /\ index \in 0 .. MaxSteps /\ abort \in {"no", "timeout", "run"}
  BY DEF IInv, TypeOK, FailsCounted, InStep
<1>2. /\ breaker' = OnFailure(breaker) /\ answers' = 0 /\ Sound(breaker', answers')
      /\ breaker'.state = "closed" => breaker.state = "closed"
      /\ breaker'.state \in {"closed", "open"}
  BY <1>1, OnFailureSound DEF FailsCounted
<1>3. Probed /\ Asked
  BY <1>1, <1>2 DEF Probed, Asked, FailsCounted
<1>4. step.phase = "failover" /\ step.open => breaker.state # "closed"
  BY <1>1 DEF StepInv, FailsCounted
<1> QED BY <1>1, <1>2, <1>3, <1>4 DEF FailsCounted

LEMMA FailsOpeningKeeps == ASSUME IInv, NEW e \in Errors, FailsOpening(e) PROVE Kept
<1>1. FailsCounted(e) /\ breaker'.state = "open" /\ Rejected(step.phase, OpenError, TRUE)
  BY DEF FailsOpening
<1>2. OpenError \in Errors
  BY DEF OpenError, Errors
<1>3. step' \in StepType /\ active' \in Models /\ Good(step', breaker')
  BY <1>1, <1>2, CountedFacts, RejectedGood
<1>4. IInv'
  BY <1>1, <1>3, CountedFacts, GoodInv
<1> QED BY <1>1, <1>4, CountedFacts DEF Kept

LEMMA FailsFinallyKeeps == ASSUME IInv, NEW e \in Errors, FailsFinally(e) PROVE Kept
<1>1. FailsCounted(e) /\ breaker'.state # "open" /\ Rejected(step.phase, e, FALSE)
  BY DEF FailsFinally
<1>2. ~ (step.phase = "failover" /\ step.open)
  BY <1>1, CountedFacts
<1>3. step' \in StepType /\ active' \in Models /\ Good(step', breaker')
  BY <1>1, <1>2, CountedFacts, RejectedGood
<1>4. IInv'
  BY <1>1, <1>3, CountedFacts, GoodInv
<1> QED BY <1>1, <1>4, CountedFacts DEF Kept

LEMMA FailsAndWaitsKeeps == ASSUME IInv, NEW e \in Errors, FailsAndWaits(e) PROVE Kept
<1>1. /\ FailsCounted(e) /\ breaker'.state # "open"
      /\ step' = [step EXCEPT !.pc = "sleeping"] /\ active' = active
  BY DEF FailsAndWaits
<1>2. step \in StepType /\ step.outcome = "none" /\ active \in Models
  BY <1>1, CountedFacts DEF TypeOK, StepInv, StepType
<1>3. /\ step' \in StepType /\ step'.pc = "sleeping" /\ step'.outcome = "none"
      /\ step'.phase = step.phase /\ step'.open = step.open /\ step'.attempt < MaxRetries
  BY <1>1, <1>2 DEF StepType, Pc, FailsAndWaits
<1>4. Good(step', breaker')
  BY <1>1, <1>3, CountedFacts DEF Good
<1>5. IInv'
  BY <1>1, <1>2, <1>3, <1>4, CountedFacts, GoodInv
<1> QED BY <1>1, <1>5, CountedFacts DEF Kept

LEMMA RetriesKeeps == ASSUME IInv, Retries PROVE Kept
<1>1. /\ TypeOK /\ StepInv /\ Sound(breaker, answers) /\ step \in StepType /\ tries \in Nat
      /\ step.outcome = "none" /\ step.attempt < MaxRetries /\ breaker.state # "open"
      /\ step.phase = "failover" /\ step.open => breaker.state # "closed"
  BY DEF IInv, TypeOK, StepType, Retries, StepInv, InStep
<1>2. step.attempt + 1 \in 0 .. MaxRetries
  BY <1>1, ThresholdsAssumption DEF StepType
<1>3. /\ step' = [step EXCEPT !.pc = "calling", !.attempt = step.attempt + 1]
      /\ UNCHANGED <<breaker, active, abort, index, answers>> /\ tries' = tries + 1
  BY DEF Retries
<1>4. /\ step' \in StepType /\ step'.pc = "calling" /\ step'.outcome = "none"
      /\ step'.phase = step.phase /\ step'.open = step.open
  BY <1>1, <1>2, <1>3 DEF StepType, Pc
<1>5. Good(step', breaker')
  BY <1>1, <1>3, <1>4 DEF Good
<1>6. tries' \in Nat
  BY <1>1, <1>3
<1>7. IInv'
  BY <1>1, <1>3, <1>4, <1>5, <1>6, GoodInv DEF TypeOK
<1> QED BY <1>1, <1>3, <1>7 DEF Kept, Asked, Probed, Retries

(* The timer, the host and the clock.                                       *)
LEMMA AbortKeeps ==
  ASSUME IInv, step.pc # "over", abort' \in {"timeout", "run"},
         UNCHANGED <<breaker, step, active, index, tries, answers>>
  PROVE  Kept
<1>1. TypeOK' /\ Sound(breaker, answers)'
  BY DEF IInv, TypeOK, Sound
<1>2. StepInv' /\ TimeoutSparesTheRun' /\ UnavailableIsTrue'
  BY DEF IInv, StepInv, InStep, TimeoutSparesTheRun, UnavailableIsTrue
<1> QED BY <1>1, <1>2, QuietStep DEF IInv

LEMMA ResetDueKeeps == ASSUME IInv, ResetDue PROVE Kept
<1>1. TypeOK /\ StepInv /\ Sound(breaker, answers) /\ breaker.state = "open" /\ tries \in Nat
  BY DEF IInv, ResetDue, TypeOK
<1>2. /\ breaker' \in BreakerType /\ breaker'.state = "open"
      /\ breaker'.failures = breaker.failures
  BY <1>1 DEF ResetDue, Sound, BreakerType
<1>3. Sound(breaker', answers')
  BY <1>1, <1>2 DEF Sound, ResetDue
<1>4. TypeOK'
  BY <1>1, <1>2 DEF TypeOK, ResetDue, BreakerType
<1>5. StepInv' /\ TimeoutSparesTheRun' /\ UnavailableIsTrue'
  BY <1>1, <1>2 DEF IInv, StepInv, InStep, TimeoutSparesTheRun, UnavailableIsTrue, ResetDue
<1> QED BY <1>1, <1>2, <1>3, <1>4, <1>5 DEF Kept, IInv, Asked, Probed, ResetDue

LEMMA InitInv == Init => IInv
<1> SUFFICES ASSUME Init PROVE IInv
  OBVIOUS
<1>1. /\ Primary \in Models /\ 0 \in 0 .. MaxRetries /\ 0 \in 0 .. FailureThreshold
      /\ 0 \in 0 .. Len(Failovers) /\ 0 \in 0 .. MaxSteps /\ 0 < FailureThreshold
  BY FailoversAssumption, ThresholdsAssumption DEF Models
<1>2. breaker \in BreakerType /\ breaker.state = "closed" /\ breaker.failures = 0
  BY <1>1 DEF Init, BreakerType
<1>3. step \in StepType /\ step.pc = "between" /\ step.outcome = "none"
  BY <1>1 DEF Init, StepType, Pc, Phase, Outcome
<1>4. TypeOK
  BY <1>1, <1>2, <1>3 DEF Init, TypeOK, BreakerType, StepType
<1>5. Sound(breaker, answers)
  BY <1>1, <1>2 DEF Init, Sound
<1>6. StepInv /\ TimeoutSparesTheRun /\ UnavailableIsTrue
  BY <1>3 DEF StepInv, InStep, TimeoutSparesTheRun, UnavailableIsTrue
<1> QED BY <1>4, <1>5, <1>6 DEF IInv

LEMMA NextKeeps == ASSUME IInv, [Next]_vars PROVE Kept
<1>0. /\ StepInv /\ step.phase \in Phase /\ tries \in Nat
      /\ AbortError \in Errors /\ OpenError \in Errors
  BY DEF IInv, TypeOK, AbortError, OpenError, Errors
<1>1. CASE BeginStep BY <1>1, BeginStepKeeps
<1>2. CASE Leave BY <1>2, LeaveKeeps
<1>3. ASSUME NEW phase \in {"thinking", "chat"}, GuardrailsPass(phase) PROVE Kept
  <2>1. /\ phase \in Phase /\ phase # "failover" /\ InStep /\ 0 <= tries /\ 0 \in Nat
        /\ Call(phase, breaker, 0) /\ UNCHANGED <<abort, index, answers>>
    BY <1>0, <1>3 DEF Phase, GuardrailsPass, InStep
  <2> QED BY <2>1, CallStep
<1>4. CASE GuardrailDenies
  BY <1>4, ThrowKeeps DEF GuardrailDenies, InStep
<1>5. CASE ThinkingEnds BY <1>5, ThinkingEndsKeeps
<1>6. CASE Answered BY <1>6, AnsweredKeeps
<1>7. CASE FailsAborted
  BY <1>0, <1>7, RejectStep DEF FailsAborted, InStep
<1>8. ASSUME NEW e \in Errors, FailsUncounted(e) PROVE Kept
  BY <1>0, <1>8, RejectStep DEF FailsUncounted, InStep
<1>9. ASSUME NEW e \in Errors, FailsOpening(e) \/ FailsFinally(e) \/ FailsAndWaits(e) PROVE Kept
  BY <1>9, FailsOpeningKeeps, FailsFinallyKeeps, FailsAndWaitsKeeps
<1>10. CASE Retries BY <1>10, RetriesKeeps
<1>11. CASE SleepAborted
  BY <1>0, <1>11, RejectStep DEF SleepAborted, InStep
<1>12. CASE Switched
  <2>1. /\ InStep /\ "failover" \in Phase /\ tries <= tries /\ step.pc = "switching"
        /\ Call("failover", breaker, tries) /\ UNCHANGED <<abort, index, answers>>
    BY <1>0, <1>12 DEF Switched, InStep, Phase
  <2> QED BY <1>0, <2>1, CallStep
<1>13. CASE SwitchFails
  BY <1>0, <1>13, RejectStep DEF SwitchFails, InStep, StepInv, Phase
<1>14. CASE Compacted
  <2>1. /\ InStep /\ "compacted" \in Phase /\ tries <= tries
        /\ Call("compacted", breaker, tries) /\ UNCHANGED <<abort, index, answers>>
    BY <1>0, <1>14 DEF Compacted, InStep, Phase
  <2> QED BY <1>0, <2>1, CallStep
<1>15. CASE CompactionFails
  BY <1>15, ThrowKeeps DEF CompactionFails, InStep
<1>16. CASE StepTimer
  BY <1>16, AbortKeeps DEF StepTimer, InStep
<1>17. CASE AbortRun
  BY <1>17, AbortKeeps DEF AbortRun
<1>18. CASE ResetDue BY <1>18, ResetDueKeeps
<1>19. CASE UNCHANGED vars
  <2>1. IInv'
    BY <1>19 DEF IInv, TypeOK, Sound, StepInv, InStep, TimeoutSparesTheRun, UnavailableIsTrue, vars
  <2> QED BY <1>19, <2>1, QuietStep DEF vars
<1> QED BY <1>1, <1>2, <1>3, <1>4, <1>5, <1>6, <1>7, <1>8, <1>9, <1>10, <1>11, <1>12,
           <1>13, <1>14, <1>15, <1>16, <1>17, <1>18, <1>19 DEF Next

(* The invariant is inductive.                                              *)
THEOREM InvariantHolds == Spec => []IInv
<1>1. Init => IInv BY InitInv
<1>2. IInv /\ [Next]_vars => IInv' BY NextKeeps DEF Kept
<1> QED BY <1>1, <1>2, PTL DEF Spec

(* Types, for any models, thresholds, retries and steps.                    *)
THEOREM TypesHold == Spec => []TypeOK
<1>1. IInv => TypeOK BY DEF IInv
<1> QED BY <1>1, InvariantHolds, PTL

(* The count of failures and the state of the breaker never disagree.       *)
THEOREM BreakerIsSound == Spec => []CountsAgree
<1>1. IInv => CountsAgree BY DEF IInv, Sound, CountsAgree
<1> QED BY <1>1, InvariantHolds, PTL

(* A step timer fails a run only in a pass of thinking or after compaction. *)
THEOREM TimeoutIsOfTheStep == Spec => []TimeoutSparesTheRun
<1>1. IInv => TimeoutSparesTheRun BY DEF IInv
<1> QED BY <1>1, InvariantHolds, PTL

(* A run that ends as model_unavailable has a breaker that is not closed.   *)
THEOREM UnavailableMeansOpen == Spec => []UnavailableIsTrue
<1>1. IInv => UnavailableIsTrue BY DEF IInv
<1> QED BY <1>1, InvariantHolds, PTL

(* No call is made after an abort or against an open breaker.               *)
THEOREM AskedWithReason == Spec => NobodyIsAskedInVain
<1>1. IInv /\ [Next]_vars => [tries' > tries => abort = "no" /\ breaker'.state # "open"]_vars
  BY NextKeeps DEF Kept, Asked
<1> QED BY <1>1, InvariantHolds, PTL DEF Spec, NobodyIsAskedInVain

(* A breaker closes only after SuccessThreshold answers in a row.           *)
THEOREM ProbedBeforeClosed == Spec => ClosesAfterProbes
<1>1. IInv /\ [Next]_vars =>
        [breaker.state # "closed" /\ breaker'.state = "closed" => answers' >= SuccessThreshold]_vars
  BY NextKeeps DEF Kept, Probed
<1> QED BY <1>1, InvariantHolds, PTL DEF Spec, ClosesAfterProbes

(* What a step reports of its timer and its model is so.                    *)
THEOREM OutcomeHolds == Spec => []OutcomeIsTrue
BY TimeoutIsOfTheStep, UnavailableMeansOpen, PTL DEF OutcomeIsTrue

=============================================================================
