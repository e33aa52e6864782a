------------------------------ MODULE ModelCall ------------------------------
(***************************************************************************)
(* The model calls of a run's steps (processStep in core/src/kernel/       *)
(* run-loop.ts): retries and the circuit breaker around every call         *)
(* (guard/src/circuit-breaker.ts), failover to other models, compaction    *)
(* after a context overflow, the step timer and the abort of the run.      *)
(*                                                                         *)
(* One run; its breaker is its own (kernel.ts:1528-1531) and lives as long *)
(* as the run does.  What a step does with an answer is not modelled here. *)
(***************************************************************************)
EXTENDS Naturals, Sequences, FiniteSets

CONSTANTS Primary,           \* the model the run starts with
          Failovers,         \* the models of failoverModels the registry has, in order
          Compactor,         \* whether there is a compactor
          MaxRetries, FailureThreshold, SuccessThreshold,
          MaxSteps           \* bound: steps of the run

Models == {Primary} \cup {Failovers[i] : i \in DOMAIN Failovers}

ASSUME FailoversAssumption  == Failovers \in Seq(Models)
ASSUME CompactorAssumption  == Compactor \in BOOLEAN
ASSUME ThresholdsAssumption == /\ MaxRetries \in Nat
                               /\ FailureThreshold \in Nat \ {0}
                               /\ SuccessThreshold \in Nat \ {0}
                               /\ MaxSteps \in Nat

(* What the code tells of an error apart: isFailure, retryable and          *)
(* isContextOverflowError.                                                  *)
Errors   == [failure : BOOLEAN, retryable : BOOLEAN, overflow : BOOLEAN]
OpenError  == [failure |-> FALSE, retryable |-> TRUE, overflow |-> FALSE]
AbortError == OpenError

VARIABLES
  breaker,   \* the circuit breaker of the run; due: resetTimeoutMs has passed
  step,      \* the current step: where it waits and its local variables
  active,    \* modelForRun
  abort,     \* "no", "timeout" (the step timer fired), or "run"
  index,     \* steps begun
  tries,     \* calls of a provider in this step (history)
  answers    \* answers since the breaker last counted a failure (history)

vars == <<breaker, step, active, abort, index, tries, answers>>

(* guarding: the input guardrails;  calling: the provider;  sleeping: the   *)
(* backoff;  switching: the event of a failover;  compacting: the compactor *)
Pc      == {"between", "guarding", "calling", "sleeping", "switching", "compacting", "over"}
Phase   == {"thinking", "chat", "failover", "compacted"}
Outcome == {"none", "answered", "timeout", "unavailable", "failed", "denied",
            "cancelled"}

Init == /\ breaker  = [state |-> "closed", failures |-> 0, probes |-> 0, due |-> FALSE]
        /\ step     = [pc |-> "between", phase |-> "chat", attempt |-> 0, at |-> 0,
                       from |-> Primary, open |-> FALSE, outcome |-> "none"]
        /\ active   = Primary
        /\ abort    = "no"
        /\ index    = 0
        /\ tries    = 0
        /\ answers  = 0

----------------------------------------------------------------------------
(* The circuit breaker.                                                    *)

(* Mutant: a breaker that reopens goes on counting its old successes.       *)
KeepsProbes(b) ==
  IF b.state = "open" /\ b.due THEN [b EXCEPT !.state = "half_open", !.due = FALSE] ELSE b

(* getState: an open breaker is half open once its time has passed.         *)
Current(b) ==
  IF b.state = "open" /\ b.due
  THEN [b EXCEPT !.state = "half_open", !.probes = 0, !.due = FALSE]
  ELSE b

OnSuccess(b) ==
  IF b.state = "half_open"
  THEN IF b.probes + 1 >= SuccessThreshold
       THEN [b EXCEPT !.state = "closed", !.failures = 0, !.probes = 0]
       ELSE [b EXCEPT !.probes = @ + 1]
  ELSE IF b.state = "closed" THEN [b EXCEPT !.failures = 0] ELSE b

(* The count of failures is capped at the threshold: above it nothing       *)
(* depends on it.                                                           *)
OnFailure(b) ==
  LET f == IF b.failures < FailureThreshold THEN b.failures + 1 ELSE b.failures
      c == [b EXCEPT !.failures = f, !.due = FALSE]
  IN  IF f >= FailureThreshold     THEN [c EXCEPT !.state = "open"]
      ELSE IF b.state = "half_open" THEN [c EXCEPT !.state = "open", !.probes = 0]
      ELSE c

----------------------------------------------------------------------------
(* Where a step goes.                                                      *)

Ends(phase, outcome) == [step EXCEPT !.pc = "between", !.phase = phase, !.outcome = outcome]

(* An error that leaves processStep ends the run.                           *)
Throws(phase, outcome) ==
  [step EXCEPT !.pc = "over", !.phase = phase,
               !.outcome = IF abort = "run" THEN "cancelled" ELSE outcome]

CanFailover(e) ==
  abort = "no" /\ Failovers # << >> /\ e.retryable /\ ~ e.overflow

(* The candidates behind position i of the list: the model that failed is   *)
(* skipped.                                                                 *)
Remaining(i, from) == {j \in DOMAIN Failovers : j > i /\ Failovers[j] # from}

(* The next candidate of the failover loop, or its end.                     *)
TryNext(i, from, open) ==
  \/ /\ Remaining(i, from) = {}
     /\ step' = Throws("failover", IF open THEN "unavailable" ELSE "failed")
     /\ active' = active
  \/ \E j \in Remaining(i, from) :
       /\ \A k \in Remaining(i, from) : j <= k
       /\ step'   = [step EXCEPT !.pc = "switching", !.phase = "failover",
                                 !.at = j, !.from = from, !.open = open]
       /\ active' = Failovers[j]

(* Mutant: the failover loop does not look at the step timer.               *)
RejectedUntimed(phase, e, open) ==
  \/ /\ phase \in {"thinking", "compacted"}
     /\ step' = Throws(phase, "failed") /\ active' = active
  \/ /\ phase = "chat" /\ abort = "timeout"
     /\ step' = Ends(phase, "timeout") /\ active' = active
  \/ /\ phase = "failover"
     /\ TryNext(step.at, step.from, step.open)
  \/ /\ phase = "chat" /\ abort # "timeout"
     /\ IF CanFailover(e) THEN TryNext(0, active, open)
                          ELSE step' = Throws(phase, "failed") /\ active' = active

(* The call is rejected with error e: open, if the breaker refused it.      *)
Rejected(phase, e, open) ==
  \/ /\ phase \in {"thinking", "compacted"}
     /\ step' = Throws(phase, "failed") /\ active' = active
  \/ /\ phase \in {"chat", "failover"} /\ abort = "timeout"
     /\ step' = Ends(phase, "timeout") /\ active' = active
  \/ /\ phase = "failover" /\ abort # "timeout"
     /\ TryNext(step.at, step.from, step.open)
  \/ /\ phase = "chat" /\ abort # "timeout" /\ CanFailover(e)
     /\ TryNext(0, active, open)
  \/ /\ phase = "chat" /\ abort # "timeout" /\ ~ CanFailover(e)
     /\ step' = IF open THEN Throws(phase, "unavailable")
                ELSE IF e.overflow /\ Compactor /\ index > 1
                     THEN [step EXCEPT !.pc = "compacting", !.phase = "compacted"]
                     ELSE Throws(phase, "failed")
     /\ active' = active

Asks(phase, n) ==
  /\ step'   = [step EXCEPT !.pc = "calling", !.phase = phase, !.attempt = 0]
  /\ active' = active
  /\ tries'  = n + 1

(* Mutant: whether the signal is aborted is not looked at before the call.  *)
CallUnchecked(phase, b, n) ==
  LET c == Current(b)
  IN  /\ breaker' = c
      /\ \/ c.state # "open" /\ Asks(phase, n)
         \/ c.state = "open" /\ Rejected(phase, OpenError, TRUE) /\ tries' = n

(* CircuitBreaker.call up to its first await, in a step that has called     *)
(* providers n times.                                                       *)
Call(phase, b, n) ==
  LET c == Current(b)
  IN  /\ breaker' = c
      /\ \/ c.state # "open" /\ abort = "no" /\ Asks(phase, n)
         \/ c.state # "open" /\ abort # "no" /\ Rejected(phase, AbortError, FALSE) /\ tries' = n
         \/ c.state = "open" /\ Rejected(phase, OpenError, TRUE) /\ tries' = n

----------------------------------------------------------------------------
(* A step begins, with a timer of its own.                                  *)
BeginStep ==
  /\ step.pc = "between" /\ abort # "run" /\ index < MaxSteps
  /\ step'  = [step EXCEPT !.pc = "guarding", !.outcome = "none"]
  /\ index' = index + 1
  /\ abort' = "no"
  /\ tries' = 0
  /\ UNCHANGED <<breaker, active, answers>>

(* The run ends between two steps.                                          *)
Leave ==
  /\ step.pc = "between"
  /\ step' = [step EXCEPT !.pc = "over",
                          !.outcome = IF abort = "run" THEN "cancelled" ELSE @]
  /\ UNCHANGED <<breaker, active, abort, index, tries, answers>>

(* The input guardrails pass, and the first call is made: of a pass of      *)
(* thinking, if there is a budget for one.                                  *)
GuardrailsPass(phase) ==
  /\ step.pc = "guarding"
  /\ Call(phase, breaker, 0)
  /\ UNCHANGED <<abort, index, answers>>

GuardrailDenies ==
  /\ step.pc = "guarding"
  /\ step' = Throws(step.phase, "denied")
  /\ UNCHANGED <<breaker, active, abort, index, tries, answers>>

(* The pass of thinking is over, whole, broken off or without result: the   *)
(* call of the step follows.                                                *)
ThinkingEnds ==
  /\ step.pc = "calling" /\ step.phase = "thinking"
  /\ answers' = answers + 1
  /\ Call("chat", OnSuccess(breaker), tries)
  /\ UNCHANGED <<abort, index>>

(* The model answers.                                                       *)
Answered ==
  /\ step.pc = "calling" /\ step.phase # "thinking"
  /\ breaker' = OnSuccess(breaker)
  /\ answers' = answers + 1
  /\ step'    = Ends(step.phase, "answered")
  /\ UNCHANGED <<active, abort, index, tries>>

(* The call of the provider fails, after an abort.                          *)
FailsAborted ==
  /\ step.pc = "calling" /\ abort # "no"
  /\ Rejected(step.phase, AbortError, FALSE)
  /\ UNCHANGED <<breaker, abort, index, tries, answers>>

(* It fails with an error the breaker does not count.                       *)
FailsUncounted(e) ==
  /\ step.pc = "calling" /\ abort = "no" /\ ~ e.failure
  /\ Rejected(step.phase, e, FALSE)
  /\ UNCHANGED <<breaker, abort, index, tries, answers>>

FailsCounted(e) ==
  /\ step.pc = "calling" /\ abort = "no" /\ e.failure
  /\ breaker' = OnFailure(breaker)
  /\ answers' = 0
  /\ UNCHANGED <<abort, index, tries>>

(* The breaker opens.                                                       *)
FailsOpening(e) ==
  /\ FailsCounted(e)
  /\ breaker'.state = "open"
  /\ Rejected(step.phase, OpenError, TRUE)

(* It was the last attempt.                                                 *)
FailsFinally(e) ==
  /\ FailsCounted(e)
  /\ breaker'.state # "open" /\ step.attempt >= MaxRetries
  /\ Rejected(step.phase, e, FALSE)

FailsAndWaits(e) ==
  /\ FailsCounted(e)
  /\ breaker'.state # "open" /\ step.attempt < MaxRetries
  /\ step'   = [step EXCEPT !.pc = "sleeping"]
  /\ active' = active

(* The backoff ends and the provider is called again.                       *)
Retries ==
  /\ step.pc = "sleeping" /\ abort = "no"
  /\ step'   = [step EXCEPT !.pc = "calling", !.attempt = @ + 1]
  /\ tries'  = tries + 1
  /\ UNCHANGED <<breaker, active, abort, index, answers>>

(* An abort cuts the backoff short.                                         *)
SleepAborted ==
  /\ step.pc = "sleeping" /\ abort # "no"
  /\ Rejected(step.phase, AbortError, FALSE)
  /\ UNCHANGED <<breaker, abort, index, tries, answers>>

(* llm.failover is emitted, and the candidate is called through the same    *)
(* breaker.                                                                 *)
Switched ==
  /\ step.pc = "switching"
  /\ Call("failover", breaker, tries)
  /\ UNCHANGED <<abort, index, answers>>

SwitchFails ==
  /\ step.pc = "switching"
  /\ Rejected("failover", AbortError, FALSE)
  /\ UNCHANGED <<breaker, abort, index, tries, answers>>

(* The conversation is compacted and the model called once more.            *)
Compacted ==
  /\ step.pc = "compacting"
  /\ Call("compacted", breaker, tries)
  /\ UNCHANGED <<abort, index, answers>>

CompactionFails ==
  /\ step.pc = "compacting"
  /\ step' = Throws(step.phase, "failed")
  /\ UNCHANGED <<breaker, active, abort, index, tries, answers>>

----------------------------------------------------------------------------
(* Time and the host.                                                      *)

InStep == step.pc \notin {"between", "over"}

(* Mutant: the timer is cleared when failover begins.                       *)
TimerOfTheFirstCall ==
  /\ InStep /\ abort = "no" /\ step.phase # "failover"
  /\ abort' = "timeout"
  /\ UNCHANGED <<breaker, step, active, index, tries, answers>>

StepTimer ==
  /\ InStep /\ abort = "no"
  /\ abort' = "timeout"
  /\ UNCHANGED <<breaker, step, active, index, tries, answers>>

AbortRun ==
  /\ step.pc # "over" /\ abort # "run"
  /\ abort' = "run"
  /\ UNCHANGED <<breaker, step, active, index, tries, answers>>

(* The reset time of an open breaker passes.                                *)
ResetDue ==
  /\ breaker.state = "open" /\ ~ breaker.due
  /\ breaker' = [breaker EXCEPT !.due = TRUE]
  /\ UNCHANGED <<step, active, abort, index, tries, answers>>

Next == \/ BeginStep
        \/ Leave
        \/ \E phase \in {"thinking", "chat"} : GuardrailsPass(phase)
        \/ GuardrailDenies
        \/ ThinkingEnds
        \/ Answered
        \/ FailsAborted
        \/ \E e \in Errors : FailsUncounted(e)
        \/ \E e \in Errors : FailsOpening(e)
        \/ \E e \in Errors : FailsFinally(e)
        \/ \E e \in Errors : FailsAndWaits(e)
        \/ Retries
        \/ SleepAborted
        \/ Switched
        \/ SwitchFails
        \/ Compacted
        \/ CompactionFails
        \/ StepTimer
        \/ AbortRun
        \/ ResetDue

Spec == Init /\ [][Next]_vars

(* Timers fire; guardrails, stores and compactors settle; a provider is     *)
(* only trusted to settle after the abort of its signal.                    *)
Fairness == /\ WF_vars(StepTimer)
            /\ WF_vars(Retries) /\ WF_vars(SleepAborted)
            /\ WF_vars(GuardrailDenies \/ \E phase \in {"thinking", "chat"} : GuardrailsPass(phase))
            /\ WF_vars(Switched \/ SwitchFails)
            /\ WF_vars(Compacted \/ CompactionFails)
            /\ WF_vars(abort # "no" /\ (ThinkingEnds \/ Answered \/ FailsAborted))

FairSpec == Spec /\ Fairness

----------------------------------------------------------------------------
(* Properties.                                                             *)

(* Types of the breaker and the step.                                       *)
TypeOK ==
  /\ breaker \in [state : {"closed", "open", "half_open"}, failures : 0 .. FailureThreshold,
                  probes : Nat, due : BOOLEAN]
  /\ step \in [pc : Pc, phase : Phase, attempt : 0 .. MaxRetries,
               at : 0 .. Len(Failovers), from : Models, open : BOOLEAN, outcome : Outcome]
  /\ active \in Models
  /\ abort \in {"no", "timeout", "run"} /\ index \in 0 .. MaxSteps
  /\ tries \in Nat /\ answers \in Nat

(* No provider is called after the abort of the run or the step, or while   *)
(* the breaker is open: not by a retry, a failover or a compaction that was *)
(* under way (circuit-breaker.ts:152-160).                                  *)
NobodyIsAskedInVain ==
  [][tries' > tries => abort = "no" /\ breaker'.state # "open"]_vars

(* The count of failures agrees with the state of the breaker: it is at the *)
(* threshold until enough probes have succeeded, and below it when closed,  *)
(* so that the half-open branch of onFailure is never needed                *)
(* (circuit-breaker.ts:232-245).                                            *)
CountsAgree ==
  /\ breaker.state = "closed" <=> breaker.failures < FailureThreshold
  /\ breaker.state = "half_open" => breaker.probes < SuccessThreshold

(* A breaker closes only after SuccessThreshold answers in a row, counted   *)
(* from its last failure, whichever steps they came from.                   *)
ClosesAfterProbes ==
  [][breaker.state # "closed" /\ breaker'.state = "closed" => answers' >= SuccessThreshold]_vars

(* The step timer ends the step and not the run (run-loop.ts:565-579,       *)
(* 636-650): only a pass of thinking and a call after a compaction fail it. *)
TimeoutSparesTheRun ==
  step.pc = "over" /\ abort = "timeout" /\ step.outcome \in {"failed", "unavailable"} =>
    step.phase \in {"thinking", "compacted"}

(* A run ends as model_unavailable only if the breaker refuses the model:   *)
(* it is not closed (run-loop.ts:655-665).                                  *)
UnavailableIsTrue == step.outcome = "unavailable" => breaker.state # "closed"

(* How a step ends says what happened to it.                               *)
OutcomeIsTrue == TimeoutSparesTheRun /\ UnavailableIsTrue

(* A step ends, whatever the providers do.                                  *)
StepEnds == InStep ~> ~ InStep

(* "failover to secondary model on transient/circuit-open failures"         *)
(* (run-loop.ts:579): a failover that is announced, and not overtaken by an *)
(* abort, calls a model.                                                    *)
FailoverCalls == [][Switched /\ abort = "no" => tries' > tries]_vars
=============================================================================
