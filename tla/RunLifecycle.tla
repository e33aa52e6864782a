--------------------------- MODULE RunLifecycle ---------------------------
(***************************************************************************)
(* The life of a run: AgentKernel.run / resumeRun / runLoop (core/src/     *)
(* kernel/kernel.ts), the run loop it executes (core/src/kernel/run-       *)
(* loop.ts), delegation to a sub-agent run (sub-agent-runner.ts) and the   *)
(* shared RunStateMachine.                                                 *)
(*                                                                         *)
(* The process is the asynchronous call of runLoop, an "activation".  A    *)
(* fresh run is known by the name of its activation; an activation of      *)
(* resumeRun continues the run of an earlier one (runOf).  JavaScript runs *)
(* one callback at a time, so an action is what happens between two        *)
(* awaits; `phase` names the await an activation is suspended at.          *)
(***************************************************************************)
EXTENDS RunStateMachine, FiniteSets

CONSTANTS MaxSteps,     \* runMaxSteps, the step budget of a run
          MaxHandoffs,  \* maxSubAgentDepth, as HandoffTracker applies it
          MaxCrashes,   \* bound: how often the process may crash
          Features,     \* what the host makes use of
          Faults        \* which collaborators may reject a call or throw

ASSUME MaxStepsAssumption == MaxSteps \in Nat \ {0}
ASSUME MaxHandoffsAssumption == MaxHandoffs \in Nat
ASSUME MaxCrashesAssumption == MaxCrashes \in Nat
(* Bound: delegation lets a live run be resumed by a second loop, and the   *)
(* two would share what the kernel keeps per run id.  Not modelled.         *)
ASSUME FeaturesAssumption ==
  /\ Features \subseteq {"delegate", "resume", "handoff", "undo", "stateless", "shared"}
  /\ ~ {"delegate", "resume"} \subseteq Features
ASSUME FaultsAssumption == Faults \subseteq {"store", "snapshots", "registry", "bus"}

VARIABLES
  phase,      \* activation -> the await it is suspended at
  outcome,    \* activation -> the exit it has chosen
  runOf,      \* activation -> its run id
  session,    \* activation -> its session
  parent,     \* activation -> the activation that delegated to it
  resumed,    \* activation -> input.resume of its current runLoop call
  aborted,    \* the activations whose AbortSignal has fired
  step,       \* activation -> the step counter of the loop
  handoffs,   \* activation -> swaps recorded by its HandoffTracker
  saga,       \* activation -> calls with a registered compensation
  effects,    \* activation -> calls whose side effect is in the world
  reg,        \* the RunStateMachine
  log,        \* run id -> its persisted events, as far as a guard or a
              \*   property reads them, each with the activation it is by
  snapshot,   \* run id -> the last snapshot saved: step and status
  crashes     \* how often the process has crashed

vars == <<phase, outcome, runOf, session, parent, resumed, aborted, step,
          handoffs, saga, effects, reg, log, snapshot, crashes>>

identity  == <<runOf, session, parent>>
durable   == <<log, snapshot>>

(* evaluator: agentRegistry.get(evaluatorAgent), before the loop is entered *)
(* starting:  beforeRun, run.started, onRunStarted, addSessionMessage       *)
(* turn:      turn.started, at the head of the loop                         *)
(* step:      processStep and the events around it                          *)
(* exhausted: turn.end, after the last step                                 *)
(* rollback:  saga.rollbackAll() of the catch block                         *)
(* emit:      the append of run.completed                                   *)
(* hooks:     onRunCompleted and what else precedes setState                *)
(* final:     saveFinalSnapshot                                             *)
(* handoff:   validateHandoff; announce: the append of agent.handoff        *)
(* resolving: agentRegistry.get in runAgent, before the child run exists    *)
(* restoring: restoreRunFromStore in resumeRun, before the admission        *)
Suspended == {"evaluator", "starting", "turn", "step", "exhausted", "rollback",
              "emit", "hooks", "final", "handoff", "announce"}
Phase     == Suspended \cup
             {"idle", "resolving", "restoring", "refused", "settled", "threw", "dead"}

(* exceeded: a budget was used up; error: the catch block; rejected: the    *)
(* handoff was not allowed                                                  *)
Outcome == {"none", "succeeded", "exceeded", "error", "rejected", "cancelled"}

Terminal == {"succeeded", "failed", "cancelled"}
Event    == Terminal \cup {"started"}
Entry    == [event : Event, by : Runs]

(* Tool calls are told apart by the agent and the step they belong to.      *)
Call     == Nat \X Nat

Snapshot   == [step : Nat, status : {"none", "running", "succeeded", "cancelled"}]
NoSnapshot == [step |-> 0, status |-> "none"]

Init == /\ phase    = [a \in Runs |-> "idle"]
        /\ outcome  = [a \in Runs |-> "none"]
        /\ runOf    = [a \in Runs |-> None]
        /\ session  = [a \in Runs |-> None]
        /\ parent   = [a \in Runs |-> None]
        /\ resumed  = [a \in Runs |-> FALSE]
        /\ aborted  = {}
        /\ step     = [a \in Runs |-> 0]
        /\ handoffs = [a \in Runs |-> 0]
        /\ saga     = [a \in Runs |-> {}]
        /\ effects  = [a \in Runs |-> {}]
        /\ reg      = EmptyRegistry
        /\ log      = [r \in Runs |-> << >>]
        /\ snapshot = [r \in Runs |-> NoSnapshot]
        /\ crashes  = 0

----------------------------------------------------------------------------
(* What the exits have in common.                                          *)

Goto(a, p) == phase' = [phase EXCEPT ![a] = p]

Exit(a, p, o) == Goto(a, p) /\ outcome' = [outcome EXCEPT ![a] = o]

Persist(a, event) ==
  log' = [log EXCEPT ![runOf[a]] = Append(@, [event |-> event, by |-> a])]

(* Mutant: the snapshot of the last step already says that the run is over. *)
SaveSnapshotAsDone(a, next, status) ==
  snapshot' = [snapshot EXCEPT ![runOf[a]] =
                 [step |-> next, status |-> IF next < MaxSteps THEN status ELSE "succeeded"]]

(* saveSnapshot; its errors are logged and swallowed.                       *)
SaveSnapshot(a, next, status) ==
  \/ snapshot' = [snapshot EXCEPT ![runOf[a]] = [step |-> next, status |-> status]]
  \/ "snapshots" \in Faults /\ UNCHANGED snapshot

Undo(a) == /\ effects' = [effects EXCEPT ![a] = @ \ saga[a]]
           /\ saga'    = [saga EXCEPT ![a] = {}]

Forget(a) == saga' = [saga EXCEPT ![a] = {}] /\ UNCHANGED effects

Released(registry, a) == CleanupRun(registry, runOf[a], session[a])

(* Mutant: finally leaves the session to cancelRun, which never releases it. *)
BeginCancelHoldsSession(a) ==
  Exit(a, "emit", "cancelled") /\ Forget(a) /\ UNCHANGED reg

(* `return cancelRun(...)`.  The promise is returned, not awaited, so the   *)
(* finally block clears the saga and the registration of the run before     *)
(* cancelRun gets past its first await.                                     *)
BeginCancel(a) == /\ Exit(a, "emit", "cancelled")
                  /\ Forget(a)
                  /\ reg' = Released(reg, a)

Catch(a) == IF a \in aborted
            THEN BeginCancel(a)
            ELSE Exit(a, "rollback", "error") /\ UNCHANGED <<saga, effects, reg>>

(* Mutant: the signal is not looked at again.                               *)
UncheckedExit(a, p, o) == Exit(a, p, o) /\ UNCHANGED <<saga, effects, reg>>

(* An exit that looks at the signal once more before it begins to emit.     *)
CheckedExit(a, p, o) ==
  IF a \in aborted
  THEN BeginCancel(a)
  ELSE Exit(a, p, o) /\ UNCHANGED <<saga, effects, reg>>

(* The head of the for loop.                                                *)
LoopHead(a, next) ==
  IF next < MaxSteps
  THEN Goto(a, "turn") /\ UNCHANGED <<outcome, saga, effects, reg>>
  ELSE CheckedExit(a, "exhausted", outcome[a])

(* Delegated runs that are under way for a; each is told of an abort of the *)
(* step that started it.                                                    *)
Children(a) == {c \in Runs : parent[c] = a /\ phase[c] \in Suspended \cup {"resolving"}}

(* Mutant: the tool signal is not linked to that of the run.                *)
AbortsNoChild(S) == S

AbortsWith(S) == S \cup UNION {Children(a) : a \in {b \in S : phase[b] = "step"}}

----------------------------------------------------------------------------
(* Admission.                                                              *)

Begin(a, r, s, parentId) ==
  /\ reg' = CreateRun(reg, r, a, s, parentId)
  /\ Goto(a, IF Admits(reg, r, a, s, parentId) THEN "evaluator" ELSE "refused")

Start(a, s) ==
  /\ phase[a] = "idle"
  /\ Begin(a, a, s, None)
  /\ runOf'   = [runOf EXCEPT ![a] = a]
  /\ session' = [session EXCEPT ![a] = s]
  /\ UNCHANGED <<outcome, parent, resumed, aborted, step, handoffs, saga,
                 effects, durable, crashes>>

(* resumeRun, up to its await: restoreRunFromStore needs a persisted event, *)
(* and reads the step to continue from.                                     *)
Restore(a, earlier) ==
  /\ "resume" \in Features
  /\ phase[a] = "idle"
  /\ runOf[earlier] # None /\ log[runOf[earlier]] # << >>
  /\ Goto(a, "restoring")
  /\ runOf'   = [runOf EXCEPT ![a] = runOf[earlier]]
  /\ session' = [session EXCEPT ![a] = session[earlier]]
  /\ step'    = [step EXCEPT ![a] = snapshot[runOf[earlier]].step]
  /\ UNCHANGED <<outcome, parent, resumed, aborted, handoffs, saga, effects,
                 reg, durable, crashes>>

(* ... and after it: what was read may have been overtaken.                 *)
Resume(a) ==
  /\ phase[a] = "restoring"
  /\ Begin(a, runOf[a], session[a], None)
  /\ resumed' = [resumed EXCEPT ![a] = TRUE]
  /\ UNCHANGED <<outcome, identity, aborted, step, handoffs, saga, effects,
                 durable, crashes>>

(* The delegate tool calls runAgent, which first looks the agent up.        *)
(* Bound: a delegated run delegates no further in this model.               *)
Delegate(p, c) ==
  /\ "delegate" \in Features
  /\ phase[p] = "step" /\ parent[p] = None
  /\ step[p] < MaxSteps - 1
  /\ phase[c] = "idle"
  /\ Goto(c, "resolving")
  /\ parent'  = [parent EXCEPT ![c] = p]
  /\ session' = [session EXCEPT ![c] = session[p]]
  /\ aborted' = IF p \in aborted THEN aborted \cup {c} ELSE aborted
  /\ UNCHANGED <<outcome, runOf, resumed, step, handoffs, saga, effects, reg,
                 durable, crashes>>

StartChild(c) ==
  /\ phase[c] = "resolving"
  /\ Begin(c, c, session[c], runOf[parent[c]])
  /\ runOf' = [runOf EXCEPT ![c] = c]
  /\ UNCHANGED <<outcome, session, parent, resumed, aborted, step, handoffs,
                 saga, effects, durable, crashes>>

(* runLoop awaits the evaluator lookup before its try block: when it        *)
(* rejects, nothing undoes createRun.                                       *)
EvaluatorReady(a) ==
  /\ phase[a] = "evaluator"
  /\ Goto(a, "starting")
  /\ reg' = SetState(reg, runOf[a], "running")
  /\ UNCHANGED <<outcome, identity, resumed, aborted, step, handoffs, saga,
                 effects, durable, crashes>>

EvaluatorFails(a) ==
  /\ phase[a] = "evaluator"
  /\ "registry" \in Faults
  /\ Goto(a, "threw")
  /\ UNCHANGED <<outcome, identity, resumed, aborted, step, handoffs, saga,
                 effects, reg, durable, crashes>>

----------------------------------------------------------------------------
(* The loop.                                                               *)

(* runSessionState?.step ?? 0.  A restored run and a sub-agent have a       *)
(* session state of their own, and any other run may be given one.  A run   *)
(* without one begins at 0, after a handoff too ("stateless"); one that     *)
(* uses that of the kernel, which its runs share and none resets, begins at *)
(* whatever step is in it ("shared").                                       *)
FirstSteps(a) ==
  {step[a]} \cup
    (IF runOf[a] # a \/ parent[a] # None THEN {}
     ELSE (IF "stateless" \in Features THEN {0} ELSE {}) \cup
          (IF "shared" \in Features THEN 0 .. MaxSteps ELSE {}))

(* Messages are rebuilt from history instead when input.resume is set.      *)
Started(a) ==
  /\ phase[a] = "starting"
  /\ IF resumed[a] THEN UNCHANGED log ELSE Persist(a, "started")
  /\ \E n \in FirstSteps(a) : step' = [step EXCEPT ![a] = n] /\ LoopHead(a, n)
  /\ UNCHANGED <<identity, resumed, aborted, handoffs, snapshot, crashes>>

TurnStarted(a) ==
  /\ phase[a] = "turn"
  /\ IF a \in aborted
     THEN BeginCancel(a)
     ELSE Goto(a, "step") /\ UNCHANGED <<outcome, saga, effects, reg>>
  /\ UNCHANGED <<identity, resumed, aborted, step, handoffs, durable, crashes>>

CallOf(a) == <<handoffs[a], step[a]>>

(* A tool of the step succeeds: its side effect is in the world and its     *)
(* compensation is registered.                                              *)
ToolSucceeds(a) ==
  /\ "undo" \in Features
  /\ phase[a] = "step"
  /\ CallOf(a) \notin saga[a]
  /\ step[a] < MaxSteps - 1
  /\ a \notin aborted
  /\ saga'    = [saga EXCEPT ![a] = @ \cup {CallOf(a)}]
  /\ effects' = [effects EXCEPT ![a] = @ \cup {CallOf(a)}]
  /\ UNCHANGED <<phase, outcome, identity, resumed, aborted, step, handoffs,
                 reg, durable, crashes>>

(* A step waits for its tools; only an abort lets it abandon one.           *)
ToolsDone(a) == \A c \in Children(a) : c \in aborted

(* The tool signal of a delegation fires: the step timeout, or the timeout  *)
(* of the tool.                                                             *)
ToolTimeout(c) ==
  /\ phase[c] \in Suspended \cup {"resolving"}
  /\ parent[c] # None /\ phase[parent[c]] = "step"
  /\ c \notin aborted
  /\ aborted' = aborted \cup {c}
  /\ UNCHANGED <<phase, outcome, identity, resumed, step, handoffs, saga,
                 effects, reg, durable, crashes>>

AfterStep(a) == UNCHANGED <<identity, resumed, aborted, handoffs, log, crashes>>

(* Mutant: the step counter is not advanced.                                *)
StepEndsUncounted(a) ==
  /\ phase[a] = "step" /\ ToolsDone(a)
  /\ LoopHead(a, step[a])
  /\ UNCHANGED <<step, snapshot>>
  /\ AfterStep(a)

(* The step is over and the model wants another one.  Its snapshot carries  *)
(* no status; a step that timed out saves none.                             *)
StepEnds(a) ==
  /\ phase[a] = "step" /\ ToolsDone(a)
  /\ step' = [step EXCEPT ![a] = @ + 1]
  /\ SaveSnapshot(a, step[a] + 1, "none") \/ UNCHANGED snapshot
  /\ LoopHead(a, step[a] + 1)
  /\ AfterStep(a)

(* The token budget or a stop condition of the termination policy ends it.  *)
PolicyStops(a) ==
  /\ phase[a] = "step" /\ ToolsDone(a)
  /\ \E o \in {"exceeded", "succeeded"} : CheckedExit(a, "emit", o)
  /\ SaveSnapshot(a, step[a] + 1, "none")
  /\ UNCHANGED step
  /\ AfterStep(a)

(* The model answers without calling a tool.  An input that is still queued *)
(* keeps the run going for another step, if there is one left.              *)
FinalAnswer(a) ==
  /\ phase[a] = "step"
  /\ CallOf(a) \notin saga[a] /\ ToolsDone(a)
  /\ \/ CheckedExit(a, "emit", "succeeded") /\ UNCHANGED step
     \/ /\ step[a] + 1 < MaxSteps
        /\ step' = [step EXCEPT ![a] = @ + 1]
        /\ LoopHead(a, step[a] + 1)
  /\ UNCHANGED snapshot
  /\ AfterStep(a)

(* processStep throws: a model or guardrail error, or the abort.            *)
StepThrows(a) ==
  /\ phase[a] = "step" /\ ToolsDone(a)
  /\ Catch(a)
  /\ UNCHANGED <<snapshot, step>>
  /\ AfterStep(a)

(* What the activation waits for is rejected by the store, or a subscriber  *)
(* of the bus throws: the event is published once it has been appended.     *)
(* In "starting" the store may reject before run.started or after it.       *)
EmissionFails(a) ==
  /\ phase[a] \in {"starting", "turn", "exhausted"}
  /\ \/ "store" \in Faults /\ UNCHANGED log
     \/ "bus" \in Faults /\ phase[a] # "starting" /\ UNCHANGED log
     \/ /\ Faults \cap {"store", "bus"} # {}
        /\ phase[a] = "starting" /\ ~ resumed[a]
        /\ Persist(a, "started")
  /\ Catch(a)
  /\ UNCHANGED <<identity, resumed, aborted, step, handoffs, snapshot, crashes>>

(* The step budget is used up: success if there is an answer to show,       *)
(* failure otherwise.  Only the failure looks at the signal again.          *)
Exhausted(a) ==
  /\ phase[a] = "exhausted"
  /\ \/ Exit(a, "emit", "succeeded") /\ UNCHANGED <<saga, effects, reg>>
     \/ CheckedExit(a, "emit", "exceeded")
  /\ UNCHANGED <<identity, resumed, aborted, step, handoffs, durable, crashes>>

RolledBack(a) ==
  /\ phase[a] = "rollback"
  /\ Goto(a, "emit")
  /\ Undo(a)
  /\ UNCHANGED <<outcome, identity, resumed, aborted, step, handoffs, reg,
                 durable, crashes>>

----------------------------------------------------------------------------
(* Handoff to another agent: the same run, a new call of runLoop.          *)

(* Tools are disabled in the last step, so there is none to hand off in.    *)
StepHandsOff(a) ==
  /\ "handoff" \in Features
  /\ phase[a] = "step" /\ ToolsDone(a)
  /\ step[a] + 1 < MaxSteps
  /\ Goto(a, "handoff")
  /\ step' = [step EXCEPT ![a] = @ + 1]
  /\ SaveSnapshot(a, step[a] + 1, "running")
  /\ UNCHANGED <<outcome, saga, effects, reg>>
  /\ AfterStep(a)

(* Mutant: a rejected handoff ends the run without a terminal event.        *)
HandoffRejectedSilently(a) ==
  /\ phase[a] = "handoff"
  /\ Exit(a, "settled", "rejected")
  /\ Undo(a)
  /\ UNCHANGED <<identity, resumed, aborted, step, handoffs, reg, durable,
                 crashes>>

(* No registry, no such agent, the same agent, a cycle or too many swaps.   *)
HandoffRejected(a) ==
  /\ phase[a] = "handoff"
  /\ Exit(a, "emit", "rejected")
  /\ Undo(a)
  /\ UNCHANGED <<identity, resumed, aborted, step, handoffs, reg, durable,
                 crashes>>

HandoffAccepted(a) ==
  /\ phase[a] = "handoff"
  /\ handoffs[a] < MaxHandoffs
  /\ Goto(a, "announce")
  /\ handoffs' = [handoffs EXCEPT ![a] = @ + 1]
  /\ UNCHANGED <<outcome, identity, resumed, aborted, step, saga, effects, reg,
                 durable, crashes>>

HandoffAnnounced(a) ==
  /\ phase[a] = "announce"
  /\ Goto(a, "evaluator")
  /\ resumed' = [resumed EXCEPT ![a] = TRUE]
  /\ UNCHANGED <<outcome, identity, aborted, step, handoffs, saga, effects,
                 reg, durable, crashes>>

(* A rejection of either await leaves the kernel without any cleanup.       *)
HandoffThrows(a) ==
  /\ \/ phase[a] = "handoff"  /\ "registry" \in Faults
     \/ phase[a] = "announce" /\ Faults \cap {"store", "bus"} # {}
  /\ Goto(a, "threw")
  /\ UNCHANGED <<outcome, identity, resumed, aborted, step, handoffs, saga,
                 effects, reg, durable, crashes>>

----------------------------------------------------------------------------
(* The terminal event, and what follows it.                                *)

Verdict(o) == CASE o = "succeeded" -> "succeeded"
                [] o = "cancelled" -> "cancelled"
                [] OTHER           -> "failed"

TerminalEmitted(a) ==
  /\ phase[a] = "emit"
  /\ Persist(a, Verdict(outcome[a]))
  /\ Goto(a, "hooks")
  /\ UNCHANGED <<outcome, identity, resumed, aborted, step, handoffs, saga,
                 effects, reg, snapshot, crashes>>

(* The store rejects turn.end or the terminal event, or a subscriber of the *)
(* bus throws: after turn.end, or after the terminal event, which is in the *)
(* log then.  An exit inside the try block falls into the catch block and   *)
(* reports once more; the catch block itself falls into finally; a          *)
(* cancellation has been through finally; a rejected handoff has no finally *)
(* that would clean up.                                                     *)
TerminalFails(a) ==
  /\ phase[a] = "emit"
  /\ \/ "store" \in Faults /\ UNCHANGED log
     \/ /\ "bus" \in Faults
        /\ \/ outcome[a] \in {"succeeded", "exceeded", "cancelled"} /\ UNCHANGED log
           \/ Persist(a, Verdict(outcome[a]))
  /\ CASE outcome[a] \in {"succeeded", "exceeded"} -> Catch(a)
       [] outcome[a] = "error" ->
            /\ Goto(a, "threw")
            /\ Forget(a)
            /\ reg' = Released(reg, a)
            /\ UNCHANGED outcome
       [] OTHER -> Goto(a, "threw") /\ UNCHANGED <<outcome, saga, effects, reg>>
  /\ UNCHANGED <<identity, resumed, aborted, step, handoffs, snapshot, crashes>>

SucceededHooks(a) ==
  /\ phase[a] = "hooks" /\ outcome[a] = "succeeded"
  /\ Goto(a, "final")
  /\ reg' = SetState(reg, runOf[a], "completed")
  /\ UNCHANGED <<outcome, identity, resumed, aborted, step, handoffs, saga,
                 effects, durable, crashes>>

(* Mutant: a budget failure forgets its compensations.                      *)
FailedHooksForget(a) ==
  /\ phase[a] = "hooks" /\ outcome[a] \in {"exceeded", "error", "rejected"}
  /\ Goto(a, "settled")
  /\ Forget(a)
  /\ reg' = Released(SetState(reg, runOf[a], "failed"), a)
  /\ UNCHANGED <<outcome, identity, resumed, aborted, step, handoffs, durable,
                 crashes>>

(* saga.rollbackAll() comes after the event here, and before it for "error" *)
(* and "rejected", which have nothing left to undo.                         *)
FailedHooks(a) ==
  /\ phase[a] = "hooks" /\ outcome[a] \in {"exceeded", "error", "rejected"}
  /\ Goto(a, "settled")
  /\ Undo(a)
  /\ reg' = Released(SetState(reg, runOf[a], "failed"), a)
  /\ UNCHANGED <<outcome, identity, resumed, aborted, step, handoffs, durable,
                 crashes>>

(* The rollbackAll of cancelRun.                                            *)
CancelledHooks(a) ==
  /\ phase[a] = "hooks" /\ outcome[a] = "cancelled"
  /\ Goto(a, "final")
  /\ Undo(a)
  /\ reg' = SetState(reg, runOf[a], "cancelled")
  /\ UNCHANGED <<outcome, identity, resumed, aborted, step, handoffs, durable,
                 crashes>>

(* saveFinalSnapshot swallows an error of the store.  The finally block of  *)
(* a successful run follows it.                                             *)
FinalSnapshot(a) ==
  /\ phase[a] = "final"
  /\ Goto(a, "settled")
  /\ SaveSnapshot(a, step[a] + 1, outcome[a])
  /\ IF outcome[a] = "succeeded"
     THEN Forget(a) /\ reg' = Released(reg, a)
     ELSE UNCHANGED <<saga, effects, reg>>
  /\ UNCHANGED <<outcome, identity, resumed, aborted, step, handoffs, log,
                 crashes>>

----------------------------------------------------------------------------
(* The environment.                                                        *)

Abort(S) == /\ aborted' = aborted \cup AbortsWith(S)
            /\ aborted' # aborted
            /\ UNCHANGED <<phase, outcome, identity, resumed, step, handoffs,
                           saga, effects, reg, durable, crashes>>

HandleAbort(a) == phase[a] \in Suspended /\ Abort({a})

CancelAll == Abort(CancelAllTargets(reg))

(* Everything in memory is gone; events, snapshots and side effects stay.   *)
Crash ==
  /\ crashes < MaxCrashes
  /\ \E a \in Runs : phase[a] \in Suspended
  /\ crashes' = crashes + 1
  /\ phase' = [a \in Runs |-> IF phase[a] \in Suspended \cup {"resolving", "restoring"}
                              THEN "dead" ELSE phase[a]]
  /\ saga' = [a \in Runs |-> {}]
  /\ reg'  = EmptyRegistry
  /\ UNCHANGED <<outcome, identity, resumed, aborted, step, handoffs, effects,
                 durable>>

----------------------------------------------------------------------------
LoopStep(a) ==
  \/ EvaluatorReady(a) \/ EvaluatorFails(a)
  \/ Started(a) \/ TurnStarted(a) \/ ToolSucceeds(a)
  \/ StepEnds(a) \/ PolicyStops(a) \/ FinalAnswer(a) \/ StepThrows(a)
  \/ EmissionFails(a) \/ Exhausted(a) \/ RolledBack(a)
  \/ StepHandsOff(a) \/ HandoffRejected(a) \/ HandoffAccepted(a)
  \/ HandoffAnnounced(a) \/ HandoffThrows(a)
  \/ TerminalEmitted(a) \/ TerminalFails(a)
  \/ SucceededHooks(a) \/ FailedHooks(a) \/ CancelledHooks(a)
  \/ FinalSnapshot(a)
  \/ StartChild(a)

Host ==
  \/ \E a \in Runs, s \in Sessions : Start(a, s)
  \/ \E a, b \in Runs : Restore(a, b) \/ Delegate(a, b)
  \/ \E a \in Runs : Resume(a) \/ HandleAbort(a) \/ ToolTimeout(a)
  \/ CancelAll
  \/ Crash

Next == (\E a \in Runs : LoopStep(a)) \/ Host

Spec == Init /\ [][Next]_vars

(* Every await of an activation settles: the store, the hooks and the       *)
(* registry answer, and a step is bounded by its timeout.                   *)
Fairness == \A a \in Runs : WF_vars(LoopStep(a))

FairSpec == Spec /\ Fairness

----------------------------------------------------------------------------
(* Type invariant.                                                         *)
TypeOK ==
  /\ phase    \in [Runs -> Phase]
  /\ outcome  \in [Runs -> Outcome]
  /\ runOf    \in [Runs -> Runs \cup {None}]
  /\ session  \in [Runs -> Sessions \cup {None}]
  /\ parent   \in [Runs -> Runs \cup {None}]
  /\ resumed  \in [Runs -> BOOLEAN]
  /\ aborted  \subseteq Runs
  /\ step     \in [Runs -> Nat]
  /\ handoffs \in [Runs -> Nat]
  /\ saga     \in [Runs -> SUBSET Call]
  /\ effects  \in [Runs -> SUBSET Call]
  /\ reg      \in Registry
  /\ log      \in [Runs -> Seq(Entry)]
  /\ snapshot \in [Runs -> Snapshot]
  /\ crashes  \in Nat

(* An activation that createRun admitted and cleanupRun has not released.   *)
Holding(a) == phase[a] \in Suspended /\ outcome[a] # "cancelled"

TopLevel(a) == parent[a] = None

(* A session is occupied by one top-level run at a time: what createRun's   *)
(* busy check is for.  Needs a host that does not delegate.                 *)
ExclusiveSession ==
  \A a, b \in Runs :
    Holding(a) /\ Holding(b) /\ TopLevel(a) /\ TopLevel(b) /\ session[a] = session[b]
      => a = b

(* A busy session is owed to an activation that occupies it, or to one that *)
(* threw past every cleanup: nothing else keeps a session busy.             *)
BusyIsAccountedFor ==
  \A s \in reg.busy :
    \E a \in Runs : session[a] = s /\ (Holding(a) \/ phase[a] = "threw")

(* The terminal events an activation has reported.                         *)
Ends(a) ==
  IF runOf[a] = None THEN {}
  ELSE {i \in DOMAIN log[runOf[a]] :
          log[runOf[a]][i].by = a /\ log[runOf[a]][i].event \in Terminal}

EventOf(a, i) == log[runOf[a]][i].event

(* An activation that goes on after its terminal event has told how it      *)
(* ended: the last such event it wrote is the verdict its promise resolves  *)
(* with, whatever it had reported before a subscriber threw.                *)
LastWord ==
  \A a \in Runs : phase[a] \in {"hooks", "final", "settled"} =>
    \E i \in Ends(a) : /\ EventOf(a, i) = Verdict(outcome[a])
                        /\ \A j \in Ends(a) : j <= i

(* An activation reports a second end only where a subscriber of the bus    *)
(* threw, never a third, and the second is never a success.                 *)
SecondThoughts ==
  \A a \in Runs : \A i, j \in Ends(a) : i < j =>
    "bus" \in Faults /\ Ends(a) = {i, j} /\ EventOf(a, j) # "succeeded"

(* A run that settles as failed has undone the side effects of its tools,   *)
(* whichever of the three failing exits it took.                            *)
FailureIsUndone ==
  \A a \in Runs :
    phase[a] = "settled" /\ outcome[a] \in {"exceeded", "error", "rejected"}
      => effects[a] = {}

(* While a run can still fail, every side effect has a compensation.        *)
EffectsAreCovered ==
  \A a \in Runs : Holding(a) => effects[a] \subseteq saga[a]

(* A terminal snapshot never precedes the terminal event: a crash between   *)
(* the two leaves a run that findActiveSessionIds still reports.            *)
SnapshotFollowsEvent ==
  \A r \in Runs : snapshot[r].status \in Terminal =>
    \E i \in DOMAIN log[r] : log[r][i].event = snapshot[r].status

(* What the store has of a run tells its end, through crashes, resumes,     *)
(* rejected writes and subscribers that throw.                              *)
StoreTellsTheEnd == LastWord /\ SecondThoughts /\ SnapshotFollowsEvent

(* A sub-agent that its parent no longer waits for, or whose parent has     *)
(* been told to stop, has been told to stop itself.                         *)
SubAgentsAreStopped ==
  \A c \in Runs :
    /\ phase[c] \in Suspended \cup {"resolving"} /\ parent[c] # None
    /\ phase[parent[c]] # "step" \/ parent[c] \in aborted
    => c \in aborted

(* An abort that lands while the loop runs ends the run as cancelled.       *)
AbortCancels ==
  [][\A a \in Runs :
       /\ a \in aborted
       /\ phase[a] \in {"starting", "turn", "step"}
       /\ phase'[a] \in Suspended \ {"starting", "turn", "step"}
       => outcome'[a] = "cancelled" \/ phase'[a] = "handoff"]_vars

(* Every session is released, unless the process crashes.                  *)
SessionsAreReleased ==
  \A s \in Sessions : s \in reg.busy ~> s \notin reg.busy

----------------------------------------------------------------------------
(* What the proofs of RunLifecycle_proofs need beside these.               *)

(* An activation that runs has a run id, and a run id has a session.        *)
Identified ==
  \A a \in Runs :
    /\ phase[a] \in Suspended \cup {"restoring"} => runOf[a] \in Runs
    /\ runOf[a] \in Runs \/ phase[a] = "resolving" => session[a] \in Sessions

(* An activation that has not begun has done nothing.                       *)
Fresh ==
  \A a \in Runs :
    /\ phase[a] \in {"idle", "resolving", "restoring"} => effects[a] = {}
    /\ phase[a] = "idle" => parent[a] = None

(* The outcome is chosen when the loop is left, and not before.             *)
OutcomeFits(a) ==
  /\ phase[a] \in {"idle", "resolving", "restoring", "evaluator", "starting",
                   "turn", "step", "exhausted", "handoff", "announce"} => outcome[a] = "none"
  /\ phase[a] = "rollback" => outcome[a] = "error"
  /\ phase[a] = "emit" => outcome[a] # "none"
  /\ phase[a] = "final" => outcome[a] \in {"succeeded", "cancelled"}

OutcomeFollowsPhase == \A a \in Runs : OutcomeFits(a)

----------------------------------------------------------------------------
(* The lifecycle implements the contract of RunContract.                   *)
StatusOf(a) == CASE phase[a] \in {"idle", "resolving", "restoring"} -> "new"
                 [] phase[a] = "refused"            -> "refused"
                 [] phase[a] \in {"hooks", "final"} -> "reported"
                 [] phase[a] = "settled"            -> "closed"
                 [] phase[a] \in {"threw", "dead"}  -> "lost"
                 [] OTHER                           -> "open"

VerdictOf(a) == IF phase[a] \in {"hooks", "final", "settled"}
                THEN Verdict(outcome[a]) ELSE "none"

Contract == INSTANCE RunContract WITH
              Calls   <- Runs,
              status  <- [a \in Runs |-> StatusOf(a)],
              verdict <- [a \in Runs |-> VerdictOf(a)]

(* Every activation is refused, or reports one verdict and then closes.     *)
ImplementsContract == Contract!Spec

(* ... and it does report, when the collaborators answer.                   *)
ImplementsFairContract == Contract!FairSpec

----------------------------------------------------------------------------
(* What comments and tests say of the kernel and the code does not do.     *)

(* tools/src/context.ts: the compensation of a tool runs when the run fails *)
(* "or is cancelled".                                                       *)
CancelIsUndone ==
  \A a \in Runs :
    phase[a] = "settled" /\ outcome[a] = "cancelled" => effects[a] = {}

(* run-loop.ts (RV-7): a run cancelled at any moment reports `cancelled`,   *)
(* never `succeeded` or `failed`.                                           *)
AbortAlwaysCancels ==
  [][\A a \in Runs :
       a \in aborted /\ phase[a] # "emit" /\ phase'[a] = "emit"
         => outcome'[a] = "cancelled"]_vars

(* An activation reports its end once.  Where a subscriber throws it may    *)
(* report a second one (SecondThoughts).                                    *)
TerminalOnce == \A a \in Runs : \A i, j \in Ends(a) : i = j

(* run-loop.ts (RV-7): "a run cancelled at any moment reports `cancelled`   *)
(* exactly once", never "a silent `succeeded` or a confusing `failed`": who *)
(* reports that he was cancelled reports nothing else.                      *)
CancelledIsAllItReports ==
  \A a \in Runs : \A i, j \in Ends(a) : EventOf(a, j) = "cancelled" => i = j

(* kernel.ts: every exit of a handoff continues the run or terminates it.   *)
NoExitLeavesTheRunActive ==
  \A a \in Runs : phase[a] \in {"settled", "threw"} => reg.aborts[runOf[a]] # a

============================================================================
