------------------------------ MODULE ToolStep ------------------------------
(***************************************************************************)
(* The tool calls of a run and the saga that undoes them:                  *)
(* StepExecutor.executeToolCalls (step-executor/src/step-executor.ts) with *)
(* handleToolError, and ToolSaga (tools/src/saga.ts).                      *)
(*                                                                         *)
(* The calls of a step run side by side, as RunConcurrent does it: in      *)
(* order, at most Concurrency at a time, and the step is over when all     *)
(* have ended (TaskPool).  A call that fails rolls its step back; a run    *)
(* that fails rolls every step back.  Each rollback is a process of its    *)
(* own, suspended at the compensation it awaits.                           *)
(***************************************************************************)
EXTENDS Naturals, Sequences, FiniteSets

CONSTANTS Steps,        \* how many steps with tool calls the run takes
          Width,        \* tool calls in a step
          Concurrency,  \* maxConcurrentToolCalls
          Run           \* the run, as the process that calls rollbackAll

ASSUME StepsAssumption == Steps \in Nat \ {0}
ASSUME WidthAssumption == Width \in Nat \ {0}
ASSUME ConcurrencyAssumption == Concurrency \in Nat \ {0}
ASSUME RunAssumption == Run \notin (1 .. Steps) \X (1 .. Width)

Calls   == (1 .. Steps) \X (1 .. Width)
Walkers == Calls \cup {Run}
StepOf(c) == c[1]

VARIABLES
  step,       \* the step the run is in
  run,        \* what the run is doing
  signal,     \* why the AbortSignal of the step has fired, if it has
  call,       \* call -> how far it has come
  orphans,    \* calls whose execute() is still under way, though abandoned
  effects,    \* calls whose side effect is in the world
  undoable,   \* calls that have registered a compensation (history)
  saga,       \* the ToolSaga of the run
  walk,       \* process -> the rollback it is in
  called,     \* call -> how often its compensation has been called
  overlap     \* steps with two rollbacks, or a record in one (history)

vars == <<step, run, signal, call, orphans, effects, undoable, saga, walk,
          called, overlap>>

(* waiting: behind the concurrency limit                                    *)
(* gated:   policy, guards, approval and hooks that precede execute()       *)
(* hooked:  execute() has resolved; the hooks that follow it                *)
(* failing: handleToolError;  rolling: rollbackStep                         *)
Settled == {"refused", "succeeded", "failed"}
CallState == {"waiting", "gated", "executing", "hooked", "failing", "rolling"} \cup Settled
RunState == {"stepping", "rolling", "succeeded", "failed", "cancelled"}
Signal == {"none", "timeout", "abort"}

Idle == [todo |-> << >>, left |-> << >>]
EmptySaga == [steps         |-> [s \in 1 .. Steps |-> << >>],
              compensations |-> {},
              rolledBack    |-> {}]

Init == /\ step     = 1
        /\ run      = "stepping"
        /\ signal   = "none"
        /\ call     = [c \in Calls |-> "waiting"]
        /\ orphans  = {}
        /\ effects  = {}
        /\ undoable = {}
        /\ saga     = EmptySaga
        /\ walk     = [w \in Walkers |-> Idle]
        /\ called   = [c \in Calls |-> 0]
        /\ overlap  = {}

----------------------------------------------------------------------------
(* ToolSaga.rollbackStep and rollbackAll.                                  *)

Walking(s) == {w \in Walkers : walk[w].todo # << >> /\ Head(walk[w].todo) = s
                                /\ walk[w].left # << >>}

(* The steps with an entry, the last one first.                             *)
StepsDescending ==
  LET taken == {s \in 1 .. Steps : saga.steps[s] # << >>}
  IN  CHOOSE q \in [1 .. Cardinality(taken) -> taken] :
        \A i, j \in 1 .. Cardinality(taken) : i < j => q[i] > q[j]

Moved(w, state) == IF w = Run THEN call ELSE [call EXCEPT ![w] = state]

(* Mutant: the entries are visited first to last.                           *)
VisitForward(w, left, rolledBack) ==
  LET todo    == walk[w].todo
      pending == {i \in DOMAIN left : left[i] \in saga.compensations \ rolledBack}
      j       == CHOOSE i \in pending : \A k \in pending : i <= k
  IN  IF pending # {}
      THEN /\ walk'   = [walk EXCEPT ![w] = [todo |-> todo,
                           left |-> SubSeq(left, j + 1, Len(left)) \o <<left[j]>>]]
           /\ called' = [called EXCEPT ![left[j]] = @ + 1]
           /\ saga'   = [saga EXCEPT !.rolledBack = rolledBack]
           /\ UNCHANGED call
      ELSE /\ walk'   = [walk EXCEPT ![w] = [todo |-> Tail(todo), left |-> << >>]]
           /\ saga'   = [saga EXCEPT !.rolledBack = rolledBack,
                                     !.steps[Head(todo)] = << >>]
           /\ call'   = IF Tail(todo) = << >> THEN Moved(w, "failed") ELSE call
           /\ UNCHANGED called

(* The loop over the entries, from the last one down to the next that has a *)
(* compensation to call; when there is none, the step is deleted, with what *)
(* may have been recorded in it since the loop began.                       *)
Visit(w, left, rolledBack) ==
  LET todo    == walk[w].todo
      pending == {i \in DOMAIN left : left[i] \in saga.compensations \ rolledBack}
      j       == CHOOSE i \in pending : \A k \in pending : k <= i
      passed  == {left[i] : i \in {k \in DOMAIN left : \A p \in pending : k > p}}
  IN  IF pending # {}
      THEN /\ walk'   = [walk EXCEPT ![w] = [todo |-> todo, left |-> SubSeq(left, 1, j)]]
           /\ called' = [called EXCEPT ![left[j]] = @ + 1]
           /\ saga'   = [saga EXCEPT !.rolledBack = rolledBack \cup passed]
           /\ UNCHANGED call
      ELSE /\ walk'   = [walk EXCEPT ![w] = [todo |-> Tail(todo), left |-> << >>]]
           /\ saga'   = [saga EXCEPT !.rolledBack = rolledBack \cup passed,
                                     !.steps[Head(todo)] = << >>]
           /\ call'   = IF Tail(todo) = << >> THEN Moved(w, "failed") ELSE call
           /\ UNCHANGED called

(* rollbackStep(step): the entries are taken when it begins.                *)
EnterStep(w) ==
  /\ walk[w].todo # << >> /\ walk[w].left = << >>
  /\ LET s == Head(walk[w].todo)
     IN  IF saga.steps[s] = << >>
         THEN /\ walk' = [walk EXCEPT ![w].todo = Tail(@)]
              /\ call' = IF Tail(walk[w].todo) = << >> THEN Moved(w, "failed") ELSE call
              /\ UNCHANGED <<saga, called, overlap>>
         ELSE /\ Visit(w, saga.steps[s], saga.rolledBack)
              /\ overlap' = IF Walking(s) = {} THEN overlap ELSE overlap \cup {s}
  /\ UNCHANGED <<step, run, signal, orphans, effects, undoable>>

(* A compensation ends, fails or times out: all the same to the saga.       *)
CompensationEnds(w) ==
  /\ walk[w].left # << >>
  /\ LET left == walk[w].left
         last == Len(left)
     IN  Visit(w, SubSeq(left, 1, last - 1), saga.rolledBack \cup {left[last]})
  /\ UNCHANGED <<step, run, signal, orphans, effects, undoable, overlap>>

----------------------------------------------------------------------------
(* A tool call.                                                            *)

InFlight == {c \in Calls : call[c] \notin {"waiting"} \cup Settled}

Unmoved == UNCHANGED <<step, run, signal>>

BeginCall(c) ==
  /\ run = "stepping" /\ StepOf(c) = step /\ call[c] = "waiting"
  /\ Cardinality(InFlight) < Concurrency
  /\ \A d \in Calls : StepOf(d) = step /\ d[2] < c[2] => call[d] # "waiting"
  /\ call' = [call EXCEPT ![c] = "gated"]
  /\ Unmoved
  /\ UNCHANGED <<orphans, effects, undoable, saga, walk, called, overlap>>

(* Unknown tool, doom loop, external path, guard, permission, approval; or  *)
(* the task rejects before it executes anything.                            *)
Refuse(c) ==
  /\ call[c] = "gated"
  /\ call' = [call EXCEPT ![c] = "refused"]
  /\ Unmoved
  /\ UNCHANGED <<orphans, effects, undoable, saga, walk, called, overlap>>

RollBackOwn(c) ==
  /\ call' = [call EXCEPT ![c] = "rolling"]
  /\ walk' = [walk EXCEPT ![c].todo = <<StepOf(c)>>]

(* execute() is called whether or not the signal has fired; it is           *)
(* raceWithAbort, after it, that looks.                                     *)
Execute(c) ==
  /\ call[c] = "gated"
  /\ IF signal = "none"
     THEN call' = [call EXCEPT ![c] = "executing"] /\ UNCHANGED <<orphans, walk>>
     ELSE RollBackOwn(c) /\ orphans' = orphans \cup {c}
  /\ Unmoved
  /\ UNCHANGED <<effects, undoable, saga, called, overlap>>

ToolReturns(c) ==
  /\ call[c] = "executing" /\ signal = "none"
  /\ call' = [call EXCEPT ![c] = "hooked"]
  /\ \/ effects' = effects \cup {c} /\ undoable' = undoable \cup {c}
     \/ UNCHANGED <<effects, undoable>>
  /\ Unmoved
  /\ UNCHANGED <<orphans, saga, walk, called, overlap>>

(* The tool throws, or runs into its own timeout and is abandoned.          *)
ToolFails(c) ==
  /\ call[c] = "executing" /\ signal = "none"
  /\ call' = [call EXCEPT ![c] = "failing"]
  /\ orphans' \in {orphans, orphans \cup {c}}
  /\ Unmoved
  /\ UNCHANGED <<effects, undoable, saga, walk, called, overlap>>

(* Mutant: the call waits for its tool.                                     *)
AbandonNever(c) == FALSE /\ UNCHANGED vars

(* raceWithAbort rejects; handleToolError returns at once.                  *)
Abandon(c) ==
  /\ call[c] = "executing" /\ signal # "none"
  /\ RollBackOwn(c)
  /\ orphans' = orphans \cup {c}
  /\ Unmoved
  /\ UNCHANGED <<effects, undoable, saga, called, overlap>>

OrphanEnds(c) ==
  /\ c \in orphans
  /\ orphans' = orphans \ {c}
  /\ effects' \in {effects, effects \cup {c}}
  /\ Unmoved
  /\ UNCHANGED <<call, undoable, saga, walk, called, overlap>>

(* Mutant: the compensation is not registered.                              *)
RecordOnly(c) ==
  /\ call[c] = "hooked"
  /\ call' = [call EXCEPT ![c] = "succeeded"]
  /\ saga' = [saga EXCEPT !.steps[StepOf(c)] = Append(@, c)]
  /\ overlap' = IF Walking(StepOf(c)) = {} THEN overlap ELSE overlap \cup {StepOf(c)}
  /\ Unmoved
  /\ UNCHANGED <<orphans, effects, undoable, walk, called>>

Record(c) ==
  /\ call[c] = "hooked"
  /\ call' = [call EXCEPT ![c] = "succeeded"]
  /\ saga' = [saga EXCEPT !.steps[StepOf(c)] = Append(@, c),
                          !.compensations = IF c \in undoable THEN @ \cup {c} ELSE @]
  /\ overlap' = IF Walking(StepOf(c)) = {} THEN overlap ELSE overlap \cup {StepOf(c)}
  /\ Unmoved
  /\ UNCHANGED <<orphans, effects, undoable, walk, called>>

(* handleToolError is over.  If it rejected, the call fails without         *)
(* rolling anything back.                                                   *)
ErrorHandled(c) ==
  /\ call[c] = "failing"
  /\ \/ RollBackOwn(c)
     \/ call' = [call EXCEPT ![c] = "failed"] /\ UNCHANGED walk
  /\ Unmoved
  /\ UNCHANGED <<orphans, effects, undoable, saga, called, overlap>>

----------------------------------------------------------------------------
(* The run.                                                                *)

StepOver == \A c \in Calls : StepOf(c) = step => call[c] \in Settled

Fire(why) ==
  /\ run = "stepping"
  /\ signal # "abort" /\ signal # why
  /\ signal' = why
  /\ UNCHANGED <<step, run, call, orphans, effects, undoable, saga, walk,
                 called, overlap>>

StepTimeout == Fire("timeout")
Abort == Fire("abort")

(* The next step has a controller and a timer of its own.                   *)
NextStep ==
  /\ run = "stepping" /\ StepOver /\ signal # "abort" /\ step < Steps
  /\ step' = step + 1
  /\ signal' = "none"
  /\ UNCHANGED <<run, call, orphans, effects, undoable, saga, walk, called,
                 overlap>>

Leave(how) ==
  /\ run' = how
  /\ saga' = EmptySaga
  /\ UNCHANGED <<step, signal, call, orphans, effects, undoable, walk, called,
                 overlap>>

Succeed == run = "stepping" /\ StepOver /\ signal # "abort" /\ Leave("succeeded")

(* The finally block clears the saga before cancelRun rolls it back.        *)
Cancel == run = "stepping" /\ StepOver /\ signal = "abort" /\ Leave("cancelled")

Fail == /\ run = "stepping" /\ StepOver /\ signal # "abort"
        /\ run' = "rolling"
        /\ walk' = [walk EXCEPT ![Run].todo = StepsDescending]
        /\ UNCHANGED <<step, signal, call, orphans, effects, undoable, saga,
                       called, overlap>>

Failed == run = "rolling" /\ walk[Run] = Idle /\ Leave("failed")

----------------------------------------------------------------------------
(* What ends by itself.  A tool need not.                                   *)
Progress(c) ==
  \/ BeginCall(c) \/ Refuse(c) \/ Execute(c) \/ Abandon(c) \/ Record(c)
  \/ ErrorHandled(c)

Rollback(w) == EnterStep(w) \/ CompensationEnds(w)

Advance == NextStep \/ Succeed \/ Cancel \/ Fail \/ Failed

Next == \/ \E c \in Calls : Progress(c)
        \/ \E c \in Calls : ToolReturns(c) \/ ToolFails(c) \/ OrphanEnds(c)
        \/ \E w \in Walkers : Rollback(w)
        \/ Advance \/ StepTimeout \/ Abort

Spec == Init /\ [][Next]_vars

(* The step timer fires, and what is awaited beside the tools settles: a    *)
(* compensation has a timeout of its own.                                   *)
FairSpec == /\ Spec
            /\ \A c \in Calls : WF_vars(Progress(c))
            /\ \A w \in Walkers : WF_vars(Rollback(w))
            /\ WF_vars(Advance) /\ WF_vars(StepTimeout)

----------------------------------------------------------------------------
(* Type invariant.                                                         *)
TypeOK ==
  /\ step \in 1 .. Steps
  /\ run \in RunState
  /\ signal \in Signal
  /\ call \in [Calls -> CallState]
  /\ orphans \subseteq Calls /\ effects \subseteq Calls /\ undoable \subseteq Calls
  /\ saga.steps \in [1 .. Steps -> Seq(Calls)]
  /\ saga.compensations \subseteq Calls /\ saga.rolledBack \subseteq Calls
  /\ \A w \in Walkers : walk[w].todo \in Seq(1 .. Steps) /\ walk[w].left \in Seq(Calls)
  /\ called \in [Calls -> Nat]
  /\ overlap \subseteq 1 .. Steps

Registered == {c \in undoable : call[c] = "succeeded"}

(* No compensation is called twice, and a run that fails has called every   *)
(* one its calls registered, in every step that was rolled back by one      *)
(* process at a time with nothing recorded meanwhile.                       *)
UndoneExactlyOnce ==
  /\ \A c \in Calls : StepOf(c) \notin overlap => called[c] <= 1
  /\ run = "failed" =>
       \A c \in Registered : StepOf(c) \notin overlap => called[c] = 1

(* A side effect is undone because its run failed, or because a call of the *)
(* same step did: never on account of another step.                         *)
UndoneForAReason ==
  \A c \in Calls : called[c] > 0 =>
    \/ run \in {"rolling", "failed"}
    \/ \E d \in Calls : StepOf(d) = StepOf(c) /\ call[d] \in {"rolling", "failed"}

(* Side effects are undone as the fate of their step and run demands: all  *)
(* that must be, once, and nothing else.                                   *)
UndoneAsOwed == UndoneExactlyOnce /\ UndoneForAReason

(* Compensations are called in the reverse of the order of the entries: by  *)
(* then a later entry of the step has been undone.                          *)
UndoneInReverse ==
  [][\A w \in Walkers, c \in Calls :
       /\ called'[c] > called[c]
       /\ StepOf(c) \notin overlap'
       => LET entries == saga.steps[StepOf(c)]
          IN  \A i, j \in DOMAIN entries :
                entries[i] = c /\ i < j /\ entries[j] \in saga.compensations
                  => called[entries[j]] > 0]_vars

(* A tool that never returns does not keep its run from ending.             *)
RunEnds == <>(run \in {"succeeded", "failed", "cancelled"})

----------------------------------------------------------------------------
(* tools/src/context.ts: the compensation of a tool is called if the run    *)
(* fails.                                                                   *)
FailureCallsEveryCompensation ==
  run = "failed" => \A c \in Registered : called[c] > 0
=============================================================================
