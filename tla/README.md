# TLA+ models of the agent SDK

This directory holds TLA+ models of the run kernel of the SDK under `src/packages`:
what happens between `kernel.run(...)` and the verdict of the run, when runs, tools,
sub-agents, user inputs, approvals, model failures, aborts, timeouts, failing stores and
crashes interleave; of the two executors that stand beside it, the durable state
graph and the workflow of agents; and of what both talk through: the event buses, the
questions tools ask the user, and the connections to MCP servers.
TLC checks the models on small instances; TLAPS proves the results listed in
section 7 for every value of the constants.

`PROJECT.json` has the same information for tools: the components, the runs, a mutant
for each checked property (a small change of the modelled code under which the property
fails), the source lines each definition stands for, the hazards and the theorems.
Operators whose comment begins with "Mutant:" are those changed definitions; no
specification uses them.

Contents: 1 the system, 2 from code to model, 3 the modules, 4 the runs, 5 fairness,
6 what the code does and its documents do not say, 7 the proofs, 8 what is not modelled,
9 what would come next.

## 1. The system

The SDK runs language-model agents. A host creates an `AgentKernel` and calls `run`;
the kernel admits the run, alternates model calls and tool calls in a loop, records
events, messages and snapshots in a session store, and returns a result. It is
TypeScript on one event loop: callbacks do not preempt each other, and all concurrency is
between what separate async calls do *between their awaits*.

### Components modelled

| component | state | operations | talks to |
|---|---|---|---|
| Run registry (`step-executor/run-state.ts`) | run states, abort entries, busy sessions, pending inputs, retired runs (bounded) | `createRun`, `setState`, `cleanupRun`, `cancelAll`, `addPendingInput`, `drainPendingInputs` | called by kernel and run loop |
| Run lifecycle (`core/kernel/kernel.ts`, `run-loop.ts`) | per call of `runLoop`: signal, step counter, outcome; maps of the kernel by run id | `run`, `resumeRun`, loop, exits, `cancelRun`, abort, shutdown | registry, saga, store, model, tools |
| Delegation (`sub-agent-runner.ts`, `delegate-tool.ts`) | parent and child signals, depth and cycle counters | `runAgent`, `runAgentsParallel` | a tool call of the parent that starts a run |
| Handoff (`handoff.ts`) | swaps so far | `validateHandoff`, `record` | the run continues under another agent |
| Durable reload (`session/durable-reload.ts`) | the event log and snapshots | `restoreRunFromStore`, `findActiveSessionIds` | called before `resumeRun` |
| Tool step executor (`step-executor.ts`, `tool-error-router.ts`) | the calls of a batch, the controller of the step | `executeToolCalls`, `runConcurrent`, `handleToolError` | tools, saga, hooks |
| Tool saga (`tools/saga.ts`) | entries per step, compensations, what was rolled back | `record`, `registerCompensation`, `rollbackStep`, `rollbackAll`, `clear` | step executor and run loop |
| Pending inputs (`kernel.ts`, `run-state.ts`) | the queue of the run, the kernel's mirror of it, write chain, seq allocator, rows of the store | `sendInput`, `persistPendingInput`, `hydratePendingInputs`, `markInputsPromoted` | host, run loop, store |
| Model calls and circuit breaker (`guard/circuit-breaker.ts`, `processStep` of `run-loop.ts`) | the breaker of the run (state, failures, probes), the model in use, the step timer | `CircuitBreaker.call`, failover, compaction, the thinking pass | one await of the run's step; providers |
| Approvals (`step-executor/permission-gate.ts`, `approval-handler.ts`, `permission/saved.ts`, the asks of `self-correction.ts`) | rules, saved approvals and rejections, the count of asks per run, resolvers | `checkTool`, `handleApproval`, `askForTool`, `ctx.ask`, `resolveRequest` | tool calls of all runs of a kernel; users, hooks, the event log |
| Durable graph executor (`durable-state/state`) | the snapshot of a thread; per call: values, list of nodes, tasks | `run`, `resume`, `put`, `getTuple` | host, nodes, checkpointer |
| Agent graph (`core/workflow/agent-graph.ts`) | the memo of node promises, the path of each branch | `execute`, `runNode`, `drive` | agents (each a run), conditions |
| Event bus (`event/src/in-memory-bus.ts`, `global-bus.ts`) | listeners in order, the bounded durable list, per consumer a bounded queue and a generator | `publish`, `subscribe`, `durable`, `stream`, `streamWithReplay` | publishers, and handlers that publish and subscribe in turn |
| User interaction stores (`tools/question-store.ts`, `elicitation-store.ts`, `plan-store.ts`, `tool-context-builder.ts`) | requests, resolvers, timers | `askQuestion`, `askElicitation`, `askPlan`, `awaitReply`, `resolveRequest`, `cancelRequest` | tools, the user, the event log, the run's signal |
| MCP client and transports (`mcp/src/client.ts`, `transports/*`) | outstanding requests and timers; the stream and its endpoint; the child process and its one resolver | `request`, `close`, the readers of streams and lines | the server |

### Components not modelled

| component | what it is | why not |
|---|---|---|
| Sessions and event log (`session`) | stores, fork, replay | the other models append to them and read from them; replay is a fold with nothing concurrent in it |
| Session run coordinator (`core/session`) | one `activeRunId` slot around `createSession` and `run` | a thin layer in front of the admission that `RunLifecycle` models; one observation about it in section 6 |
| Language server pool (`lsp`) | spawn, reuse, restart | its client never reads an answer (section 6), so reuse and restart are states it does not reach |
| Kernel lifecycle resources, tracing | sequential start/stop; observers | nothing modelled depends on them |
| Model providers, `llm/retry.ts`, guards, guardrails, loop detection, knowledge, configuration, schema, browser tools | text and data conversion, files | no interleaving a model checker would add to |
| File tools (`tools/file-tools.ts`, `read-tracker.ts`) | a write is guarded by an earlier read of the file | what check, read and write see is up to the file system; their order is described in section 6 |
| Sandbox | operating-system processes | out of reach |

### What is hard here

`PROJECT.json` lists the hazards line by line. By theme:

* **Admission and release are separate.** `createRun` looks at the busy set, `cleanupRun`
  removes from it, several awaits and several exits apart; child runs and resumed runs
  pass the check on purpose. Correct: a session is occupied by one top-level run, and is
  free again whenever no run occupies it.
* **Many exits.** The loop is left by a final answer, a policy, the step limit, an
  exception, an abort, a rejected handoff; each one orders terminal event, hooks,
  snapshot, rollback and `saga.clear()` its own way, and any of those calls may throw into
  the catch block, the terminal event too, after it was appended. Correct: one verdict, the
  store tells it whatever was written before, side effects of a failed run undone.
* **Aborts** land between any two awaits. Correct: the run reports `cancelled`, and its
  sub-agents stop.
* **Compensation** is walked await by await while sibling calls still record new entries.
  Correct: each compensation is called once, in reverse.
* **`runConcurrent`** is a pool built from `Promise.race` and recursion. Correct: it
  returns, with every result, and never runs more tasks than its limit.
* **Inputs** are queued in memory and written to the store asynchronously, while another
  run may be reading the rows back. Correct: nothing accepted is lost, and inputs arrive
  in order, once.
* **Crashes** between any two writes. Correct: an unfinished run is still reported as
  active, and a graph continues where its snapshot says.
* **One timer and one breaker over many calls.** A step thinks, retries, sleeps, fails over
  and compacts, and the timer or an abort comes at any of these awaits. Correct: nobody is
  called in vain, the step ends, and the breaker's counters agree with its state throughout.
* **Approval is looked up in four places**, each with its own awaits, while calls of the
  same and of other runs save answers. Correct: a reply decides over its call, what is saved
  was said, what was rejected is not asked about again, and a run asks a bounded number of times.
* **A dispatch is re-entered.** Handlers publish, subscribe and unsubscribe inside the loop
  that calls them; consumers replay from a list that is trimmed meanwhile. Correct: what is
  given is given once and in order, and no consumer sleeps over an event.
* **An answer races timers, aborts and `close`** for one resolver, in the prompts and in
  the transports. Correct: each wait is settled once, by what was meant for it, and ends.
* **A memo shared by branches** that each check cycles on a path of their own. Correct: a
  node is driven once, a failure reaches the result, nothing runs on, and `execute` returns.

## 2. From code to model

* **A process is an async call** (a `runLoop` activation, a tool call, a rollback, a
  chain of writes). **An action is the code between two awaits.** The variable that says
  where a process is (`phase`, `call`, `walk`) names the await it is suspended at, and the
  action's guard is that await having settled the way the action's name says.
* A rejected promise is an action of its own, enabled where the awaited collaborator may
  reject (`Faults`, `MaxFaults`). Errors that the code swallows are swallowed in the same action.
* Data is abstracted to what the properties distinguish. A message is its number, a tool
  its position in the batch, a snapshot its step and status; text, formatting and logging
  are absent. Events that no property speaks of are not in `log`.
* History variables record what a property needs and the code does not keep: `effects`
  (what is in the world), `undoable`, `called`, `overlap` (ToolStep), `delivered`, `lost`,
  `disturbed` (PendingInputs), `tries`, `answers` (ModelCall), `said` (Approvals), `begun`,
  `due`, `asked` (GraphExecutor), `drives` (AgentGraph), `got`, `within`, `due`, `dropped`, `thrown`
  (EventBus), `said` (UserPrompts), `missed` (McpSse). No guard reads one to decide what the code does, with three
  exceptions: `lost` in `Written` stands for the settled promise of a failed write, and
  `undoable` in `Record` for the compensation the tool has handed over, and `got` in
  `Return` for what a consumer that comes back knows.

## 3. The modules

| module | models | state |
|---|---|---|
| `RunStateMachine` | the registry, as operators on a record `reg` | none of its own |
| `RunLifecycle` | kernel, run loop, delegation, handoff, reload; EXTENDS `RunStateMachine` | 15 variables |
| `RunContract` | abstract: what a call of `run` / `resumeRun` promises | `status`, `verdict` |
| `RunConcurrent` | `runConcurrent`, promise by promise | 5 variables |
| `TaskPool` | abstract: a bounded pool that returns after all its tasks | `begun`, `ended`, `returned` |
| `ToolStep` | `executeToolCalls`, `handleToolError`, `ToolSaga` | 11 variables |
| `PendingInputs` | inputs, their writes and their promotion | 20 variables |
| `ModelCall` | the model calls of a run's steps and its circuit breaker | 7 variables |
| `Approvals` | the permission gate, its callers and the saved decisions | 12 variables |
| `GraphExecutor` | the state graph executor and its checkpointer | 6 variables |
| `AgentGraph` | the workflow walk, promise by promise | 6 variables |
| `EventBus` | the bus in memory and the global bus | 11 variables |
| `UserPrompts` | what tools ask the user | 9 variables |
| `UserDialogs` | either way a run asks its user; EXTENDS `Approvals`, composes `UserPrompts` | 10 more variables |
| `McpClient` | a connection over one of three transports; composes the next three | 17 variables |
| `McpHttp`, `McpSse`, `McpStdio` | the transports; they share the requests, the map, the timers | (of `McpClient`) |
| `McpExchange` | abstract: what a transport promises its caller | `call` (the `caller` of `McpClient`), `closed` |
| `MC...` | model-checking instances (symmetry and a view where the run is safety only); `MCTools` has `ToolStep`, `RunConcurrent` and `McpClient`, one of them per behaviour | |
| `..._proofs` | theorems | |

`RunLifecycle` implements `RunContract` (`ImplementsContract`, `ImplementsFairContract`);
`RunConcurrent` implements `TaskPool` (`ImplementsPool`); over streamable HTTP `McpClient`
implements `McpExchange` (`ImplementsExchange`), and over the other two it does not. `ToolStep` schedules its calls
as `TaskPool` does, so it rests on that refinement in place of repeating the promises.
In `RunLifecycle` the saga is the set of steps that have a compensation, and
`rollbackAll` is one action (`RolledBack`); `ToolStep` opens that action up. In the same
way `RunLifecycle` knows nothing of inputs, which are `PendingInputs`; of the model
call in a step, which is `ModelCall`; and `ToolStep` has one refusal for what
`Approvals` opens up. `GraphExecutor` and `AgentGraph` stand beside the kernel: a node of
either is an await that settles. `UserPrompts` and `McpClient` are what a tool awaits while
its call is `executing` in `ToolStep`; `EventBus` is what the host and the UI listen to.

### RunLifecycle

| code | actions |
|---|---|
| `run`, `createRunHandle`, `createRun` | `Start` (admission or refusal, in one action: there is no await between) |
| `resumeRun` | `Restore` (reads snapshot and events), `Resume` (admission, with what was read, which another activation may have overtaken) |
| `runLoop` before its `try` | `EvaluatorReady`, `EvaluatorFails` |
| start of the loop | `Started`, `TurnStarted` |
| a step | `ToolSucceeds`, `StepEnds`, `StepThrows`, `StepHandsOff`, `EmissionFails` |
| exits | `FinalAnswer`, `PolicyStops`, `Exhausted`, `Catch` / `RolledBack`, `BeginCancel` |
| after the exit | `TerminalEmitted`, `TerminalFails`, `SucceededHooks`, `FailedHooks`, `CancelledHooks`, `FinalSnapshot` |
| handoff | `HandoffAccepted`, `HandoffRejected`, `HandoffAnnounced`, `HandoffThrows` |
| `runAgent` | `Delegate` (lookup), `StartChild` (after it), `ToolTimeout` |
| aborts | `HandleAbort` (the run's handle), `CancelAll` (shutdown); both reach the sub-agents whose parent is in a step |
| the process | `Crash`: memory is gone, `log` and `snapshot` stay |

An activation is named by a member of `Runs`; a resumed one has the run id of an earlier
one (`runOf`), with the step the snapshot gave; the session is the one of the snapshot, or
the one the host passes where no snapshot was written, which the model takes to be the
same. Its phases run `idle` → `evaluator` → `starting` → `turn` ⇄ `step` → an
exit → `emit` → `hooks` → `final` → `settled`, with `threw` for a rejected `runLoop` and
`dead` for a crash. `LoopHead` is the code between a step and the next: the step counter, the signal and the budget.

`Features` is what the host uses: `"resume"`, `"handoff"`, `"delegate"`, tools with a
compensation (`"undo"`), and whose session state a run takes (`run-loop.ts:1270`, operator
`FirstSteps`): none, so that it begins at step 0 after a handoff too (`"stateless"`), or that of
the kernel, whose step its runs share and nothing resets (`"shared"`). A resumed run and a
sub-agent have their own. `Faults` is who may reject or throw: the store (`"store"`; of
snapshots: `"snapshots"`, which is swallowed), the agent registry (`"registry"`), and a
subscriber of the bus (`"bus"`), whose exception comes out of the emission when the event has been
appended: `TerminalFails` then leaves the terminal event in the log and goes to the catch
block, to `finally` or past both, as the code does.

### RunConcurrent

An entry of the array `executing` is a task's promise chained to `next()`. `TaskEnds` is
the end of a task and the beginning of the next; `RaceWon` the resolution of an entry
waiting in `Promise.race`; `FirstSettled` the first `next()` returning to the caller;
`AllSettled` the end of the batch.

### ToolStep

A call goes `waiting` → `gated` → `executing` → `hooked` → settled, or `failing` → `rolling`
→ `failed`. `Abandon` is the race with the signal (the tool itself goes on in `orphans`
and may still take effect). `walk` holds for each rollback the steps it still visits and
the entries left in the step it is in; `CompensationEnds` is one awaited compensation, after
which the entry is marked and the next one looked up. The process `Run` is `rollbackAll`.

### PendingInputs

One session, its runs one after the other (`phase = "free"` between them). `SendInput` is
the synchronous part of `sendInput`; `Allocate` and `AddMessage` are the two awaits of a
write in the chain; `ListMessages` and `Hydrate` the two parts of `hydratePendingInputs`;
`Turn` drains the queue into the transcript; `Promote` goes through the drained entries,
each behind its own write. `Close` is `cleanupRun`, which drops the queue. `keeps` says
whether the kernel was given a session state; then `kept` is the step in it, written by
`Keep` where a step ends, and `Start` goes on from there.

### ModelCall

| code | actions |
|---|---|
| `CircuitBreaker.getState`, `onSuccess`, `onFailure` | operators `Current`, `OnSuccess`, `OnFailure` |
| `CircuitBreaker.call` up to its first await | operator `Call`: open, aborted, or the provider is called (`tries`) |
| its loop | `FailsUncounted`, `FailsOpening`, `FailsFinally`, `FailsAndWaits`, `FailsAborted`, `Retries`, `SleepAborted` |
| a step: guardrails, thinking pass, call | `BeginStep`, `GuardrailsPass`, `GuardrailDenies`, `ThinkingEnds`, `Answered`, `Leave` |
| the catch block: failover, compaction, rethrow | operator `Rejected`, `TryNext`; `Switched`, `SwitchFails`, `Compacted`, `CompactionFails` |
| timers and host | `StepTimer`, `ResetDue` (the breaker's reset time), `AbortRun` |

`Rejected(phase, e, open)` is the code from a rejected call to the next await, with one
disjunct per branch of the two catch blocks. An error is the three answers the code asks
of it: whether the breaker counts it, whether it is retryable, whether it is an overflow.

### Approvals

Three stages ask about a call: a guard (`Escalates`), the gate (`Judges`, then the hook of
`buildToolContext`, then `Handles`) and the tool itself (`ToolAsks`); `Corrects` is the
gate's part in the self-correction. Each comes to `AskForTool`, and from there to a dialog:
`Classified` (the classifier of mode auto), `Requested` (`permission.requested` is
written), `HookPasses` / `HookReplies` (`onPermissionAsk`), `Awaits` (`blocked_on_user` is written
and `awaitReply` entered), `UserReplies`, `HostCancels`, `TimesOut`, `AbortRun`, `Replied`
(`permission.replied` is written), `StoreFails`. `Concludes` is what the caller makes of a reply;
`Says`, in the actions of a hook, a user and `cancelRequest`, is what somebody replied, which a
timeout, an abort and the valve are not.
`Configures` changes rules and mode at any moment. A scope is what a decision is saved for:
the whole tool, or the tool with one path or command.

### GraphExecutor

`Run` and `Reload` are the calls of the host, `Seed` a snapshot it wrote itself. `Load` and
`LoadAndUpdate` follow `getTuple`; `Begin` is the put before a node and the call of the
node; `Returns`, `Commands`, `GoesTo` and `Interrupts` are the ways it returns; `Recorded` is
the put after a plain result, `Closed` the last one. `Dies` is an exception, a rejected put or
the end of the process, at any of them. `LoopHead` is the head of the `while`. An entry of
the list has an id besides its node, so that two visits of a node are told apart; `asked` are the
visits that interrupted.

### AgentGraph

Here code runs *through* the calls of `runNode` up to their first await, so that the
order in which branches meet the memo matters: `stack` holds the nodes whose code is on the
call stack, and no promise settles while it is not empty. `RunNode` is `runNode`
(cycle, memo, or a new drive), `Started` is `drive` up to its first await. (`runNode` puts the
promise into the memo when `drive` has come back from there; until then only code called by it can
ask for the node, and that meets the cycle check first.) `Fans`, `HasFanned`,
`Joins` are a parallel node and its `allSettled`; `AgentAnswers` / `AgentFails` and `Chooses` /
`ConditionThrows` the awaits of an agent and a condition; `Walks`, `PassesOver`, `GoesOn`,
`BreaksOff`, `Completes` the loop over steps and successors; `Abort` the signal. The path
`active` of a node is fixed when it is driven, by the branch that came first.

### EventBus

`publish` is a loop over listeners that may publish, subscribe and unsubscribe, so the
dispatches under way are a stack, `frames`. `Publish` begins one; `CallStream` is the
handler of a consumer (append to its queue, drop the oldest from a full one, wake it),
`CallSubscriber` / `HandlerReturns` / `HandlerThrows` one of the host, between which `Free` lets
host code run; `DispatchEnds` pops it. The bus in memory walks its live list of listeners and
keeps a durable event before its dispatch; the global bus walks the emitter's copy, keeps the
event after, and lets an exception out. A consumer is a generator: `Begin`, `Replay` (`durable`),
`GoLive` and `Advance` (`stream`) go from one await or yield to the next, between dispatches;
`Abort`, `Leave` and `Return` are its signal, its `break` and its coming back after the last
event it has.

### UserPrompts

Per ask: `Ask`, `Requested` (the event with the request is stored, the user can see it),
`Blocked` (`blocked_on_user`), `AwaitReply` (looks at the signal, registers the resolver), one of
`UserReplies`, `HostCancels`, `TimesOut`, `AbortRun`, then `Replied` (the event that clears the
card). `EventFails` is a store that rejects at any of the three events. The three functions and
their stores are the same code three times; an ask stands for a call of any of them.

### McpClient

`McpClient` chooses the transport in `ClientInit` and composes the three modules by INSTANCE.

| transport | a request is | actions |
|---|---|---|
| `McpHttp` | an entry, a timer and a `fetch` in the background, which neither timer nor `close` stops | `Request`, `HeadersCome`, `Answers`, `Fails`, `Timer`, `Close` |
| `McpSse` | a wait for the endpoint, a POST, its body, then an entry in the map | `Request`, `EndpointWaited`, `PostReturns`, `BodyAnswers`, `BodyEnds`, `PostFails`, `Timer`; the stream: `Connected`, `ConnectFails`, `Endpoint`, `Deliver`, `StreamFails`, `StreamEnds`; `Close` |
| `McpStdio` | a timer and *the* resolver, which belongs to the last request | `Request`, `Line`, `Timer`, `ChildDies`, `Close` |

The server (`ServerGets`, `ServerAnswers`) is external: it answers in any order, on either
connection, late or never.

## 4. The runs

The runs `bus_lifecycle`, `cancel_undo` and `graph_resume` state what a document or a comment
says and show the behaviour in which the code does otherwise (section 6); all others pass.

| run | question | instance |
|---|---|---|
| `lifecycle` | Do admission, terminal events, snapshots, saga and registry agree, and does every activation follow the contract, with resume, handoffs, aborts, a rejecting store and registry, throwing subscribers, and a crash? | 2 activations, 1 session, 2 steps, 1 handoff, 1 crash, 1 retained run |
| `live` | When awaits settle and nothing rejects, does every admitted run report, does every session become free, and is every sub-agent that outlives its parent's step told to stop? | 2 activations, delegation and handoff, 2 steps, every kind of session state |
| `tools` | Steps: is every compensation of a failed run called once, in reverse, for a reason, and does a tool that never returns leave the run free to end? Batches: is `runConcurrent` a bounded pool that returns every result? Servers: does what a transport keeps of a request go exactly when its caller stops waiting, does every request that was sent end, and does streamable HTTP keep the promise of `McpExchange`? | 2 steps of 2 calls, limit 2; or 7 tasks, limit 3; or 3 requests over one of 3 transports |
| `pending_inputs` | Is no accepted input lost, do rows keep the order of admission, is every row promoted in the end? | 3 inputs, 2 steps, 1 handoff, 2 faults, with and without a session state of the kernel |
| `model_call` | Does a step say what happened to it, is nobody called in vain, does the breaker close only after its probes, does every step end? | 4 steps, 3 models, 1 retry, threshold 3, 2 probes, compactor |
| `approvals` | Approvals: does a reply decide over its call whatever comes after it, is what is saved what was said, does no ask begin over what a no covers, is the valve kept, every dialog cleared? Prompts: is each wait settled once, by its own answer, and every card cleared? | 3 calls (one of the whole tool; one of a path in another run, escalated and cautious; a correction on that path), 2 runs, 2 scopes, 2 asks; or 3 prompts of 2 runs, one with a timeout, one with a store that may reject |
| `graph` | Is a scheduled node called once, is one update at most at risk, is what a call returns what the thread holds? | 5 scheduled nodes or updates, one node without implementation |
| `agent_graph` | Is a node driven once, does nothing run on, is completed whole, does `execute` return? | 2592 workflows of 4 nodes, chosen in `Init` |
| `bus` | Is a consumer given what was published once, in order, without gaps on the global bus; does it never sleep over an event, and does it end once it heard of its abort? | both buses, 1 replaying consumer, 1 handler, 4 events, a durable list and a queue of 2 |
| `bus_lifecycle` | violated: `CancelledIsAllItReports` | 1 activation, 1 step, throwing subscribers |
| `cancel_undo` | violated: `CancelIsUndone` | 2 activations |
| `graph_resume` | violated: `ResumeReturnsToTheNode` | 3 scheduled nodes or updates |

A property that has several sides is one name with a conjunct for each, defined and explained
above it in the module: `StoreTellsTheEnd` (`LastWord`, `SecondThoughts`, `SnapshotFollowsEvent`),
`UndoneAsOwed` (`UndoneExactlyOnce`, `UndoneForAReason`), `OrderIsKept` (`SeqsFollowAdmission`,
`InOrderOnce`), `SnapshotKeepsUp` (`OneUpdateAtRisk`, `SnapshotIsTheResult`), `OutcomeIsTrue`
(`TimeoutSparesTheRun`, `UnavailableIsTrue`), `RepliesAreSound` (`AnswersDecide`, `SavedIsSaid`),
`ReturnedIsOver` (`NothingRunsOn`, `CompletedIsWhole`), `RepliesAreOwn` and `GivenOnceInOrder`.

The run `approvals` explores the two machines that `UserDialogs` composes, `Approvals` and
`UserPrompts`, one per behaviour (`asking`): the stores of approvals and of questions share no step and no state, so their
product would show nothing that the sum does not. In the same way `tools` explores `ToolStep`,
`RunConcurrent` and `McpClient` (`part`): what one of them does is for the others one await.
`ToolRunEnds` and `BatchReturns` are `RunEnds` and `Terminates` of the modules, each for its own behaviours.

The run `lifecycle` counts states up to the names of activations and up to `LiveView`: when an
activation is over, its step, its handoffs, its `resumed` and its signal are not looked at by any
action or property of that run.

**Why these bounds.** The lifecycle hazards are between two activations of one session
(a second one that is admitted too early, a resume of the first, a child), so two activations on
one session meet all of them. An abort and a subscriber that throws happen
to one of them. Two steps distinguish the first, the last and the step after
the limit; one retained run makes the registry evict; one crash is one restart, with
whatever had been written by then. `runConcurrent` needs more tasks than twice its limit
for an entry to settle while later ones are being begun by earlier chains: 7 and 3 have
that, and the proofs cover every other pair. In `ToolStep` two calls are a failing one and
its sibling, and two steps show whether rollback crosses steps. In `PendingInputs` three
inputs have one before, one inside and one after a hydration, and two faults are a failure
and its repetition during recovery. In `ModelCall` a retry makes two attempts of every
call, so that the third failure of the threshold falls into a failover or into the next
step; two probes are one that closes nothing and one that does; four steps are enough to
open, to probe twice and to fail again. In `Approvals` the three calls have one of each
way to come to a dialog, two of them in one run (they share a count and an abort), two
of them with one scope (they share a decision), and the third of the whole tool in another run, so
that a no to it meets the look-up of the executor (`approval-handler.ts:52`), of `ctx.ask` and of the
correction, each of a run it was not given in; the policies and modes left out of the run
take a subset of the paths of the ones in it, and a tool the gate leaves to itself (`SelfApproving`,
empty in the run) goes the way of an allowed call. Five
entries let `GraphExecutor` go from a seeded pair over two gotos to an update on resume;
above that the proofs speak. Four nodes are two branches, a node where they
join or cross, and the entry they may lead back to. In `EventBus` four events are two over the
limit of the durable list and of the queue, so that a list is trimmed twice between two
yields, and two dispatches can be nested with a third event between them; consumers do not
look at each other, so one suffices, and the handler is who changes the listeners under
a dispatch. In `McpClient` three requests are the two that race for one resolver
and the one that comes after a death or a close. Three prompts are two that share a run and
its abort, and one of another run whose store rejects.

Types are proved (section 7), so most runs spend nothing on them. Where the invariant also says
what keeps listeners, maps, timers and resolvers in step with the code that waits
(`EventBus!TypeOK`, `McpClient!KeptWhileAwaited`, `RepliesAreOwn`) it is checked as well.

**Properties stated with an exclusion.** `UndoneExactlyOnce` and
`UndoneInReverse` leave out the steps in `overlap`: two rollbacks at once, or a record
during one. Inside an overlap the code does call compensations twice, or not at all
(section 6). `UndoneExactlyOnce` speaks of calls that settled as succeeded: a tool that was
abandoned registers no compensation. `InOrderOnce` leaves out inputs in `disturbed`: found
queued or unwritten by a hydration, or caught by a failed promotion or a crash.
`StoredInputsArePromoted` leaves out a kernel whose session state has come to stay at the step
limit. `LastWord` and `SecondThoughts` allow for the second terminal event that a
throwing subscriber causes. `RunCompletesTheWalk` speaks of calls of `run` from an entry node; what a call from a
snapshot reports is `EmptyNextMeansCompleted`, and `AtMostOnce` says nothing of a node that
interrupted (section 6). `NeverAskedAgain` is of asks that begin after the no: one whose
classifier was being awaited opens its dialog (section 6); and not of the ask that a guard
forces, which looks at no saved rejection. `DialogsAreCleared` and `CardsAreCleared` leave out asks that threw,
for which nothing clears the screen. `ExclusiveSession` is of runs without
delegation, `NobodyIsSkipped` of the global bus, `DoneEnds` of consumers that heard of their abort,
`OnceEach` of the bus in memory, each because the code does not keep the rest (section 6).
`Returns` leaves out workflows that have a
parallel node *and* a cycle (section 6). `TimeoutSparesTheRun` leaves out the thinking
pass and the call after a compaction, which have no handler for the timer.

**Deadlock** checking is off where the system may stop: all activations have ended
(`RunLifecycle`), the batch, the run or the workflow has returned (`RunConcurrent`,
`ToolStep`, `ModelCall`, `AgentGraph`), all calls are settled and all runs aborted
(`Approvals`), all events are published, all requests settled (`EventBus`, `McpClient`). It is on for `PendingInputs` and `GraphExecutor`, where a session and a
thread can always be used again.

## 5. Fairness

* `RunLifecycle!Fairness`: weak fairness of each activation's steps. An await of the loop
  settles: a step is bounded by its timeout, the store and the hooks are assumed to
  answer. Nothing is assumed of the host (`Start`, `Resume`, `Delegate`, aborts, crash).
  The run `live` has no rejections, since after one of them a session really may stay busy
  (`NoExitLeavesTheRunActive`, section 6).
* `RunConcurrent`: tasks end and promise jobs run. A task of `executeToolCalls` ends
  because it races the abort signal of its step, which `ToolStep` models.
* `ToolStep`: the step timer fires, and gates, hooks, error handling and compensations
  settle (`rollbackStep` races each compensation against five seconds). **No** fairness
  for the tools: `ToolRunEnds` holds although a tool may never return.
* `PendingInputs`: writes and the steps of a run go on, and the session is used again,
  so `StoredInputsArePromoted` says that the *next* run picks up what one left behind. It
  does not assume that faults stop; `MaxFaults` bounds them.
* `ModelCall`: the step timer and the backoff fire, and guardrails, stores and compactors
  settle. A provider is trusted to settle only after its signal was aborted: `StepEnds`
  holds although a provider may hang.
* `Approvals`: one weak fairness condition per call, for the asks under way: classifiers,
  hooks and the store settle and the timeout fires. Nobody is assumed to reply, to cancel or
  to abort, and the host may change the rules forever.
* `AgentGraph`: code runs, and agents and conditions settle, one way or the other (an
  agent's run ends, as `RunLifecycle` says). The signal may come or not.
* `EventBus`: handlers return and `publish` is a loop (one condition for the dispatch), and a
  consumer that is given an event asks for the next one (one per consumer). Nothing is
  assumed of publishers, of aborts or of consumers coming back.
* `McpClient`: a timer that is armed fires, that of a POST and of its body too, and a
  promise that has settled continues. **No** fairness for the server: it may never answer,
  never name its endpoint, end its streams or die. Hence `RequestsEnd` begins where a request
  has been sent.
* `UserPrompts`: the session store settles and the timers that were configured fire. The
  user need not answer, the host need not cancel or abort: `CardsAreCleared` speaks of asks
  that have a timer or whose run was aborted.
* `GraphExecutor` has no liveness property: a graph may go to itself forever.

## 6. Where code and documents disagree

### The runs with an expected violation

`PROJECT.json` quotes the lines.

* `bus_lifecycle`: an event is published after it was appended (`kernel-session.ts:48`, `:163`), and
  the shipped `GlobalEventBus` throws what a subscriber throws (`global-bus.ts:77`). A throw on the
  terminal event goes to the catch block of the loop (`run-loop.ts:1617-1632`): an aborted run
  appends `cancelled` after `succeeded` (or after `failed`), another one `failed` after `succeeded`,
  although `run-loop.ts:1173-1177` says that a cancelled run reports `cancelled` exactly once and
  nothing else. `StoreTellsTheEnd` says what is left of it: no more than two, the last one true, no
  late success.
* `cancel_undo`: `return cancelRun(...)` is not awaited (`run-loop.ts:1276`), so the `finally` block
  clears the saga before `rollbackAll`; a cancelled run undoes nothing, though
  `tools/src/context.ts:140` says that compensations run on cancellation.
* `graph_resume`: the node that interrupts is in no list of nodes (`executor.ts:99`) and `resume` reads
  of its command nothing but the update (`executor.ts:189-213`): it reports completed without having
  called the node again, though `interrupt.ts:88-90`, `docs/api/durable-state.en.md:192` and
  `packages/durable-state/README.md:172` say that the node is entered again and receives the value.

### Stated, violated, and not among the runs

These properties are in the modules with the text they come from, but not in a cfg. To see
the counterexample, put the property into a copy of the cfg of its module, with the values
given here where there are any (a property of `McpSse` or `McpStdio` as `Sse!` / `Stdio!`, one of
`UserPrompts` as `Prompts!`, each through a definition in the MC module).

| property | the code does | values |
|---|---|---|
| `RunLifecycle!ExclusiveSession` | a delegated child shares its parent's session and its cleanup frees it (`run-state.ts:115`): a second top-level run is admitted beside the parent | `Runs = {a, b, c}`, `Features = {"delegate"}`, `MaxHandoffs = 0`, `Faults = {}` |
| `RunLifecycle!NoExitLeavesTheRunActive` (`kernel.ts:1609`) | if the store rejects `agent.handoff` or the registry lookup rejects, the run stays active and its session busy | `Features = {"handoff"}`, `Faults = {"store"}` |
| `RunLifecycle!AbortAlwaysCancels` (RV-7, `run-loop.ts:1173`) | an abort that lands on the last `turn.end` or in the rollback of the catch block is reported as `succeeded` or `failed` | `Features = {}`, `Faults = {}` |
| `RunLifecycle!TerminalOnce` | a subscriber that throws on the terminal event makes the catch block append a second one (see `bus_lifecycle`) | those of `bus_lifecycle` |
| `ToolStep!FailureCallsEveryCompensation` (`context.ts:140`) | an entry recorded while `rollbackStep` awaits is deleted with the step (`saga.ts:70`) and never compensated | 1 step, 3 calls: one rolls back, one has succeeded, one is about to |
| `PendingInputs!AdmissionOrderExactlyOnce` (RV-21, `kernel.ts:1430`) | hydration queues a row again whose input is already in the queue, or puts it behind a newer one; no fault is needed | 2 inputs, 1 handoff |
| `PendingInputs!EveryStoredInputIsPromoted` (`run-loop.ts:1417-1421`: an input is "answered in this run instead of leaking into (or being lost before) the next one") | with a session state of the kernel every run goes on from the step of the last (`run-loop.ts:1270`), which nothing resets: once it is at the limit no run takes a step, and what is in the store is never promoted | those of `pending_inputs` |
| `ModelCall!FailoverCalls` (`run-loop.ts:579`) | every candidate is called through the one breaker of the run (`run-loop.ts:624`): once it is open `llm.failover` announces models that are refused without a call. With the defaults (threshold 5, 3 retries) the four attempts of the primary and the first of the first candidate open it | those of `model_call`, under `Spec` |
| `Approvals!NoDialogAfterRejection` (`permission-gate.ts:567`) | the look-up of saved rejections comes before the classifier is awaited (`permission-gate.ts:369-382`): a rejection saved during that await does not keep the dialog from opening | `Policies = {"risk"}`, `Modes = {"auto"}` |
| `Approvals!RejectionsAreTheUsers` (`permission-gate.ts:566`) | a rejection that comes of the abort of the run or of the valve is saved like one of the user and decides over the calls of later runs | `Policies = {"risk"}`, `Modes = {"ask"}`, `MaxAsks = 3` |
| `GraphExecutor!EmptyNextMeansCompleted` (`checkpoint.ts:35`: "empty array means completed"; `:40`) | the node under way is in no snapshot (`executor.ts:99`): after an interrupt, a failure or a crash `resume` reports completed without having called it again | `MaxIssued = 3` |
| `EventBus!NobodyIsEverSkipped` (`in-memory-bus.ts:63`) | the loop of the bus in memory runs over the live list: a handler that unsubscribes makes it pass over the next listener | |
| `EventBus!OnceEachOnAnyBus` (`in-memory-bus.ts:116`) | the global bus keeps an event after its dispatch, so that nested publishes are kept in reverse order, and coming back after the last event known repeats some or passes over others | |
| `EventBus!AbortEnds` (`types.ts:35`) | a signal that fired before the stream listened to it is never heard of | |
| `EventBus!NothingBetween` (`docs/api/event.en.md:81`) | events between the end of the replay and the first look of the live part are in neither | |
| `EventBus!ReplayIsWhole` (`in-memory-bus.ts:116`) | the replay goes on by position; a trim between two yields makes it pass over events that are kept | |
| `McpSse!AnswersAreTaken` (`sse.ts:85`) | an answer on the stream before the POST has returned finds no entry, and its request waits for its timer | |
| `McpSse!CloseRejects` | `close` rejects the entries of the map; a request at its POST or body goes on, and may wait for a closed stream | |
| `McpStdio!OwnAnswer` | there is one resolver for all calls: an answer goes to whoever asked last | |
| `UserPrompts!AnswersAreHeard` | a reply between the event of the request and `awaitReply` finds no resolver and is dropped | |
| `UserPrompts!ListedIsAwaited` | requests are added to the list and never removed (`question-store.ts:54`) | |
| `AgentGraph!EveryWorkflowReturns` (`agent-graph.ts:51-56`) | two parallel branches that lead to each other await each other's memo promise: neither path has the cycle, `execute` never settles, not even after an abort | those of `agent_graph` |

### Seen while modelling

No document makes a claim about these, and no run checks them.

* **Runs.** A session state given to the kernel carries its step from run to run (`kernel.ts:755`,
  `:1062`; `run-loop.ts:1270`): a later run may begin at the limit, takes no step and is
  reported as failed for too many steps. The branch of a handoff (`run-loop.ts:1402-1411`) does not look at the signal, so an
  aborted run may be handed off before it ends as cancelled, or fail for a rejected handoff. A refused `resumeRun` of a live run overwrites and deletes that run's abort
  entry, so that `cancelAll` misses it; a `setState` after retirement brings an evicted entry
  back. After a crash of a *resumed* run the earlier terminal event may hide it from
  `findActiveSessionIds`. A rejected evaluator lookup (before the `try` of the loop) leaves the
  session busy; `BusyIsAccountedFor` allows for that in its second disjunct.
* **Tools.** Two failed calls of a step that roll back at the same time call a compensation
  twice. Queued calls of an aborted run still start their tools, and what an abandoned
  tool does later is never undone.
* **Inputs.** Between the last look at the queue and `setState("completed")` `sendInput`
  returns true to a run that will not answer; with a store the next run does.
* **Delegation.** `runAgent` starts each child run with depth 0 and an empty chain, so
  `maxSubAgentDepth` and the cycle check never see more than one level (the setting is
  documented in `kernel-types.ts:181` and `docs/getting-started/configuration.en.md:70`). Two
  concurrent `runAgent` calls save and restore `rc.agent` and `rc.depth` around awaits
  (`sub-agent-runner.ts:129-176`), so the parent may be left with a child's agent.
* **Session coordinator.** If `createSession` rejects in `startRun`, `activeRunId` stays
  `"pending"` and no further run is accepted.
* **State graph.** `getTuple` ignores the checkpoint id it is given; `resume` does not use the
  goto of its command; an interrupt in a call of `resume` is not recorded in the
  tasks; a command with `graph` alone leaves `completed` false; nothing bounds gotos; two
  calls on one thread at a time are not excluded.
* **Model calls.** An abort of the run during a failover still sets the models of later
  candidates and emits `llm.failover` for them. A step timeout in the thinking pass or in
  the call after a compaction fails the whole run. The thinking pass has no failover. The
  kernel passes none of the thresholds of `circuitBreakerOptions` on (`kernel.ts:258-275`).
* **Approvals.** A reply between `permission.requested` and `awaitReply` finds no resolver, is
  dropped, and the dialog runs into its timeout, which is saved as a rejection. The shell
  tool asks for itself and what it is told is not saved as a rejection (`shell-tool.ts:111`);
  the file tools ask a second time for a path outside the workspace (`file-tools.ts:163`). The
  check of an input that a plugin changed does not ask where approval is needed.
* **Event bus.** A handler that throws on the global bus throws out of `publish`: later
  listeners miss the event and the durable list never gets it. A Redis adapter subscribes to
  the channel it publishes on (`global-bus.ts:56`), so local listeners hear each event twice.
* **MCP.** The wait for the SSE endpoint has no timeout (`sse.ts:285`), and a stream that ends,
  as opposed to one that fails, rejects nobody. The stdio transport takes any line with an id, a
  request of the server too, for the answer to its last request, and goes on writing
  to a process that died by itself, so that those calls run into their timers.
* **File tools.** `write_file` goes from `assertWasRead` over reading the old content and
  `setCompensation` to the write, each behind an await (`file-tools.ts:251-261`): calls of one batch on
  the same file can pass the check together, and the compensation of the second restores
  the text of the first. The tracker does not take note of the tool's own write, so a second
  write needs another read. The compensation of a write to an existing empty file
  removes it (`file-tools.ts:255`). A patch of several files is written file by file, after one
  compensation for all.
* **Workflow.** A node where branches join runs with the variables of the branch that
  came first, and the others never see its output in theirs (`agent-graph.ts:271-278`), so
  what later nodes see depends on timing.
* **Language servers.** `handleMessage` (`lsp/src/client.ts:371-387`) gets its input line by
  line, without line ends, and then looks for `"\r\n\r\n"`: `initialize` always times out, the process
  is left running, and since no entry is made the retry limit (`pool.ts:332-338`) never applies.

## 7. The proofs

**Assumptions** are the named `ASSUME`s of the modules, and no others: bounds and limits are
naturals (`MaxSteps`, `Steps`, `Width` and the concurrency of `ToolStep` positive; in
`RunConcurrent` a limit of zero is allowed); `None` and `Run` differ from what they stand
beside; `Features` has not both delegation and resume; `Registered`, `Graphs`, `Policies`,
`Modes`, `Faults` and the maps of calls to runs and scopes are of their types. `Runs`,
`Sessions`, `Models`, `Nodes`, `Calls` and `Scopes` are any sets. TLC evaluates the
assumptions in every run. Of the buses (`BusAssumption`): limits and counts are naturals, those of
the durable list and of the queues positive, and no consumer is a subscriber; of the transports:
their names, and that `None` is no request (`NoneAssumption`, `TransportsAssumption`); of the
prompts (`AsksOfRuns`): each has a run. `Streams`, `Subscribers`, `Requests` and `Asks` are any sets.

| theorem | says |
|---|---|
| `RunLifecycle_proofs!TypeCorrect` | `Spec => []TypeOK` |
| `RunLifecycle_proofs!BusyAccounted` | a busy session is owed to a run that occupies it or one that threw |
| `RunLifecycle_proofs!OneRunPerSession` | without `"delegate"`, one top-level run per session |
| `RunLifecycle_proofs!FailureUndone` | a run that settles as failed has no side effects left |
| `RunLifecycle_proofs!AbortIsSeen` | an aborted run leaves its loop as cancelled (or for a handoff, whose branch does not look at the signal) |
| `RunLifecycle_proofs!SubAgentsStop` | a sub-agent that outlives its parent's step, or whose parent was aborted, was told to stop |
| `RunLifecycle_proofs!LastWordHolds` | the last terminal event of an activation that goes on is its verdict |
| `RunLifecycle_proofs!SecondThoughtsHold` | a second terminal event is there only where a subscriber throws, is the last, and no success |
| `RunLifecycle_proofs!OneTerminalEvent` | where no subscriber throws (`"bus" \notin Faults`), an activation writes one terminal event at most |
| `RunLifecycle_proofs!EventComesFirst` | a terminal snapshot has its event in the log, whatever throws |
| `RunLifecycle_proofs!LifecycleImplementsContract` | `Spec => Contract!Spec` |
| `RunLifecycle_proofs!EndIsTold` | `Spec => []StoreTellsTheEnd`, from `LastWordHolds`, `SecondThoughtsHold` and `EventComesFirst` |
| `StepExecutor_proofs!PoolTypesHold` | `PoolSpec => []PoolTypes`, the types of `RunConcurrent` |
| `StepExecutor_proofs!AllResults` | `runConcurrent` returns only after every task has ended |
| `StepExecutor_proofs!RunConcurrentIsAPool` | `PoolSpec => Pool!Spec`, every count and limit |
| `StepExecutor_proofs!TypesHold` | `Spec => []TypeOK` of `ToolStep` |
| `StepExecutor_proofs!OnceEach` | outside overlaps each compensation of a failed run is called once |
| `StepExecutor_proofs!InReverse` | outside overlaps later entries are undone first |
| `StepExecutor_proofs!ForAReason` | a compensation is called for a failed call of its step, or for a failed run |
| `StepExecutor_proofs!AsOwed` | `Spec => []UndoneAsOwed`: once, and for a reason |
| `PendingInputs_proofs!TypesHold` | `Spec => []TypeOK` |
| `PendingInputs_proofs!SeqsInOrder` | rows have distinct seqs in the order of admission |
| `PendingInputs_proofs!NothingLost` | an accepted input is in a transcript, or will be found, or its write failed or died |
| `PendingInputs_proofs!DeliveredInOrder` | undisturbed inputs are delivered in order, once |
| `PendingInputs_proofs!KeptInOrder` | `Spec => []OrderIsKept`: rows and deliveries together |
| `ModelCall_proofs!TypesHold` | `Spec => []TypeOK` |
| `ModelCall_proofs!BreakerIsSound` | the breaker's state and its counters agree |
| `ModelCall_proofs!TimeoutIsOfTheStep` | a step timer fails the run only from the awaits that have no handler for it |
| `ModelCall_proofs!UnavailableMeansOpen` | `model_unavailable` is said only with a breaker that is not closed |
| `ModelCall_proofs!AskedWithReason` | no provider is called after an abort or against an open breaker |
| `ModelCall_proofs!ProbedBeforeClosed` | a breaker closes only after `SuccessThreshold` answers |
| `ModelCall_proofs!OutcomeHolds` | `Spec => []OutcomeIsTrue`: what a step that ends says is so |
| `Approvals_proofs!TypesHold` | types, and a resolver exists exactly while its call waits |
| `Approvals_proofs!AnswersHold` | `Spec => []AnswersDecide`: nothing that comes after a reply takes its place, and a no is the end of a call |
| `Approvals_proofs!StoreIsSound` | `Spec => []SavedIsSaid`: approvals and rules go back to an "always" somebody said about the scope, rejections to a call that the gate refused and nobody had given leave |
| `Approvals_proofs!ValveHolds` | a run opens at most `MaxAsks` dialogs |
| `Approvals_proofs!RejectionIsTerminal` | once a dialog of the gate has ended with a no, no ask begins, at the gate or by a tool, for another call it covers |
| `Approvals_proofs!RepliesHold` | `Spec => []RepliesAreSound`: the two of them together |
| `Approvals_proofs!RepliesAreOwnHolds` | `AskSpec => []RepliesAreOwn`: a wait for the user is settled once, by what was meant for it |
| `GraphExecutor_proofs!TypesHold` | `Spec => []TypeOK` |
| `GraphExecutor_proofs!CalledAtMostOnce` | a scheduled node is called once at most |
| `GraphExecutor_proofs!CompletedRunIsComplete` | a run that reports completed called everything it scheduled |
| `GraphExecutor_proofs!LosesOneUpdate` | a call that dies loses one update at most |
| `GraphExecutor_proofs!ResultIsSaved` | what a call returns is what the thread holds |
| `GraphExecutor_proofs!SavedUpdatesStay` | outside a call of `run`, no saved update is taken back |
| `GraphExecutor_proofs!KeepsUp` | `Spec => []SnapshotKeepsUp`: one update at risk, and the result is saved |
| `AgentGraph_proofs!TypesHold` | `Spec => []TypeOK` |
| `AgentGraph_proofs!DrivenOnceHolds` | a node is driven once |
| `AgentGraph_proofs!NothingRunsOnHolds` | when `execute` has returned nothing runs on |
| `AgentGraph_proofs!CompletedIsWholeHolds` | completed means that all that was reached has completed |
| `AgentGraph_proofs!ReturnedIsOverHolds` | `Spec => []ReturnedIsOver`: nothing runs on, and completed is whole |
| `Channels_proofs!BusTypesHold` | `Spec => []TypeOK` of `EventBus`: types, limits, and who is registered |
| `Channels_proofs!GivenOnceInOrderHolds` | a consumer is given events in order, but for nested ones, and in memory once |
| `Channels_proofs!NobodyIsSkippedHolds` | on the global bus, who listened when an event was published has it, or is still to be called, or lost it to a limit or an exception |
| `Channels_proofs!KeptHolds` | `ClientSpec => []KeptWhileAwaited`, over each transport |
| `Channels_proofs!ExchangeImplemented` | `ClientSpec => Exchange!Spec`: streamable HTTP settles each request once, and `close` all of them |

Each proof finds an inductive invariant, shows that every action keeps it, with one step
per action, and derives the property. Why the properties alone are not inductive:

* **Types of the lifecycle** (`TypeInv`): `TypeOK` needs that a suspended activation has a
  run id and a session (`Identified`), that one not begun has done nothing (`Fresh`), and
  that the outcome fits the phase (`OutcomeFollowsPhase`: otherwise `Verdict` would be
  applied to an exit not taken). The other proofs of the module start from it.
* **Sessions**: `BusyIsAccountedFor` is inductive over `TypeInv`: each exit removes the
  session in the same action in which its activation stops occupying it. For exclusivity
  (`SessionInv`) one adds the converse, that what a run occupies is busy, so that
  `createRun` refuses the second one. With delegation the converse is false
  (section 6); hence the hypothesis.
* **Undo** (`UndoInv`): a failing exit undoes what the saga knows, so one needs
  `EffectsAreCovered`: while a run can still fail, each side effect has a compensation.
  Cancelled runs are outside of it, which is `cancel_undo`.
* **Delegation** (`DelegateInv`): delegation is one level deep and a parent is not idle, so an
  abort that reaches the children of whom it reaches reaches them all, and a child that
  starts late reads the signal of a parent that is still there.
* **Events** (`SaidInv`, `EndInv`): a snapshot is terminal only behind the `emit` of the
  activation that wrote it, which a crash cannot undo. `EndsFit` says how many terminal events an
  activation has at each of its awaits: none before it has chosen an outcome, one at most in the catch block
  and in a cancellation (and that one only of a throwing subscriber), and its verdict last once it goes on.
* **Contract**: every disjunct of `Next` maps to `Refuse`, `Admit`, `Tell`, `Close`,
  `Lose` or a stutter under `StatusOf` / `VerdictOf`, given `TypeInv`.
* **`runConcurrent`**: the key (`IndexInv`) is that an entry resolves only after the last
  task has begun; therefore `allSettled` sees every entry although it takes the array once.
  `WidthInv` counts the tasks under way against the entries that began them, which gives
  the bound of the pool.
* **Saga** (`Shape`, `UndoInv` of `StepExecutor_proofs`): the books come first. Entries and what
  a rollback has left are calls that have succeeded in that step, no entry is listed twice,
  the compensations are those of the calls that succeeded with one (`Book`), and a call that
  is rolling has its own step to do, the run all of them (`Control`). On top of it stands the
  `Frontier` of a rollback: what it has left is a beginning of the entries; the last of it has
  been called once and is not yet marked, what precedes it is untouched, what follows it
  has been called. With one rollback at a time that gives "once" and "in reverse"
  together; `ToUndo` says that a failed run has no step left when it is done.
* **Inputs** (`SeqInv`, `FormInv`, `KeptInv`, `OrderedInv`): what is still to be written
  follows, in order, what has been (`WritesInv`), and the allocator is above every row
  whenever it is known, and, while a hydration is suspended with the allocator unknown,
  above what it has read (`AllocInv`). `KeptInv` says for each place an input can be in which
  place it came from and which comes next; `OrderedInv` that the queue is in order and
  behind what was delivered. `Hydrate` lists a *set* of rows by seq: that such a list
  exists is an induction on the number of rows, done over the set of numbers for which it holds.
* **Breaker** (`Sound`, `StepInv`): `Sound` is an assertion about a breaker and a count, so
  that one lemma per operator (`Current`, `OnSuccess`, `OnFailure`) serves every action.
* **Approvals** (`Registered`, `InOrder`, `Heard`, `RefusalIsSaved`, `Counted`): resolvers are those
  of the waiting calls; the asks of a call come one after the other (`InOrder`), so that what was said
  at one of them is not confused with what is said at the next; leave is never anything but a reply
  (`Heard`), which a refusal may be; every no of a dialog of the gate is in the store; and a dialog is
  counted before it opens, so the valve bounds the calls that have started one.
* **Graph** (`OnceInv`, `WalkInv`, `RiskInv`, `CloseInv`): the ids in the list of the call and
  in the snapshot are distinct and their nodes not yet called; all that was scheduled from an
  entry is called, listed or dead; and values and snapshot differ by one update at most.
* **Workflow** (`PlaceInv`, `PathInv`, `OwedInv`): `PlaceInv` says what awaits whom.
  `PathInv(S, X)` says that a node in state `S` is on a path from the entry whose nodes wait, or
  are in `X`: with the live states it gives that nothing runs on, with the failed ones that a
  failure reaches the entry. `OwedInv` says what a node that has come past a successor
  knows of it.

* **Prompts** (`PromptInv`): an ask that is past the event with its request is shown
  (`AskedAreShown`); the rest is that a resolver, its wait and what was said to it go together. `Approvals` and `UserPrompts` share no step, so a behaviour of `UserDialogs`
  is one of `Approvals` (`ApprovalsWithin`) and its theorems hold of the composition.
* **Buses** (`BInv`): the stack of dispatches is in the order of its events (`Stacked`), what is
  published during a dispatch is within it, and so is all that lies between (`Nested`). In this
  order stand, pair by pair, what a consumer was given, what waits in its queue (`HeardInOrder`),
  the durable list (`KeptInOrder`) and what a replay has yet to read (`ReplaysInOrder`). That
  nothing is given twice in memory needs `StillNew`: a stream whose turn in the live list is still
  to come has not heard of the event; it survives removals since those only move listeners to
  the front. That nobody is skipped on the global bus is `Accounted`, by the emitter's copy,
  and needs that a copy holds no stream that is over (`CopiesLive`). The conjuncts were
  model-checked on the instance of `bus` first.
* **Transports**: the agreement of map, timers, resolver and waits is inductive by itself,
  one lemma per transport (`HttpKeeps`, `SseKeeps`, `StdioKeeps`). Under streamable HTTP every step is
  `Send`, `Settle` or `Close` of `McpExchange` or a stutter (`HttpExchanges`): a late answer, failure or
  timer finds no entry, which is what `KeptWhileAwaited` says.

**Only model-checked**: liveness (`ImplementsFairContract`, `SessionsAreReleased`,
`BatchReturns`, `ToolRunEnds`, `StoredInputsArePromoted`, `StepEnds`, `DialogsAreCleared`,
`CardsAreCleared`, `Returns`, `DoneEnds`, `RequestsEnd`), which the prover does not reach, and the
violations of section 6. `McpExchange` has no fairness: that its requests end is `RequestsEnd`. Every
safety and action property and every refinement without fairness that a passing run checks is
proved, `ExclusiveSession` without delegation, as in its run.

## 8. Not modelled within the modelled components

* Tracing is assumed not configured (it adds an await before the end of a run).
* In `RunLifecycle` and `ToolStep` a model call, its failover and its compaction are inside
  a step; `ModelCall` opens them up. The gates before `execute()` are one refusal;
  `Approvals` opens the permission part of it up. What a step makes of an answer (text,
  claim repair, structured output) is left out of all of them.
* Delegation is one level deep and not combined with resume (`FeaturesAssumption`): a live
  run that is resumed while its child works would have two loops sharing the kernel's maps.
  The code starts a child with depth 0 and an empty chain (section 6), so deeper levels
  repeat the first. `runAgentsParallel` starts children as `runAgent` does.
* A step of `ToolStep` has one batch of calls; what the self-correction executes is not
  in the saga and not in the model. The text of results and messages is left out.
* `PendingInputs` has a session store; without one there is only the queue. The runs of
  the session follow each other, which is what `ExclusiveSession` is about. They take the session state of
  the kernel or none: a run with one of its own (`run` with `sessionState`, `resumeRun`) is left out, and so
  is another session that moves the step of the kernel's.
* The early window of `hydratePendingInputs` (an input sent before the store is read)
  exists only where something is awaited before it: an evaluator lookup or a handoff.
  The model has both (`entering`).
* `ModelCall` is one run, hence one breaker; a provider given by the host's overrides and
  `llm/src/retry.ts`, which the loop does not use, are left out.
* `Approvals` has one tool and one agent. A rule is what it says of that tool; globs, the
  asks of loop detection and the second check of an input that a plugin changed are
  left out, and `pendingRequests`, which only reads the store, is no action.
* `GraphExecutor` has the memory checkpointer, one call on a thread at a time, and channels
  that collect the set of updates; a reducer is a fold over it. Streaming events are left out.
* `AgentGraph` is one call of `execute`; outputs, variables and the retries inside an agent
  are left out.
* `EventBus` has one durable event type and one aggregate; projectors, namespaces, `clear` and
  `reset`, and the Redis bridge are left out. A handler is synchronous, as `callHandler` and
  the emitter take it.
* `McpClient` leaves out `notify`, tool discovery and naming, the id of the HTTP session and its
  DELETE, and what a server asks of the client.
* `UserPrompts` leaves out a context without a store, which answers `cancel` at once, and
  `presentSurface`, which asks nothing.

## 9. What would come next

* **Tools of the self-correction in the saga**, once the code records them: they would be
  one more batch in `ToolStep`.
* **The session coordinator** on top of `RunContract`: its slot is freed whenever
  `createSession` or `run` rejects. The code does not free it (section 6), so the property
  would be a violation until it does.
* **Nested delegation**, once depth and chain are handed to the child: a tree of runs,
  bounded in depth, in which an abort reaches every descendant.
* **The language server pool**, once its client reads an answer: one process per
  workspace, restarted a bounded number of times.
* **File tools**: check, read, compensation and write of calls that share a file, with
  the saga of `ToolStep` on top.
* **Replay**: that a fold over the events of a run gives the messages its snapshot
  counts.
