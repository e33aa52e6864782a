---------------------------- MODULE GraphExecutor ----------------------------
(***************************************************************************)
(* StateGraphExecutor and its checkpointer (durable-state/src/state/       *)
(* executor.ts, checkpoint.ts): a graph of nodes walked one node at a      *)
(* time, with a snapshot of the thread written around every node, over     *)
(* calls of run and resume, interrupts, failures and crashes.              *)
(*                                                                         *)
(* One thread of one graph.  The host calls run or resume on it one call   *)
(* at a time.  The channel values are the set of the updates merged into   *)
(* them by the reducers; an update is named after what made it.            *)
(***************************************************************************)
EXTENDS Naturals, Sequences, FiniteSets

CONSTANTS Nodes,       \* the node ids a graph may name
          Registered,  \* those with an implementation (addNode)
          None,        \* no snapshot yet
          MaxIssued    \* bound: nodes scheduled and host updates, together

ASSUME RegisteredAssumption == Registered \subseteq Nodes
ASSUME MaxIssuedAssumption  == MaxIssued \in Nat

Ids == 1 .. MaxIssued
Job == [id : Ids, node : Nodes]      \* an entry of the list next
Snapshot == [values : SUBSET Ids, next : Seq(Job), asks : SUBSET Ids]

ASSUME NoneAssumption == None \notin Snapshot

VARIABLES
  saved,    \* the latest snapshot of the thread: all that getTuple returns
  call,     \* the call of run or resume: its await and its local variables
  issued,   \* ids given out so far
  begun,    \* id -> how often its node has been called (history)
  due,      \* ids scheduled in this walk whose node has not returned (history)
  asked     \* ids whose node has interrupted (history)

vars == <<saved, call, issued, begun, due, asked>>

(* loading: getTuple;  checkpoint: the put before a node;  node: the node;  *)
(* recording: the put after a plain result;  closing: the last put          *)
Pc     == {"idle", "loading", "checkpoint", "node", "recording", "closing"}
Kind   == {"run", "rerun", "resume"}
Result == {"none", "completed", "unfinished", "interrupted", "failed"}

IdsOf(s) == {s[i].id : i \in DOMAIN s}
Entry(i, n) == [id |-> i, node |-> n]

NoCall == [pc        |-> "idle",
           kind      |-> "run",
           values    |-> {},
           next      |-> << >>,
           now       |-> 0,
           asks      |-> {},
           completed |-> FALSE,
           asking    |-> FALSE,
           result    |-> "none"]

Init == /\ saved  = None
        /\ call   = NoCall
        /\ issued = 0
        /\ begun  = [i \in Ids |-> 0]
        /\ due    = {}
        /\ asked  = {}

----------------------------------------------------------------------------
(* Mutant: the node is still in the list when the snapshot is taken.        *)
HeadKeepingNode(c) ==
  IF c.next = << >>
  THEN [c EXCEPT !.pc = "closing"]
  ELSE [c EXCEPT !.pc = "checkpoint", !.now = Head(c.next).id]

(* The head of the while loop: the next node is taken off the list, or, if  *)
(* there is none, the last snapshot is due; a node without implementation   *)
(* is an error.                                                             *)
LoopHead(c) ==
  IF c.next = << >>
  THEN [c EXCEPT !.pc = "closing"]
  ELSE IF Head(c.next).node \in Registered
       THEN [c EXCEPT !.pc = "checkpoint", !.now = Head(c.next).id, !.next = Tail(c.next)]
       ELSE [c EXCEPT !.pc = "idle", !.result = "failed"]

(* makeSnapshot and put.                                                    *)
Put == saved' = [values |-> call.values, next |-> call.next, asks |-> call.asks]

----------------------------------------------------------------------------
(* The host.                                                               *)

(* run without a checkpoint id: the initial state, and the entry node.      *)
Run(n) ==
  /\ call.pc = "idle" /\ issued < MaxIssued
  /\ call'   = LoopHead([NoCall EXCEPT !.next = <<Entry(issued + 1, n)>>])
  /\ issued' = issued + 1
  /\ due'    = {issued + 1}
  /\ UNCHANGED <<saved, begun, asked>>

(* run with a checkpoint id, and resume: the snapshot is read first.        *)
Reload(kind) ==
  /\ call.pc = "idle"
  /\ call' = [NoCall EXCEPT !.pc = "loading", !.kind = kind]
  /\ UNCHANGED <<saved, issued, begun, due, asked>>

(* A host writes a snapshot of its own (createSnapshot and put): a list of  *)
(* nodes to walk from the default values.                                   *)
Seed(first, second) ==
  /\ call.pc = "idle" /\ saved = None /\ issued + 2 <= MaxIssued
  /\ LET next == <<Entry(issued + 1, first), Entry(issued + 2, second)>>
     IN  /\ saved' = [values |-> {}, next |-> next, asks |-> {}]
         /\ due'   = IdsOf(next)
  /\ call'   = NoCall
  /\ issued' = issued + 2
  /\ UNCHANGED <<begun, asked>>

----------------------------------------------------------------------------
(* The executor.                                                           *)

(* What a call starts with: of the snapshot that getTuple returns, resume   *)
(* takes over the tasks as well (as resumed: asks only names them).         *)
Loaded ==
  [call EXCEPT !.values    = saved.values,
               !.next      = saved.next,
               !.asks      = IF call.kind = "resume" THEN saved.asks ELSE {},
               !.completed = (saved.next = << >>)]

Load ==
  /\ call.pc = "loading" /\ saved # None
  /\ call' = LoopHead(Loaded)
  /\ UNCHANGED <<saved, issued, begun, due, asked>>

(* resume with an update of the host.  Its resume value and its goto are    *)
(* not used.                                                                *)
LoadAndUpdate ==
  /\ call.pc = "loading" /\ call.kind = "resume" /\ saved # None
  /\ issued < MaxIssued
  /\ issued' = issued + 1
  /\ call'   = LET c == Loaded
               IN  LoopHead([c EXCEPT !.values = @ \cup {issued + 1}])
  /\ UNCHANGED <<saved, begun, due, asked>>

(* Mutant: the snapshot before a node is not written.                       *)
BeginUnsaved ==
  /\ call.pc = "checkpoint"
  /\ call'  = [call EXCEPT !.pc = "node"]
  /\ begun' = [begun EXCEPT ![call.now] = @ + 1]
  /\ UNCHANGED <<saved, issued, due, asked>>

(* The snapshot before a node is written and the node called.               *)
Begin ==
  /\ call.pc = "checkpoint"
  /\ Put
  /\ call'  = [call EXCEPT !.pc = "node"]
  /\ begun' = [begun EXCEPT ![call.now] = @ + 1]
  /\ UNCHANGED <<issued, due, asked>>

Merge(updates) == IF updates THEN call.values \cup {call.now} ELSE call.values

(* The node returns a plain delta: a snapshot is written after it.          *)
Returns ==
  /\ call.pc = "node"
  /\ call' = [call EXCEPT !.pc = "recording", !.values = Merge(TRUE)]
  /\ due'  = due \ {call.now}
  /\ UNCHANGED <<saved, issued, begun, asked>>

Recorded ==
  /\ call.pc = "recording"
  /\ Put
  /\ call' = LoopHead([call EXCEPT !.completed = (call.next = << >>)])
  /\ UNCHANGED <<issued, begun, due, asked>>

(* The node returns a command with a resume value, an update, both, or      *)
(* neither (graph): no snapshot is written.                                 *)
Commands(updates, resumes) ==
  /\ call.pc = "node"
  /\ call' = LoopHead([call EXCEPT
                !.values    = Merge(updates),
                !.completed = IF updates \/ resumes THEN call.next = << >> ELSE @])
  /\ due'  = due \ {call.now}
  /\ UNCHANGED <<saved, issued, begun, asked>>

(* Mutant: a goto is carried out as an update.                              *)
GoesNowhere(n, updates) ==
  /\ call.pc = "node" /\ issued < MaxIssued
  /\ issued' = issued + 1
  /\ call'   = LoopHead([call EXCEPT
                  !.values    = Merge(updates),
                  !.completed = (call.next = << >>)])
  /\ due'    = (due \ {call.now}) \cup {issued + 1}
  /\ UNCHANGED <<saved, begun, asked>>

(* The node returns a command with goto: the target comes first.            *)
GoesTo(n, updates) ==
  /\ call.pc = "node" /\ issued < MaxIssued
  /\ issued' = issued + 1
  /\ call'   = LoopHead([call EXCEPT
                  !.values    = Merge(updates),
                  !.next      = <<Entry(issued + 1, n)>> \o @,
                  !.completed = FALSE])
  /\ due'    = (due \ {call.now}) \cup {issued + 1}
  /\ UNCHANGED <<saved, begun, asked>>

(* The node interrupts: the loop is left.  Only run records the task.       *)
Interrupts ==
  /\ call.pc = "node"
  /\ call' = [call EXCEPT !.pc        = "closing",
                          !.asks      = IF call.kind = "resume" THEN @ ELSE @ \cup {call.now},
                          !.completed = FALSE,
                          !.asking    = TRUE]
  /\ asked' = asked \cup {call.now}
  /\ UNCHANGED <<saved, issued, begun, due>>

Outcome == IF call.asking THEN "interrupted"
           ELSE IF call.completed THEN "completed" ELSE "unfinished"

(* The last snapshot is written and the call returns.                       *)
Closed ==
  /\ call.pc = "closing"
  /\ Put
  /\ call' = [call EXCEPT !.pc = "idle", !.result = Outcome]
  /\ UNCHANGED <<issued, begun, due, asked>>

(* There is no snapshot to load, the node throws or names a channel that    *)
(* does not exist, a put is rejected, or the process dies: the call is      *)
(* gone, and the snapshot stays.                                            *)
Dies ==
  /\ call.pc # "idle"
  /\ call' = [call EXCEPT !.pc = "idle", !.result = "failed"]
  /\ UNCHANGED <<saved, issued, begun, due, asked>>

Next == \/ \E n \in Nodes : Run(n)
        \/ \E kind \in {"rerun", "resume"} : Reload(kind)
        \/ \E m, n \in Nodes : Seed(m, n)
        \/ Load
        \/ LoadAndUpdate
        \/ Begin
        \/ Returns
        \/ Recorded
        \/ \E updates, resumes \in BOOLEAN : Commands(updates, resumes)
        \/ \E n \in Nodes, updates \in BOOLEAN : GoesTo(n, updates)
        \/ Interrupts
        \/ Closed
        \/ Dies

Spec == Init /\ [][Next]_vars

----------------------------------------------------------------------------
(* Properties.                                                             *)

Call == [pc : Pc, kind : Kind, values : SUBSET Ids, next : Seq(Job), now : Ids \cup {0},
         asks : SUBSET Ids, completed : BOOLEAN, asking : BOOLEAN, result : Result]

(* Types of the executor, its call and the snapshot of the thread.          *)
TypeOK ==
  /\ saved \in Snapshot \cup {None}
  /\ call \in Call
  /\ issued \in 0 .. MaxIssued
  /\ begun \in [Ids -> Nat]
  /\ due \subseteq Ids
  /\ asked \subseteq Ids
  /\ call.pc \in {"checkpoint", "node", "recording"} => call.now \in Ids

(* A scheduled node is called at most once, whatever the crashes, rejected  *)
(* puts, reruns and resumes: the snapshot written before a node does not    *)
(* list it any more (executor.ts:101-117).  Nothing is said of a node that  *)
(* interrupted: the documents have it entered again                         *)
(* (ResumeReturnsToTheNode).                                                *)
AtMostOnce == \A i \in Ids \ asked : begun[i] <= 1

SavedValues == IF saved = None THEN {} ELSE saved.values

(* At most one update is at risk: whenever a call may die, its memory is    *)
(* ahead of the snapshot by no more than one update, although commands      *)
(* write no snapshot of their own (executor.ts:122-145).                    *)
OneUpdateAtRisk ==
  call.pc # "idle" => Cardinality(call.values \ SavedValues) <= 1

(* What is in the snapshot stays in it, over faults, resumes and reruns,    *)
(* until the host runs the graph from the beginning.                        *)
NothingIsTakenBack ==
  [][saved # None /\ call.kind # "run" => saved.values \subseteq saved'.values]_vars

(* A call of run that starts at its entry node and reports completed has    *)
(* called every node that was scheduled, through any gotos.  (For a call    *)
(* that starts from a snapshot see EmptyNextMeansCompleted.)                *)
RunCompletesTheWalk ==
  call.kind = "run" /\ call.result = "completed" => due = {}

(* What a call returns is what the thread holds: the snapshot has the       *)
(* values the caller was given, nothing more is scheduled in it than the    *)
(* caller knows of, and an interrupt that stopped run is on record.         *)
SnapshotIsTheResult ==
  call.pc = "idle" /\ call.result \in {"completed", "unfinished", "interrupted"} =>
    /\ saved # None
    /\ saved.values = call.values
    /\ call.result # "interrupted" => saved.next = << >>
    /\ call.kind # "resume" /\ call.result = "interrupted" => call.now \in saved.asks

(* The snapshot of a thread is never far behind its call, and level with   *)
(* it when the call returns.                                               *)
SnapshotKeepsUp == OneUpdateAtRisk /\ SnapshotIsTheResult

(* "Next node(s) to execute - empty array means completed", "Contains       *)
(* everything needed to resume execution" (checkpoint.ts:35,40): a call     *)
(* that reports completed leaves no scheduled node that has not returned.   *)
EmptyNextMeansCompleted == call.result = "completed" => due = {}

(* "On resume with `Command({ resume: value })`, the node that called       *)
(* interrupt() receives `value` as its return value" (interrupt.ts:88-90):  *)
(* when a resume reports completed, every node of the walk that             *)
(* interrupted has been entered again and has returned.                     *)
ResumeReturnsToTheNode ==
  call.kind = "resume" /\ call.result = "completed" => asked \cap due = {}
============================================================================
