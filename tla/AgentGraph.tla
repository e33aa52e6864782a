------------------------------ MODULE AgentGraph ------------------------------
(***************************************************************************)
(* AgentGraph.execute (core/src/workflow/agent-graph.ts): a workflow of    *)
(* agents, transforms, conditions, sequences and parallel branches, walked *)
(* depth first along its edges.  A node is driven once and its promise     *)
(* shared by whoever comes to it again; a node on one's own path is a      *)
(* cycle.                                                                  *)
(*                                                                         *)
(* One call of execute on a graph that build accepts.  Code runs until its *)
(* first await, through the calls of runNode it makes: stack holds the     *)
(* nodes whose code is on the call stack, and while it is not empty        *)
(* nothing else runs.  Outputs and variables are left out.                 *)
(***************************************************************************)
EXTENDS Naturals, Sequences, FiniteSets

CONSTANTS Nodes, Graphs

Kind  == {"agent", "transform", "sequential", "parallel", "condition"}

(* steps: the steps of a sequence, the branches of a parallel node, the two *)
(* targets of a condition;  out: the targets of the outgoing edges, in order *)
Graph == [kind  : [Nodes -> Kind],
          steps : [Nodes -> Seq(Nodes)],
          out   : [Nodes -> Seq(Nodes)],
          entry : Nodes]

ASSUME GraphsAssumption == Graphs \subseteq Graph

VARIABLES
  graph,    \* the workflow
  node,     \* node -> where its drive is, what it has yet to walk, its path
  stack,    \* the call stack, innermost first
  aborted,  \* ctx.signal
  result,   \* of execute
  drives    \* node -> how often drive was called for it (history)

vars == <<graph, node, stack, aborted, result, drives>>

(* new: not in memo;  agent, condition: in the await of its own work;       *)
(* fanning: starting its branches;  joining: in allSettled;  walking: on    *)
(* the stack;  awaiting: at the promise of the first of todo                *)
Pc      == {"new", "agent", "condition", "fanning", "joining", "walking", "awaiting",
            "completed", "failed"}
Ended   == {"completed", "failed"}
OnStack == {"fanning", "walking"}

State == [pc : Pc, todo : Seq(Nodes), active : SUBSET Nodes]

At(pc, todo, active) == [pc |-> pc, todo |-> todo, active |-> active]
Elements(s) == {s[i] : i \in DOMAIN s}

Init == /\ graph   \in Graphs
        /\ node    = [n \in Nodes |-> At("new", << >>, {})]
        /\ stack   = << >>
        /\ aborted \in BOOLEAN
        /\ result  = "none"
        /\ drives  = [n \in Nodes |-> 0]

----------------------------------------------------------------------------
(* parallelTargets                                                          *)
Targets(n) == IF graph.steps[n] # << >> THEN graph.steps[n] ELSE graph.out[n]

(* drive up to its first await, or up to the first node it walks to.        *)
Started(n, active) ==
  IF aborted THEN At("failed", << >>, active)
  ELSE CASE graph.kind[n] = "agent"      -> At("agent", << >>, active)
         [] graph.kind[n] = "condition"  -> At("condition", << >>, active)
         [] graph.kind[n] = "transform"  -> At("walking", graph.out[n], active)
         [] graph.kind[n] = "sequential" -> At("walking", graph.steps[n] \o graph.out[n], active)
         [] graph.kind[n] = "parallel"   -> At("fanning", Targets(n), active)

(* Mutant: a node that failed is driven again.                              *)
RunNodeAgain(caller, active, t, below) ==
  IF t \in active \/ node[t].pc \notin {"new", "failed"}
  THEN /\ node'   = caller
       /\ stack'  = below
       /\ drives' = drives
  ELSE LET new == Started(t, active \cup {t})
       IN  /\ node'   = [caller EXCEPT ![t] = new]
           /\ stack'  = IF new.pc \in OnStack THEN <<t>> \o below ELSE below
           /\ drives' = [drives EXCEPT ![t] = @ + 1]

(* runNode called with the path active, by code whose drive is in caller    *)
(* afterwards, with below it on the stack: a cycle and a node in memo give  *)
(* a promise at once, another node is driven.  The code puts a node into    *)
(* memo when drive has come back from its first await, here it counts as    *)
(* there before: until then only code that drive itself called can ask for  *)
(* it, and that has it on its path, which is looked at first.               *)
RunNode(caller, active, t, below) ==
  IF t \in active \/ node[t].pc # "new"
  THEN /\ node'   = caller
       /\ stack'  = below
       /\ drives' = drives
  ELSE LET new == Started(t, active \cup {t})
       IN  /\ node'   = [caller EXCEPT ![t] = new]
           /\ stack'  = IF new.pc \in OnStack THEN <<t>> \o below ELSE below
           /\ drives' = [drives EXCEPT ![t] = @ + 1]

Running(n, pc) == stack # << >> /\ n = Head(stack) /\ node[n].pc = pc

(* A node goes on when nothing else runs.                                   *)
Settles(n, pc)     == stack = << >> /\ node[n].pc = pc
Continues(n, todo) == /\ node'  = [node EXCEPT ![n].pc = "walking", ![n].todo = todo]
                      /\ stack' = <<n>>
Fails(n)           == /\ node'  = [node EXCEPT ![n].pc = "failed"]
                      /\ stack' = << >>

----------------------------------------------------------------------------
(* execute                                                                  *)
Execute ==
  /\ result = "none"
  /\ result' = "running"
  /\ RunNode(node, {}, graph.entry, << >>)
  /\ UNCHANGED <<graph, aborted>>

Return ==
  /\ result = "running" /\ stack = << >> /\ node[graph.entry].pc \in Ended
  /\ result' = node[graph.entry].pc
  /\ UNCHANGED <<graph, node, stack, aborted, drives>>

(* A parallel node calls runNode for a branch; the paths of its branches    *)
(* are copies of its own.                                                   *)
Fans(n) ==
  /\ Running(n, "fanning") /\ node[n].todo # << >>
  /\ RunNode([node EXCEPT ![n].todo = Tail(@)], node[n].active, Head(node[n].todo), stack)
  /\ UNCHANGED <<graph, aborted, result>>

HasFanned(n) ==
  /\ Running(n, "fanning") /\ node[n].todo = << >>
  /\ node'  = [node EXCEPT ![n].pc = "joining"]
  /\ stack' = Tail(stack)
  /\ UNCHANGED <<graph, aborted, result, drives>>

(* Mutant: no cycle check: the node's own promise is awaited.               *)
RejectedOnlyByFailure(n, t) == node[t].pc = "failed"

(* The promise of t, as n got it: rejected for a cycle or a failure.        *)
Rejected(n, t)  == t \in node[n].active \/ node[t].pc = "failed"
Fulfilled(n, t) == t \notin node[n].active /\ node[t].pc = "completed"

(* Mutant: Promise.all in place of Promise.allSettled.                      *)
JoinsAtFirstFailure(n) ==
  /\ Settles(n, "joining")
  /\ \/ /\ \A t \in Elements(Targets(n)) : Fulfilled(n, t)
        /\ Continues(n, graph.out[n])
     \/ /\ \E t \in Elements(Targets(n)) : Rejected(n, t)
        /\ Fails(n)
  /\ UNCHANGED <<graph, aborted, result, drives>>

(* All branches have settled.                                               *)
Joins(n) ==
  /\ Settles(n, "joining")
  /\ \A t \in Elements(Targets(n)) : Rejected(n, t) \/ Fulfilled(n, t)
  /\ \/ /\ \A t \in Elements(Targets(n)) : Fulfilled(n, t)
        /\ Continues(n, graph.out[n])
     \/ /\ \E t \in Elements(Targets(n)) : Rejected(n, t)
        /\ Fails(n)
  /\ UNCHANGED <<graph, aborted, result, drives>>

(* runAgent of the executor settles.                                        *)
AgentAnswers(n) ==
  /\ Settles(n, "agent")
  /\ Continues(n, graph.out[n])
  /\ UNCHANGED <<graph, aborted, result, drives>>

AgentFails(n) ==
  /\ Settles(n, "agent")
  /\ Fails(n)
  /\ UNCHANGED <<graph, aborted, result, drives>>

(* chooseSuccessor: a condition goes to one of its targets and no further.  *)
Chooses(n, t) ==
  /\ Settles(n, "condition") /\ t \in Elements(graph.steps[n])
  /\ Continues(n, <<t>>)
  /\ UNCHANGED <<graph, aborted, result, drives>>

ConditionThrows(n) ==
  /\ Settles(n, "condition")
  /\ Fails(n)
  /\ UNCHANGED <<graph, aborted, result, drives>>

(* The next step or successor is run and awaited; the edges of a parallel   *)
(* node to its branches are passed over.                                    *)
IsBranch(n, t) == graph.kind[n] = "parallel" /\ t \in Elements(Targets(n))

Walks(n) ==
  /\ Running(n, "walking") /\ node[n].todo # << >> /\ ~ IsBranch(n, Head(node[n].todo))
  /\ RunNode([node EXCEPT ![n].pc = "awaiting"], node[n].active, Head(node[n].todo), Tail(stack))
  /\ UNCHANGED <<graph, aborted, result>>

PassesOver(n) ==
  /\ Running(n, "walking") /\ node[n].todo # << >> /\ IsBranch(n, Head(node[n].todo))
  /\ node' = [node EXCEPT ![n].todo = Tail(@)]
  /\ UNCHANGED <<graph, stack, aborted, result, drives>>

GoesOn(n) ==
  /\ Settles(n, "awaiting") /\ Fulfilled(n, Head(node[n].todo))
  /\ Continues(n, Tail(node[n].todo))
  /\ UNCHANGED <<graph, aborted, result, drives>>

BreaksOff(n) ==
  /\ Settles(n, "awaiting") /\ Rejected(n, Head(node[n].todo))
  /\ Fails(n)
  /\ UNCHANGED <<graph, aborted, result, drives>>

Completes(n) ==
  /\ Running(n, "walking") /\ node[n].todo = << >>
  /\ node'  = [node EXCEPT ![n].pc = "completed"]
  /\ stack' = Tail(stack)
  /\ UNCHANGED <<graph, aborted, result, drives>>

(* The signal: the host, or an agent as it is called.                       *)
Abort ==
  /\ ~ aborted
  /\ aborted' = TRUE
  /\ UNCHANGED <<graph, node, stack, result, drives>>

Drive(n) == \/ Fans(n) \/ HasFanned(n) \/ Joins(n)
            \/ AgentAnswers(n) \/ AgentFails(n)
            \/ \E t \in Nodes : Chooses(n, t)
            \/ ConditionThrows(n)
            \/ Walks(n) \/ PassesOver(n) \/ GoesOn(n) \/ BreaksOff(n) \/ Completes(n)

Next == \/ Execute
        \/ Return
        \/ \E n \in Nodes : Drive(n)
        \/ Abort

Spec == Init /\ [][Next]_vars

(* Code runs; agents and conditions settle.                                 *)
Fairness == WF_vars(Execute \/ Return \/ \E n \in Nodes : Drive(n))

FairSpec == Spec /\ Fairness

----------------------------------------------------------------------------
(* Properties.                                                              *)

(* Types of the workflow, its nodes and the call stack.                     *)
TypeOK ==
  /\ graph \in Graph
  /\ node \in [Nodes -> State]
  /\ stack \in Seq(Nodes)
  /\ aborted \in BOOLEAN
  /\ result \in {"none", "running", "completed", "failed"}
  /\ drives \in [Nodes -> Nat]
  /\ \A n \in Nodes : node[n].pc = "awaiting" => node[n].todo # << >>

(* A node is driven once, however many branches come to it, before or after *)
(* it has ended, and whether or not it failed (agent-graph.ts:154-170).     *)
DrivenOnce == \A n \in Nodes : drives[n] <= 1

(* When execute has returned no node is under way: a failed branch does not *)
(* leave its siblings running behind the caller (agent-graph.ts:200-205).   *)
NothingRunsOn ==
  result \in Ended => \A n \in Nodes : node[n].pc \in {"new"} \cup Ended

(* What a node must have run to be completed.                               *)
Owed(n) ==
  LET out == Elements(graph.out[n])
  IN  CASE graph.kind[n] \in {"sequential", "parallel"} -> Elements(graph.steps[n]) \cup out
        [] graph.kind[n] = "condition"                  -> {}
        [] OTHER                                        -> out

(* A workflow that is reported as completed has completed every node it     *)
(* started, and everything these lead to: no failure, cycle or abort is     *)
(* lost in a join (agent-graph.ts:203-245).                                 *)
CompletedIsWhole ==
  result = "completed" =>
    /\ \A n \in Nodes : node[n].pc \in {"new", "completed"}
    /\ \A n \in Nodes : node[n].pc = "completed" =>
         \A t \in Owed(n) : node[t].pc = "completed"

(* What execute returns is over, and whole if it says so.                   *)
ReturnedIsOver == NothingRunsOn /\ CompletedIsWhole

Leads(n) == Elements(graph.steps[n]) \cup Elements(graph.out[n])

Acyclic  == \E rank \in [Nodes -> 1 .. Cardinality(Nodes)] :
              \A n \in Nodes : \A t \in Leads(n) : rank[n] < rank[t]
Unforked == \A n \in Nodes : graph.kind[n] # "parallel"

(* A workflow without a cycle returns, and so does one with cycles if it    *)
(* has no parallel nodes: there each is found on the path.                  *)
Returns == Acyclic \/ Unforked => <>(result \in Ended)

(* "revisiting a node on the active path fails the workflow ... instead of  *)
(* recursing forever", "execute() never throws; validation/runtime errors   *)
(* surface as { status: failed, error }" (agent-graph.ts:51-56): every      *)
(* workflow returns.                                                        *)
EveryWorkflowReturns == <>(result \in Ended)
=============================================================================
