-------------------------- MODULE AgentGraph_proofs --------------------------
(***************************************************************************)
(* For every set of workflows: nodes are driven once, execute returns only *)
(* when none is under way, and completed means that everything completed.  *)
(***************************************************************************)
EXTENDS AgentGraph, TLAPS

(* A new drive has a place, a list and the path it was given.               *)
LEMMA StartedType ==
  ASSUME TypeOK, NEW n \in Nodes, NEW active \in SUBSET Nodes
  PROVE  /\ Started(n, active) \in State
         /\ Started(n, active).pc \in {"agent", "condition", "walking", "fanning", "failed"}
         /\ Started(n, active).active = active
<1>1. /\ graph.kind[n] \in Kind
      /\ graph.steps[n] \in Seq(Nodes) /\ graph.out[n] \in Seq(Nodes)
  BY DEF TypeOK, Graph
<1>2. graph.steps[n] \o graph.out[n] \in Seq(Nodes)
  BY <1>1
<1>3. Targets(n) \in Seq(Nodes)
  BY <1>1 DEF Targets
<1>4. CASE aborted
  BY <1>4 DEF Started, At, State, Pc
<1>5. CASE ~ aborted /\ graph.kind[n] = "agent"
  BY <1>5 DEF Started, At, State, Pc
<1>6. CASE ~ aborted /\ graph.kind[n] = "condition"
  BY <1>6 DEF Started, At, State, Pc
<1>7. CASE ~ aborted /\ graph.kind[n] = "transform"
  BY <1>1, <1>7 DEF Started, At, State, Pc
<1>8. CASE ~ aborted /\ graph.kind[n] = "sequential"
  BY <1>2, <1>8 DEF Started, At, State, Pc
<1>9. CASE ~ aborted /\ graph.kind[n] = "parallel"
  BY <1>3, <1>9 DEF Started, At, State, Pc
<1> QED BY <1>1, <1>4, <1>5, <1>6, <1>7, <1>8, <1>9 DEF Kind

LEMMA HeadAndTail ==
  ASSUME NEW s \in Seq(Nodes), s # << >>
  PROVE  /\ Head(s) \in Nodes /\ Tail(s) \in Seq(Nodes)
         /\ Elements(s) = {Head(s)} \cup Elements(Tail(s))
<1>1. /\ Head(s) = s[1] /\ Head(s) \in Nodes /\ 1 \in DOMAIN s
      /\ Tail(s) \in Seq(Nodes)
      /\ DOMAIN s = 1 .. Len(s) /\ DOMAIN Tail(s) = 1 .. Len(s) - 1 /\ Len(s) \in Nat
      /\ \A i \in 1 .. Len(s) - 1 : Tail(s)[i] = s[i + 1]
  OBVIOUS
<1>2. ASSUME NEW i \in DOMAIN s, i # 1  PROVE s[i] \in Elements(Tail(s))
  <2>1. i - 1 \in DOMAIN Tail(s) /\ Tail(s)[i - 1] = s[i]
    BY <1>1, <1>2
  <2> QED BY <2>1 DEF Elements
<1>3. ASSUME NEW i \in DOMAIN Tail(s)  PROVE Tail(s)[i] \in Elements(s)
  <2>1. i + 1 \in DOMAIN s /\ Tail(s)[i] = s[i + 1]
    BY <1>1
  <2> QED BY <2>1 DEF Elements
<1>4. Elements(s) \subseteq {Head(s)} \cup Elements(Tail(s))
  BY <1>1, <1>2 DEF Elements
<1>5. Elements(Tail(s)) \subseteq Elements(s)
  BY <1>3 DEF Elements
<1> QED BY <1>1, <1>4, <1>5 DEF Elements

LEMMA ElementsOfSeq ==
  ASSUME NEW s \in Seq(Nodes)
  PROVE  Elements(s) \subseteq Nodes
<1>1. \A i \in DOMAIN s : s[i] \in Nodes
  OBVIOUS
<1> QED BY <1>1 DEF Elements

LEMMA ElementsOfConcat ==
  ASSUME NEW s \in Seq(Nodes), NEW t \in Seq(Nodes)
  PROVE  Elements(s) \cup Elements(t) \subseteq Elements(s \o t)
<1>1. /\ DOMAIN (s \o t) = 1 .. Len(s) + Len(t)
      /\ DOMAIN s = 1 .. Len(s) /\ DOMAIN t = 1 .. Len(t) /\ Len(s) \in Nat /\ Len(t) \in Nat
      /\ \A i \in 1 .. Len(s) + Len(t) : (s \o t)[i] = IF i <= Len(s) THEN s[i] ELSE t[i - Len(s)]
  OBVIOUS
<1>2. ASSUME NEW i \in DOMAIN s  PROVE s[i] \in Elements(s \o t)
  <2>1. i \in DOMAIN (s \o t) /\ (s \o t)[i] = s[i]
    BY <1>1
  <2> QED BY <2>1 DEF Elements
<1>3. ASSUME NEW i \in DOMAIN t  PROVE t[i] \in Elements(s \o t)
  <2>1. i + Len(s) \in DOMAIN (s \o t) /\ (s \o t)[i + Len(s)] = t[i]
    BY <1>1
  <2> QED BY <2>1 DEF Elements
<1> QED BY <1>2, <1>3 DEF Elements

----------------------------------------------------------------------------
(* The steps of one node that drive no other one.                          *)
Moves(n, pc, todo) ==
  /\ node' = [node EXCEPT ![n].pc = pc, ![n].todo = todo]
  /\ UNCHANGED <<graph, aborted, result, drives>>

Live == {"agent", "condition", "fanning", "joining", "walking", "awaiting"}

LEMMA MoveEffect ==
  ASSUME TypeOK, NEW n \in Nodes, NEW pc \in Pc, NEW todo \in Seq(Nodes), Moves(n, pc, todo)
  PROVE  /\ node' \in [Nodes -> State]
         /\ node'[n].pc = pc /\ node'[n].todo = todo
         /\ \A m \in Nodes : node'[m].active = node[m].active
         /\ \A m \in Nodes : m # n => node'[m] = node[m]
<1>1. node \in [Nodes -> State] /\ node[n] \in State
  BY DEF TypeOK
<1>2. /\ [node[n] EXCEPT !.pc = pc, !.todo = todo] \in State
      /\ [node[n] EXCEPT !.pc = pc, !.todo = todo].pc = pc
      /\ [node[n] EXCEPT !.pc = pc, !.todo = todo].todo = todo
      /\ [node[n] EXCEPT !.pc = pc, !.todo = todo].active = node[n].active
  BY <1>1 DEF State
<1>3. node' = [node EXCEPT ![n] = [node[n] EXCEPT !.pc = pc, !.todo = todo]]
  BY <1>1 DEF Moves, State
<1> QED BY <1>1, <1>2, <1>3

(* Every step of a drive is a call of runNode or moves its node.            *)
Calls(n) ==
  LET t == Head(node[n].todo) IN
  /\ node[n].todo # << >>
  /\ \/ /\ node[n].pc = "walking"
        /\ RunNode([node EXCEPT ![n].pc = "awaiting"], node[n].active, t, Tail(stack))
     \/ /\ node[n].pc = "fanning"
        /\ RunNode([node EXCEPT ![n].todo = Tail(@)], node[n].active, t, stack)
  /\ stack # << >>
  /\ UNCHANGED <<graph, aborted, result>>

Own(n) ==
  \/ node[n].pc = "fanning" /\ node[n].todo = << >> /\ Moves(n, "joining", << >>)
  \/ node[n].pc = "joining" /\ (\A t \in Elements(Targets(n)) : Fulfilled(n, t))
       /\ Moves(n, "walking", graph.out[n])
  \/ node[n].pc = "joining"
       /\ (\A t \in Elements(Targets(n)) : Rejected(n, t) \/ Fulfilled(n, t))
       /\ Moves(n, "failed", node[n].todo)
  \/ node[n].pc = "agent" /\ Moves(n, "walking", graph.out[n])
  \/ node[n].pc \in {"agent", "condition"} /\ Moves(n, "failed", node[n].todo)
  \/ node[n].pc = "condition"
       /\ \E t \in Nodes : Moves(n, "walking", <<t>>)
  \/ node[n].pc = "walking" /\ node[n].todo # << >> /\ IsBranch(n, Head(node[n].todo))
       /\ Moves(n, "walking", Tail(node[n].todo))
  \/ node[n].pc = "awaiting" /\ Fulfilled(n, Head(node[n].todo))
       /\ Moves(n, "walking", Tail(node[n].todo))
  \/ node[n].pc = "awaiting" /\ Rejected(n, Head(node[n].todo))
       /\ Moves(n, "failed", node[n].todo)
  \/ node[n].pc = "walking" /\ node[n].todo = << >> /\ Moves(n, "completed", << >>)

LEMMA DriveIsCallOrMove ==
  ASSUME TypeOK, NEW n \in Nodes, Drive(n)
  PROVE  Calls(n) \/ (Own(n) /\ stack' \in Seq(Nodes))
<1>1. /\ node \in [Nodes -> State] /\ stack \in Seq(Nodes)
      /\ node[n] \in State
  BY DEF TypeOK
<1>2. stack # << >> => Tail(stack) \in Seq(Nodes)
  BY <1>1
<1>3. <<n>> \in Seq(Nodes)
  OBVIOUS
<1>4. ASSUME NEW pc, NEW todo, Continues(n, todo), UNCHANGED <<graph, aborted, result, drives>>
      PROVE  Moves(n, "walking", todo) /\ stack' \in Seq(Nodes)
  BY <1>1, <1>3, <1>4 DEF Continues, Moves, State
<1>5. ASSUME Fails(n), UNCHANGED <<graph, aborted, result, drives>>
      PROVE  Moves(n, "failed", node[n].todo) /\ stack' \in Seq(Nodes)
  <2>1. [node[n] EXCEPT !.pc = "failed"] = [node[n] EXCEPT !.pc = "failed", !.todo = node[n].todo]
    BY <1>1 DEF State
  <2>2. node' = [node EXCEPT ![n] = [node[n] EXCEPT !.pc = "failed"]]
    BY <1>1, <1>5 DEF Fails, State
  <2>3. [node EXCEPT ![n].pc = "failed", ![n].todo = node[n].todo]
          = [node EXCEPT ![n] = [node[n] EXCEPT !.pc = "failed", !.todo = node[n].todo]]
    BY <1>1 DEF State
  <2>4. node' = [node EXCEPT ![n].pc = "failed", ![n].todo = node[n].todo]
    BY <2>1, <2>2, <2>3, Zenon
  <2>5. stack' \in Seq(Nodes)
    BY <1>5 DEF Fails
  <2> QED BY <1>5, <2>4, <2>5, Zenon DEF Moves
<1>6. CASE Fans(n)
  BY <1>6 DEF Fans, Running, Calls
<1>7. CASE HasFanned(n)
  BY <1>1, <1>2, <1>7 DEF HasFanned, Running, Own, Moves, State
<1>8. CASE Joins(n)
  BY <1>4, <1>5, <1>8 DEF Joins, Settles, Own
<1>9. CASE AgentAnswers(n)
  BY <1>4, <1>9 DEF AgentAnswers, Settles, Own
<1>10. CASE AgentFails(n)
  BY <1>5, <1>10 DEF AgentFails, Settles, Own
<1>11. ASSUME NEW t \in Nodes, Chooses(n, t)
       PROVE  Own(n) /\ stack' \in Seq(Nodes)
  BY <1>4, <1>11 DEF Chooses, Settles, Own
<1>12. CASE ConditionThrows(n)
  BY <1>5, <1>12 DEF ConditionThrows, Settles, Own
<1>13. CASE Walks(n)
  BY <1>13 DEF Walks, Running, Calls
<1>14. CASE PassesOver(n)
  BY <1>1, <1>14 DEF PassesOver, Running, Own, Moves, State
<1>15. CASE GoesOn(n)
  BY <1>4, <1>15 DEF GoesOn, Settles, Own
<1>16. CASE BreaksOff(n)
  BY <1>5, <1>16 DEF BreaksOff, Settles, Own
<1>17. CASE Completes(n)
  BY <1>1, <1>2, <1>17 DEF Completes, Running, Own, Moves, State
<1> QED BY <1>6, <1>7, <1>8, <1>9, <1>10, <1>11, <1>12, <1>13, <1>14, <1>15, <1>16, <1>17 DEF Drive

----------------------------------------------------------------------------
(* Types, what is known of a node from its place, and how often it has      *)
(* been driven.                                                             *)
PlaceInv ==
  /\ result = "none" => \A n \in Nodes : node[n].pc = "new"
  /\ \A n \in Nodes : node[n].pc # "new" => n \in node[n].active /\ graph.entry \in node[n].active
  /\ \A n \in Nodes : node[n].pc = "fanning" => Elements(node[n].todo) \subseteq Elements(Targets(n))
  /\ \A n \in Nodes : node[n].pc \in {"fanning", "joining"} => graph.kind[n] = "parallel"
  /\ \A n \in Nodes : node[n].pc = "agent" => graph.kind[n] = "agent"
  /\ \A n \in Nodes : node[n].pc = "condition" => graph.kind[n] = "condition"
  /\ \A n \in Nodes : drives[n] = IF node[n].pc = "new" THEN 0 ELSE 1
  /\ result \in Ended => result = node[graph.entry].pc

TypeInv == TypeOK /\ PlaceInv

(* What drive starts with.                                                  *)
LEMMA StartedPlace ==
  ASSUME TypeOK, NEW n \in Nodes, NEW active \in SUBSET Nodes
  PROVE  LET s == Started(n, active) IN
         /\ s.pc = "fanning" => graph.kind[n] = "parallel" /\ s.todo = Targets(n)
         /\ s.pc = "agent" => graph.kind[n] = "agent"
         /\ s.pc = "condition" => graph.kind[n] = "condition"
         /\ s.pc = "walking" =>
              \/ graph.kind[n] = "transform" /\ s.todo = graph.out[n]
              \/ graph.kind[n] = "sequential" /\ s.todo = graph.steps[n] \o graph.out[n]
<1>1. graph.kind[n] \in Kind
  BY DEF TypeOK, Graph
<1> QED BY <1>1 DEF Started, At, Kind

(* A call of runNode for t, from a node that goes on to await it or to call *)
(* again: what becomes of the caller and of t.                              *)
CallOutcome(n, t) ==
  /\ t \in Nodes /\ node[n].todo # << >>
  /\ \/ /\ node[n].pc = "walking" /\ node'[n].pc = "awaiting"
        /\ node'[n].todo = node[n].todo
     \/ /\ node[n].pc = "fanning" /\ node'[n].pc = "fanning"
        /\ node'[n].todo = Tail(node[n].todo) /\ t \in Elements(Targets(n))
  /\ node'[n].active = node[n].active /\ drives'[n] = drives[n]
  /\ \A m \in Nodes \ {n, t} : node'[m] = node[m] /\ drives'[m] = drives[m]
  /\ \/ /\ t \notin node[n].active /\ node[t].pc = "new"
        /\ t # n /\ node'[t] = Started(t, node[n].active \cup {t})
        /\ drives'[t] = drives[t] + 1
     \/ /\ t \in node[n].active \/ node[t].pc # "new"
        /\ t # n => node'[t] = node[t] /\ drives'[t] = drives[t]
  /\ node' \in [Nodes -> State] /\ stack' \in Seq(Nodes) /\ drives' \in [Nodes -> Nat]
  /\ graph' = graph /\ result' = result /\ aborted' = aborted

LEMMA CallEffect ==
  ASSUME TypeInv, NEW n \in Nodes, Calls(n)
  PROVE  \E t \in Nodes : t = Head(node[n].todo) /\ CallOutcome(n, t)
<1> USE DEF CallOutcome
<1>8. node[n].todo \in Seq(Nodes) /\ node[n].todo # << >>
  BY DEF TypeInv, TypeOK, State, Calls
<1>9. PICK t \in Nodes : t = Head(node[n].todo)
  BY <1>8, HeadAndTail
<1> SUFFICES CallOutcome(n, t)
  BY <1>9
<1>1. /\ node \in [Nodes -> State] /\ node[n] \in State /\ stack \in Seq(Nodes) /\ stack # << >>
      /\ node[n].todo \in Seq(Nodes) /\ node[n].todo # << >> /\ node[n].active \in SUBSET Nodes
  BY DEF TypeInv, TypeOK, Calls, State
<1>2. t \in Nodes /\ Tail(node[n].todo) \in Seq(Nodes) /\ Tail(stack) \in Seq(Nodes)
      /\ t \in Elements(node[n].todo)
  BY <1>1, <1>9, HeadAndTail
<1>3. TypeOK /\ graph' = graph /\ result' = result /\ aborted' = aborted
  BY DEF TypeInv, Calls
<1>4. node[n].pc # "new" /\ n \in node[n].active
  BY DEF Calls, TypeInv, PlaceInv
<1>7. ASSUME NEW caller \in [Nodes -> State], NEW below \in Seq(Nodes),
             RunNode(caller, node[n].active, t, below),
             caller[n].active = node[n].active, \A m \in Nodes : m # n => caller[m] = node[m]
      PROVE  /\ node'[n] = caller[n] /\ drives'[n] = drives[n]
             /\ \A m \in Nodes \ {n, t} : node'[m] = node[m] /\ drives'[m] = drives[m]
             /\ \/ /\ t \notin node[n].active /\ node[t].pc = "new"
                   /\ t # n /\ node'[t] = Started(t, node[n].active \cup {t})
                   /\ drives'[t] = drives[t] + 1
                \/ /\ t \in node[n].active \/ node[t].pc # "new"
                   /\ t # n => node'[t] = node[t] /\ drives'[t] = drives[t]
             /\ node' \in [Nodes -> State] /\ stack' \in Seq(Nodes)
             /\ drives' \in [Nodes -> Nat]
  <2> DEFINE new == Started(t, node[n].active \cup {t})
  <2>1. new \in State
    BY <1>1, <1>2, <1>3, StartedType
  <2>2. <<t>> \o below \in Seq(Nodes)
    BY <1>2, <1>7
  <2>3. CASE t \in node[n].active \/ node[t].pc # "new"
    <3>1. node' = caller /\ stack' = below /\ drives' = drives
      BY <1>7, <2>3 DEF RunNode
    <3>2. drives \in [Nodes -> Nat]
      BY <1>3 DEF TypeOK
    <3> HIDE DEF new
    <3> QED BY <1>2, <1>7, <2>3, <3>1, <3>2
  <2>4. CASE t \notin node[n].active /\ node[t].pc = "new"
    <3>1. /\ node' = [caller EXCEPT ![t] = new]
          /\ stack' \in {<<t>> \o below, below}
          /\ drives' = [drives EXCEPT ![t] = @ + 1]
      BY <1>7, <2>4 DEF RunNode
    <3>2. drives \in [Nodes -> Nat]
      BY <1>3 DEF TypeOK
    <3> HIDE DEF new
    <3>3. /\ node' \in [Nodes -> State] /\ node'[t] = new /\ t # n
          /\ \A m \in Nodes : m # t => node'[m] = caller[m]
      BY <1>2, <1>4, <1>7, <2>1, <2>4, <3>1
    <3>4. /\ drives' \in [Nodes -> Nat] /\ drives'[t] = drives[t] + 1
          /\ \A m \in Nodes : m # t => drives'[m] = drives[m]
      BY <1>2, <3>1, <3>2
    <3> QED BY <1>7, <2>2, <2>4, <3>1, <3>3, <3>4 DEF new
  <2> QED BY <2>3, <2>4
<1>5. CASE /\ node[n].pc = "walking"
           /\ RunNode([node EXCEPT ![n].pc = "awaiting"], node[n].active, t, Tail(stack))
  <2> DEFINE caller == [node EXCEPT ![n].pc = "awaiting"]
  <2>1. /\ caller \in [Nodes -> State] /\ caller[n].pc = "awaiting"
        /\ caller[n].todo = node[n].todo /\ caller[n].active = node[n].active
        /\ \A m \in Nodes : m # n => caller[m] = node[m]
    BY <1>1 DEF State, Pc
  <2>2. RunNode(caller, node[n].active, t, Tail(stack))
    BY <1>5, <1>9
  <2> HIDE DEF caller
  <2> QED BY <1>1, <1>2, <1>3, <1>5, <1>7, <2>1, <2>2
<1>6. CASE /\ node[n].pc = "fanning"
           /\ RunNode([node EXCEPT ![n].todo = Tail(@)], node[n].active, t, stack)
  <2> DEFINE caller == [node EXCEPT ![n].todo = Tail(@)]
  <2>1. /\ caller \in [Nodes -> State] /\ caller[n].pc = "fanning"
        /\ caller[n].todo = Tail(node[n].todo) /\ caller[n].active = node[n].active
        /\ \A m \in Nodes : m # n => caller[m] = node[m]
    BY <1>1, <1>2, <1>6 DEF State
  <2>2. RunNode(caller, node[n].active, t, stack)
    BY <1>6, <1>9
  <2>3. t \in Elements(Targets(n))
    BY <1>2, <1>6 DEF TypeInv, PlaceInv
  <2> HIDE DEF caller
  <2> QED BY <1>1, <1>2, <1>3, <1>6, <1>7, <2>1, <2>2, <2>3
<1> QED BY <1>5, <1>6, <1>9 DEF Calls

(* From Init and over every step: types and places.                        *)
LEMMA InitTypes == Init => TypeInv
  BY GraphsAssumption DEF Init, TypeInv, TypeOK, PlaceInv, At, State, Pc, Ended

LEMMA ExecuteEffect ==
  ASSUME TypeInv, Execute
  PROVE  /\ graph.entry \in Nodes /\ node'[graph.entry] = Started(graph.entry, {graph.entry})
         /\ drives'[graph.entry] = drives[graph.entry] + 1
         /\ \A m \in Nodes : node[m].pc = "new"
         /\ \A m \in Nodes : m # graph.entry => node'[m] = node[m] /\ drives'[m] = drives[m]
         /\ node' \in [Nodes -> State] /\ stack' \in Seq(Nodes) /\ drives' \in [Nodes -> Nat]
         /\ graph' = graph /\ result' = "running" /\ aborted' = aborted
<1>1. /\ graph.entry \in Nodes /\ node \in [Nodes -> State] /\ TypeOK
      /\ \A m \in Nodes : node[m].pc = "new"
  BY DEF TypeInv, TypeOK, PlaceInv, Graph, Execute
<1> DEFINE new == Started(graph.entry, {} \cup {graph.entry})
<1>2. new = Started(graph.entry, {graph.entry}) /\ new \in State
  <2>1. {} \cup {graph.entry} = {graph.entry} /\ {graph.entry} \in SUBSET Nodes
    BY <1>1
  <2> QED BY <1>1, <2>1, StartedType
<1>3. /\ node' = [node EXCEPT ![graph.entry] = new]
      /\ stack' \in {<<graph.entry>> \o << >>, << >>}
      /\ drives' = [drives EXCEPT ![graph.entry] = @ + 1]
  BY <1>1 DEF Execute, RunNode
<1>4. stack' \in Seq(Nodes)
  <2>1. <<graph.entry>> \o << >> \in Seq(Nodes) /\ << >> \in Seq(Nodes)
    BY <1>1
  <2> QED BY <2>1, <1>3
<1>5. drives \in [Nodes -> Nat]
  BY <1>1 DEF TypeOK
<1> HIDE DEF new
<1>6. /\ node' \in [Nodes -> State] /\ node'[graph.entry] = new
      /\ \A m \in Nodes : m # graph.entry => node'[m] = node[m]
  BY <1>1, <1>2, <1>3
<1>7. /\ drives' \in [Nodes -> Nat] /\ drives'[graph.entry] = drives[graph.entry] + 1
      /\ \A m \in Nodes : m # graph.entry => drives'[m] = drives[m]
  BY <1>1, <1>3, <1>5
<1> QED BY <1>1, <1>2, <1>4, <1>6, <1>7 DEF Execute

LEMMA MovePlace ==
  ASSUME TypeInv, NEW n \in Nodes, NEW pc \in Pc, NEW todo \in Seq(Nodes), Moves(n, pc, todo),
         node[n].pc \in Live, pc \notin {"new", "agent", "condition", "fanning", "awaiting"},
         pc = "joining" => node[n].pc = "fanning", stack' \in Seq(Nodes)
  PROVE  TypeInv' /\ graph' = graph /\ result' = result
<1>1. /\ node' \in [Nodes -> State]
      /\ node'[n].pc = pc /\ node'[n].todo = todo
      /\ \A m \in Nodes : node'[m].active = node[m].active
      /\ \A m \in Nodes : m # n => node'[m] = node[m]
  BY MoveEffect DEF TypeInv
<1>2. graph' = graph /\ aborted' = aborted /\ result' = result /\ drives' = drives
  BY DEF Moves
<1>3. TypeOK'
  BY <1>1, <1>2 DEF TypeInv, TypeOK
<1>4. node[n].pc # "new" /\ result # "none" /\ (result \in Ended => n # graph.entry)
  BY DEF TypeInv, PlaceInv, Live, Ended
<1>5. Targets(n)' = Targets(n) /\ \A m \in Nodes : Targets(m)' = Targets(m)
  BY <1>2 DEF Targets
<1>6. graph.entry \in Nodes
  BY DEF TypeInv, TypeOK, Graph
<1>7. PlaceInv'
  BY <1>1, <1>2, <1>4, <1>5, <1>6, SMTT(30) DEF TypeInv, PlaceInv, Live
<1> QED BY <1>2, <1>3, <1>7 DEF TypeInv

(* Each way a node moves, with the list it goes on to.                      *)
LEMMA OwnMoves ==
  ASSUME TypeInv, NEW n \in Nodes, Own(n)
  PROVE  \E pc \in Pc, todo \in Seq(Nodes) :
           /\ Moves(n, pc, todo)
           /\ node[n].pc \in Live /\ pc \notin {"new", "agent", "condition", "fanning", "awaiting"}
           /\ pc = "joining" => node[n].pc = "fanning"
<1>1. /\ node[n].todo \in Seq(Nodes) /\ graph.out[n] \in Seq(Nodes)
      /\ << >> \in Seq(Nodes) /\ \A t \in Nodes : <<t>> \in Seq(Nodes)
  BY DEF TypeInv, TypeOK, State, Graph
<1>2. node[n].todo # << >> => Tail(node[n].todo) \in Seq(Nodes)
  BY <1>1
<1>3. node[n].pc = "awaiting" => node[n].todo # << >>
  BY DEF TypeInv, TypeOK
<1> QED BY <1>1, <1>2, <1>3 DEF Own, Live, Pc

LEMMA CallPlace ==
  ASSUME TypeInv, NEW n \in Nodes, Calls(n)
  PROVE  TypeInv' /\ graph' = graph /\ result' = result
<1> USE DEF CallOutcome
<1>1. PICK t \in Nodes : t = Head(node[n].todo) /\ CallOutcome(n, t)
  BY CallEffect
<1>2. ASSUME \A m \in Nodes : node'[m].pc = "awaiting" => node'[m].todo # << >>
      PROVE  TypeOK'
  BY <1>1, <1>2 DEF TypeInv, TypeOK
<1>3. /\ node[n].pc # "new" /\ graph.entry \in node[n].active /\ n \in node[n].active
      /\ node[n].active \in SUBSET Nodes /\ result # "none" /\ graph.entry \in Nodes
      /\ result \in Ended => n # graph.entry /\ node[graph.entry].pc = result
  BY <1>1 DEF TypeInv, TypeOK, PlaceInv, State, Ended, Graph
<1>4. node[n].todo \in Seq(Nodes) /\ Elements(Tail(node[n].todo)) \subseteq Elements(node[n].todo)
  <2>1. node[n].todo \in Seq(Nodes)
    BY DEF TypeInv, TypeOK, State
  <2> QED BY <1>1, <2>1, HeadAndTail
<1>5. \A m \in Nodes : Targets(m)' = Targets(m)
  BY <1>1 DEF Targets
<1>6. CASE t \in node[n].active \/ node[t].pc # "new"
  <2>1. \A m \in Nodes : m # n => node'[m] = node[m] /\ drives'[m] = drives[m]
    BY <1>1, <1>6
  <2>2. TypeOK'
    BY <1>1, <1>2, <2>1 DEF TypeInv, TypeOK
  <2>3. PlaceInv'
    <3>1. /\ node'[n].active = node[n].active /\ drives'[n] = drives[n]
          /\ node'[n].pc = "fanning" => /\ node[n].pc = "fanning"
                                        /\ node'[n].todo = Tail(node[n].todo)
          /\ node'[n].pc \in {"fanning", "awaiting"}
      BY <1>1
    <3>2. \A m \in Nodes : node'[m].pc # "new" =>
            m \in node'[m].active /\ graph'.entry \in node'[m].active
      BY <1>1, <1>3, <2>1, <3>1 DEF TypeInv, PlaceInv
    <3>3. \A m \in Nodes : node'[m].pc = "fanning" =>
            Elements(node'[m].todo) \subseteq Elements(Targets(m)')
      BY <1>4, <1>5, <2>1, <3>1 DEF TypeInv, PlaceInv
    <3>4. \A m \in Nodes : /\ node'[m].pc \in {"fanning", "joining"} => graph'.kind[m] = "parallel"
                           /\ node'[m].pc = "agent" => graph'.kind[m] = "agent"
                           /\ node'[m].pc = "condition" => graph'.kind[m] = "condition"
      BY <1>1, <2>1, <3>1 DEF TypeInv, PlaceInv
    <3>5. \A m \in Nodes : drives'[m] = IF node'[m].pc = "new" THEN 0 ELSE 1
      BY <1>3, <2>1, <3>1 DEF TypeInv, PlaceInv
    <3>6. /\ result' # "none"
          /\ result' \in Ended => result' = node'[graph'.entry].pc
      BY <1>1, <1>3, <2>1
    <3> QED BY <3>2, <3>3, <3>4, <3>5, <3>6 DEF PlaceInv
  <2> QED BY <1>1, <2>2, <2>3 DEF TypeInv
<1>7. CASE t \notin node[n].active /\ node[t].pc = "new"
  <2> DEFINE s == Started(t, node[n].active \cup {t})
  <2>1. /\ s.pc = "fanning" => graph.kind[t] = "parallel" /\ s.todo = Targets(t)
        /\ s.pc = "agent" => graph.kind[t] = "agent"
        /\ s.pc = "condition" => graph.kind[t] = "condition"
        /\ s.pc \in {"agent", "condition", "walking", "fanning", "failed"}
        /\ s.active = node[n].active \cup {t}
    <3>1. node[n].active \cup {t} \in SUBSET Nodes /\ TypeOK
      BY <1>3 DEF TypeInv
    <3> QED BY <3>1, StartedType, StartedPlace
  <2>2. node'[t] = s /\ t # n /\ drives'[t] = drives[t] + 1
    BY <1>1, <1>7
  <2>3. result \in Ended => t # graph.entry
    BY <1>3, <1>7 DEF Ended
  <2> HIDE DEF s
  <2>4. \A m \in Nodes : m # n /\ m # t => node'[m] = node[m] /\ drives'[m] = drives[m]
    BY <1>1
  <2>5. drives[t] = 0 /\ drives[n] = 1
    BY <1>1, <1>3, <1>7 DEF TypeInv, PlaceInv
  <2>6. TypeOK'
    BY <1>1, <1>2, <2>1, <2>2, <2>4 DEF TypeInv, TypeOK
  <2>7. PlaceInv'
    <3>1. \A m \in Nodes : node'[m].pc # "new" =>
            m \in node'[m].active /\ graph'.entry \in node'[m].active
      BY <1>1, <1>3, <2>1, <2>2, <2>4 DEF TypeInv, PlaceInv
    <3>2. \A m \in Nodes : node'[m].pc = "fanning" =>
            Elements(node'[m].todo) \subseteq Elements(Targets(m)')
      BY <1>1, <1>4, <1>5, <2>1, <2>2, <2>4 DEF TypeInv, PlaceInv
    <3>3. \A m \in Nodes : /\ node'[m].pc \in {"fanning", "joining"} => graph'.kind[m] = "parallel"
                           /\ node'[m].pc = "agent" => graph'.kind[m] = "agent"
                           /\ node'[m].pc = "condition" => graph'.kind[m] = "condition"
      BY <1>1, <2>1, <2>2, <2>4 DEF TypeInv, PlaceInv
    <3>4. \A m \in Nodes : drives'[m] = IF node'[m].pc = "new" THEN 0 ELSE 1
      <4>1. drives'[t] = 1 /\ node'[t].pc # "new"
        BY <2>1, <2>2, <2>5
      <4>2. drives'[n] = 1 /\ node'[n].pc # "new"
        BY <1>1, <2>5
      <4>3. \A m \in Nodes : m # n /\ m # t => drives'[m] = IF node'[m].pc = "new" THEN 0 ELSE 1
        BY <2>4 DEF TypeInv, PlaceInv
      <4> QED BY <4>1, <4>2, <4>3
    <3>5. /\ result' # "none"
          /\ result' \in Ended => result' = node'[graph'.entry].pc
      BY <1>1, <1>3, <2>3, <2>4
    <3> QED BY <3>1, <3>2, <3>3, <3>4, <3>5 DEF PlaceInv
  <2> QED BY <1>1, <2>6, <2>7 DEF TypeInv
<1> QED BY <1>1, <1>6, <1>7

LEMMA NextTypes == TypeInv /\ [Next]_vars => TypeInv'
<1> SUFFICES ASSUME TypeInv, [Next]_vars PROVE TypeInv'
  OBVIOUS
<1>1. CASE Execute
  <2>1. /\ graph.entry \in Nodes /\ node'[graph.entry] = Started(graph.entry, {graph.entry})
        /\ drives'[graph.entry] = drives[graph.entry] + 1
        /\ \A m \in Nodes : node[m].pc = "new"
        /\ \A m \in Nodes : m # graph.entry => node'[m] = node[m] /\ drives'[m] = drives[m]
        /\ node' \in [Nodes -> State] /\ stack' \in Seq(Nodes) /\ drives' \in [Nodes -> Nat]
        /\ graph' = graph /\ result' = "running" /\ aborted' = aborted
    BY <1>1, ExecuteEffect
  <2> DEFINE s == Started(graph.entry, {graph.entry})
  <2>2. /\ s.pc = "fanning" => graph.kind[graph.entry] = "parallel" /\ s.todo = Targets(graph.entry)
        /\ s.pc = "agent" => graph.kind[graph.entry] = "agent"
        /\ s.pc = "condition" => graph.kind[graph.entry] = "condition"
        /\ s.pc \in {"agent", "condition", "walking", "fanning", "failed"}
        /\ s.active = {graph.entry}
    <3>1. {graph.entry} \in SUBSET Nodes /\ TypeOK
      BY <2>1 DEF TypeInv
    <3> QED BY <2>1, <3>1, StartedType, StartedPlace
  <2>4. \A m \in Nodes : Targets(m)' = Targets(m)
    BY <2>1 DEF Targets
  <2>5. node'[graph.entry] = s
    BY <2>1
  <2> HIDE DEF s
  <2>6. drives[graph.entry] = 0
    BY <2>1 DEF TypeInv, PlaceInv
  <2>3. TypeOK'
    BY <2>1, <2>2, <2>5 DEF TypeInv, TypeOK
  <2>7. PlaceInv'
    <3>1. \A m \in Nodes : m # graph.entry => node'[m].pc = "new" /\ drives'[m] = 0
      BY <2>1 DEF TypeInv, PlaceInv
    <3>2. /\ node'[graph.entry].pc \in {"agent", "condition", "walking", "fanning", "failed"}
          /\ node'[graph.entry].active = {graph.entry} /\ drives'[graph.entry] = 1
      <4>1. drives'[graph.entry] = drives[graph.entry] + 1
        BY <2>1
      <4>2. drives'[graph.entry] = 1
        BY <2>6, <4>1
      <4> QED BY <2>2, <2>5, <4>2, Zenon
    <3>3. node'[graph.entry].pc = "fanning" =>
            /\ graph.kind[graph.entry] = "parallel"
            /\ node'[graph.entry].todo = Targets(graph.entry)
      BY <2>2, <2>5
    <3>4. /\ node'[graph.entry].pc = "agent" => graph.kind[graph.entry] = "agent"
          /\ node'[graph.entry].pc = "condition" => graph.kind[graph.entry] = "condition"
      BY <2>2, <2>5
    <3>5. /\ \A m \in Nodes : node'[m].pc # "new" => m = graph.entry
          /\ \A m \in Nodes : drives'[m] = IF node'[m].pc = "new" THEN 0 ELSE 1
      BY <3>1, <3>2
    <3>6. graph' = graph /\ result' = "running"
      BY <2>1
    <3>7. /\ \A n \in Nodes : node'[n].pc # "new" => n \in node'[n].active /\ graph'.entry \in node'[n].active
          /\ result' # "none" /\ result' \notin Ended
      BY <3>2, <3>5, <3>6 DEF Ended
    <3>8. \A n \in Nodes : node'[n].pc = "fanning" => Elements(node'[n].todo) \subseteq Elements(Targets(n)')
      BY <2>4, <3>3, <3>5
    <3>9. \A n \in Nodes : /\ node'[n].pc \in {"fanning", "joining"} => graph'.kind[n] = "parallel"
                           /\ node'[n].pc = "agent" => graph'.kind[n] = "agent"
                           /\ node'[n].pc = "condition" => graph'.kind[n] = "condition"
      BY <3>2, <3>3, <3>4, <3>5, <3>6
    <3> QED BY <3>5, <3>7, <3>8, <3>9 DEF PlaceInv
  <2> QED BY <2>3, <2>7 DEF TypeInv
<1>2. CASE Return
  BY <1>2 DEF Return, TypeInv, TypeOK, PlaceInv, Targets, Ended
<1>3. ASSUME NEW n \in Nodes, Drive(n)
      PROVE  TypeInv'
  <2>1. Calls(n) \/ (Own(n) /\ stack' \in Seq(Nodes))
    BY <1>3, DriveIsCallOrMove DEF TypeInv
  <2>2. CASE Calls(n)
    BY <2>2, CallPlace
  <2>3. CASE Own(n) /\ stack' \in Seq(Nodes)
    BY <2>3, OwnMoves, MovePlace
  <2> QED BY <2>1, <2>2, <2>3
<1>4. CASE Abort
  BY <1>4 DEF Abort, TypeInv, TypeOK, PlaceInv, Targets
<1>5. CASE UNCHANGED vars
  BY <1>5 DEF vars, TypeInv, TypeOK, PlaceInv, Targets
<1> QED BY <1>1, <1>2, <1>3, <1>4, <1>5 DEF Next

LEMMA TypesInvariant == Spec => []TypeInv
  BY InitTypes, NextTypes, PTL DEF Spec

(* The types of the walk, for any workflow.                                 *)
THEOREM TypesHold == Spec => []TypeOK
  BY TypesInvariant, PTL DEF TypeInv

(* No node is driven twice, over every join, failure and cycle.             *)
THEOREM DrivenOnceHolds == Spec => []DrivenOnce
<1>1. TypeInv => DrivenOnce
  BY DEF TypeInv, PlaceInv, DrivenOnce
<1> QED BY <1>1, TypesInvariant, PTL

----------------------------------------------------------------------------
(* A node waits for the node whose promise it awaits, a parallel node for   *)
(* each of its branches.                                                    *)
Waits(a, c) ==
  /\ c \notin node[a].active
  /\ \/ node[a].pc = "awaiting" /\ c = Head(node[a].todo)
     \/ node[a].pc \in {"fanning", "joining"} /\ c \in Elements(Targets(a))

(* While a node has a place in S, each node on its path has one in X or     *)
(* waits for another of the path that has a place in S.                     *)
PathInv(S, X) ==
  \A m \in Nodes : node[m].pc \in S =>
    \A a \in node[m].active \ {m} :
      \/ node[a].pc \in X
      \/ \E c \in node[m].active : node[c].pc \in S /\ Waits(a, c)

LEMMA PathMove ==
  ASSUME NEW CONSTANT S, NEW CONSTANT X, Live \subseteq S, X \subseteq S, X \cap Live = {},
         TypeInv, PathInv(S, X),
         NEW n \in Nodes, NEW pc \in Pc, NEW todo \in Seq(Nodes), Moves(n, pc, todo),
         node[n].pc \in Live,
         \/ pc \in X
         \/ pc = "joining" /\ node[n].pc = "fanning"
         \/ \A c \in Nodes : node[c].pc \in S => ~ Waits(n, c)
  PROVE  PathInv(S, X)'
<1>1. /\ node'[n].pc = pc
      /\ \A m \in Nodes : node'[m].active = node[m].active
      /\ \A m \in Nodes : m # n => node'[m] = node[m]
      /\ \A m \in Nodes : Targets(m)' = Targets(m)
  <2>1. graph' = graph
    BY DEF Moves
  <2> QED BY <2>1, MoveEffect DEF TypeInv, Targets
<1>2. \A m \in Nodes : node[m].active \in SUBSET Nodes
  BY DEF TypeInv, TypeOK, State
<1>3. node[n].pc \notin X /\ n \in node[n].active /\ node[n].pc \in S
  BY DEF TypeInv, PlaceInv, Live
<1>4. SUFFICES ASSUME NEW m \in Nodes, node'[m].pc \in S, NEW a \in node[m].active \ {m}
               PROVE  \/ node'[a].pc \in X
                      \/ \E c \in node[m].active : node'[c].pc \in S /\ Waits(a, c)'
  BY <1>1 DEF PathInv
<1>5. node[m].pc \in S /\ a \in Nodes
  BY <1>1, <1>2, <1>3, <1>4
<1>6. CASE node[a].pc \in X
  BY <1>1, <1>3, <1>5, <1>6
<1>7. ASSUME NEW c \in node[m].active, node[c].pc \in S, Waits(a, c)
      PROVE  \/ node'[a].pc \in X
             \/ \E d \in node[m].active : node'[d].pc \in S /\ Waits(a, d)'
  <2>1. c \in Nodes /\ node[a].active = node'[a].active
    BY <1>1, <1>2, <1>5, <1>7
  <2>2. CASE a = n
    <3>1. c # n /\ node'[c].pc \in S
      BY <1>1, <1>3, <1>7, <2>1, <2>2 DEF Waits
    <3>2. CASE pc \in X
      BY <1>1, <2>2, <3>2
    <3>3. CASE pc = "joining" /\ node[n].pc = "fanning"
      <4>1. c \notin node[n].active /\ c \in Elements(Targets(n))
        BY <1>7, <2>2, <3>3 DEF Waits
      <4>2. Waits(n, c)'
        BY <1>1, <2>1, <2>2, <3>3, <4>1 DEF Waits
      <4> QED BY <2>2, <3>1, <4>2
    <3> QED BY <1>7, <2>1, <2>2, <3>2, <3>3
  <2>3. CASE a # n
    <3>1. node'[a] = node[a]
      BY <1>1, <1>5, <2>3
    <3>2. Waits(a, c)'
      BY <1>1, <1>5, <1>7, <3>1 DEF Waits
    <3>3. node'[c].pc \in S
      <4>1. CASE c # n
        BY <1>1, <1>7, <2>1, <4>1
      <4>2. CASE c = n
        <5>1. SUFFICES ASSUME pc \notin S PROVE FALSE
          BY <1>1, <4>2
        <5>2. \A d \in Nodes : node[d].pc \in S => ~ Waits(n, d)
          BY <5>1 DEF Live
        <5>3. n # m
          BY <1>1, <1>4, <5>1
        <5>4. n \in node[m].active \ {m}
          BY <4>2, <5>3
        <5>5. \E d \in node[m].active : node[d].pc \in S /\ Waits(n, d)
          BY <1>3, <1>5, <5>4 DEF PathInv
        <5> QED BY <1>2, <5>2, <5>5
      <4> QED BY <4>1, <4>2
    <3> QED BY <3>2, <3>3
  <2> QED BY <2>2, <2>3
<1> QED BY <1>5, <1>6, <1>7, <1>4 DEF PathInv

(* A call of runNode keeps it: the caller waits for the node it calls.      *)
LEMMA PathCall ==
  ASSUME NEW CONSTANT S, NEW CONSTANT X, Live \subseteq S, X \cap Live = {}, "new" \notin S,
         "new" \notin X, TypeInv, PathInv(S, X), NEW n \in Nodes, Calls(n)
  PROVE  PathInv(S, X)'
<1> USE DEF CallOutcome
<1>1. PICK t \in Nodes : t = Head(node[n].todo) /\ CallOutcome(n, t)
  BY CallEffect
<1>2. /\ \A m \in Nodes : Targets(m)' = Targets(m) /\ node[m].active \in SUBSET Nodes
      /\ node'[n].pc \in {"awaiting", "fanning"}
      /\ node[n].pc \in S /\ node[n].pc \notin X /\ node'[n].pc \in S
      /\ node[n].pc \in {"walking", "fanning"} /\ n \in node[n].active
  BY <1>1 DEF Targets, TypeInv, TypeOK, PlaceInv, State, Live
<1> DEFINE new == t \notin node[n].active /\ node[t].pc = "new"
<1>3. new => /\ node'[t].active = node[n].active \cup {t}
             /\ t # n
  BY <1>1, <1>2, StartedType DEF TypeInv
<1>4. \A m \in Nodes : m # n /\ ~ (new /\ m = t) => node'[m] = node[m]
  BY <1>1
<1>5. new => Waits(n, t)'
  <2>1. CASE node'[n].pc = "awaiting"
    <3>1. new => t \notin node'[n].active /\ t = Head(node'[n].todo)
      BY <1>1, <2>1
    <3> QED BY <2>1, <3>1 DEF Waits
  <2>2. CASE node'[n].pc = "fanning"
    <3>1. new => t \notin node'[n].active /\ t \in Elements(Targets(n)')
      BY <1>1, <1>2, <2>2
    <3> QED BY <2>2, <3>1 DEF Waits
  <2> QED BY <1>2, <2>1, <2>2
<1>6. node[t].pc = "new" => node[t].pc \notin S /\ node[t].pc \notin X
  OBVIOUS
<1>7. ASSUME NEW m \in Nodes, node[m].pc \in S, NEW a \in node[m].active \ {m}
      PROVE  \/ node'[a].pc \in X
             \/ \E c \in node[m].active : node'[c].pc \in S /\ Waits(a, c)'
  <2>1. a \in Nodes
    BY <1>2, <1>7
  <2>2. CASE node[a].pc \in X
    <3>1. node'[a] = node[a]
      BY <1>2, <1>4, <1>6, <2>1, <2>2
    <3> QED BY <2>2, <3>1
  <2>3. ASSUME NEW c \in node[m].active, node[c].pc \in S, Waits(a, c)
        PROVE  \E d \in node[m].active : node'[d].pc \in S /\ Waits(a, d)'
    <3>1. c \in Nodes /\ node[a].pc \in {"awaiting", "fanning", "joining"}
      BY <1>2, <2>3 DEF Waits
    <3>2. node'[c].pc \in S
      <4>1. CASE c = n
        BY <1>2, <4>1
      <4>2. CASE c # n
        BY <1>4, <1>6, <2>3, <3>1, <4>2
      <4> QED BY <4>1, <4>2
    <3>3. Waits(a, c)'
      <4>1. CASE a = n
        <5>1. node[n].pc = "fanning" /\ c \in Elements(Targets(n)) /\ c \notin node[n].active
          BY <1>2, <2>3, <3>1, <4>1 DEF Waits
        <5>2. node'[n].pc = "fanning" /\ c \in Elements(Targets(n)') /\ c \notin node'[n].active
          BY <1>1, <1>2, <5>1
        <5> QED BY <4>1, <5>2 DEF Waits
      <4>2. CASE a # n
        <5>1. node'[a] = node[a]
          BY <1>4, <2>1, <3>1, <4>2
        <5> QED BY <1>2, <2>1, <2>3, <5>1 DEF Waits
      <4> QED BY <4>1, <4>2
    <3> QED BY <3>2, <3>3
  <2> QED BY <1>7, <2>2, <2>3 DEF PathInv
<1>8. SUFFICES ASSUME NEW m \in Nodes, node'[m].pc \in S, NEW a \in node'[m].active \ {m}
               PROVE  \/ node'[a].pc \in X
                      \/ \E c \in node'[m].active : node'[c].pc \in S /\ Waits(a, c)'
  BY DEF PathInv
<1>9. CASE new /\ m = t
  <2>1. node'[m].active = node[n].active \cup {t} /\ a \in node[n].active
    BY <1>3, <1>8, <1>9
  <2>2. CASE a = n
    <3>1. Waits(a, t)' /\ node'[t].pc \in S /\ t \in node'[m].active
      BY <1>5, <1>8, <1>9, <2>1, <2>2
    <3> QED BY <3>1
  <2>3. CASE a # n
    <3>1. a \in node[n].active \ {n}
      BY <2>1, <2>3
    <3>2. \/ node'[a].pc \in X
          \/ \E c \in node[n].active : node'[c].pc \in S /\ Waits(a, c)'
      BY <1>2, <1>7, <3>1
    <3> QED BY <2>1, <3>2
  <2> QED BY <2>2, <2>3
<1>10. CASE ~ (new /\ m = t)
  <2>1. node'[m].active = node[m].active /\ node[m].pc \in S
    BY <1>1, <1>2, <1>4, <1>8, <1>10
  <2> QED BY <1>7, <1>8, <2>1
<1> QED BY <1>9, <1>10

(* When no node has a place in S, and when execute calls the first.         *)
LEMMA PathExecute ==
  ASSUME NEW CONSTANT S, NEW CONSTANT X, "new" \notin S, TypeInv, Execute
  PROVE  PathInv(S, X)'
<1>1. /\ graph.entry \in Nodes /\ node'[graph.entry].active = {graph.entry}
      /\ \A m \in Nodes : m # graph.entry => node'[m].pc = "new"
  <2>1. /\ graph.entry \in Nodes /\ node'[graph.entry] = Started(graph.entry, {graph.entry})
        /\ \A m \in Nodes : node[m].pc = "new"
        /\ \A m \in Nodes : m # graph.entry => node'[m] = node[m]
    BY ExecuteEffect
  <2>2. {graph.entry} \in SUBSET Nodes
    BY <2>1
  <2> QED BY <2>1, <2>2, StartedType DEF TypeInv
<1> QED BY <1>1 DEF PathInv

(* A node moves on by itself when it waits for none that has a place in S.  *)
LEMMA OwnWaits ==
  ASSUME NEW CONSTANT S, NEW CONSTANT X, S \cap Ended \subseteq {"failed"}, "new" \notin S,
         "failed" \in S => "failed" \in X,
         TypeInv, NEW n \in Nodes, Own(n)
  PROVE  \E pc \in Pc, todo \in Seq(Nodes) :
           /\ Moves(n, pc, todo) /\ node[n].pc \in Live
           /\ \/ pc \in X
              \/ pc = "joining" /\ node[n].pc = "fanning"
              \/ \A c \in Nodes : node[c].pc \in S => ~ Waits(n, c)
<1>1. /\ node[n].todo \in Seq(Nodes) /\ graph.out[n] \in Seq(Nodes)
      /\ << >> \in Seq(Nodes) /\ \A t \in Nodes : <<t>> \in Seq(Nodes)
  BY DEF TypeInv, TypeOK, State, Graph
<1>2. node[n].todo # << >> => Tail(node[n].todo) \in Seq(Nodes)
  BY <1>1
<1>3. node[n].pc = "awaiting" => node[n].todo # << >>
  BY DEF TypeInv, TypeOK
<1>4. node[n].pc \in {"agent", "condition", "walking"} => \A c \in Nodes : ~ Waits(n, c)
  BY DEF Waits
<1>5. "completed" \notin S
  BY DEF Ended
<1>6. node[n].pc = "joining" /\ (\A t \in Elements(Targets(n)) : Fulfilled(n, t))
        => \A c \in Nodes : node[c].pc \in S => ~ Waits(n, c)
  BY <1>5 DEF Waits, Fulfilled
<1>7. node[n].pc = "awaiting" /\ Fulfilled(n, Head(node[n].todo))
        => \A c \in Nodes : node[c].pc \in S => ~ Waits(n, c)
  BY <1>5 DEF Waits, Fulfilled
<1>8. \/ "failed" \in X
      \/ /\ "failed" \notin S
         /\ node[n].pc = "awaiting" /\ Rejected(n, Head(node[n].todo))
              => \A c \in Nodes : node[c].pc \in S => ~ Waits(n, c)
         /\ node[n].pc = "joining" /\ (\A t \in Elements(Targets(n)) : Rejected(n, t) \/ Fulfilled(n, t))
              => \A c \in Nodes : node[c].pc \in S => ~ Waits(n, c)
  BY <1>5 DEF Waits, Rejected, Fulfilled
<1> QED BY <1>1, <1>2, <1>3, <1>4, <1>6, <1>7, <1>8 DEF Own, Live, Pc

WaitInv == PathInv(Live, {})
FailInv == PathInv(Live \cup {"failed"}, {"failed"})

(* Every live node is awaited along its path, and so is every failed one    *)
(* until the node that awaits it fails too.                                 *)
LEMMA PathsInvariant == Spec => [](TypeInv /\ WaitInv /\ FailInv)
<1> DEFINE Inv == TypeInv /\ WaitInv /\ FailInv
           S == Live \cup {"failed"}
<1>1. Init => Inv
  <2>1. Init => \A m \in Nodes : node[m].pc = "new"
    BY DEF Init, At
  <2>2. (\A m \in Nodes : node[m].pc = "new") => PathInv(Live, {}) /\ PathInv(S, {"failed"})
    BY DEF PathInv, Live
  <2> QED BY <2>1, <2>2, InitTypes DEF WaitInv, FailInv
<1>2. Inv /\ [Next]_vars => Inv'
  <2> SUFFICES ASSUME Inv, [Next]_vars PROVE WaitInv' /\ FailInv'
    BY NextTypes
  <2>1. CASE Execute
    <3>1. "new" \notin Live /\ "new" \notin S
      BY DEF Live
    <3> QED BY <2>1, <3>1, PathExecute DEF WaitInv, FailInv
  <2>2. ASSUME UNCHANGED <<graph, node>>  PROVE WaitInv' /\ FailInv'
    <3>1. \A n \in Nodes : Targets(n)' = Targets(n)
      BY <2>2 DEF Targets
    <3> QED BY <2>2, <3>1 DEF WaitInv, FailInv, PathInv, Waits, Targets
  <2>3. ASSUME NEW n \in Nodes, Drive(n)  PROVE WaitInv' /\ FailInv'
    <3>1. /\ Live \subseteq Live /\ {} \subseteq Live /\ {} \cap Live = {} /\ "new" \notin Live
          /\ Live \subseteq S /\ {"failed"} \subseteq S /\ {"failed"} \cap Live = {}
          /\ "new" \notin S /\ "new" \notin {"failed"} /\ "new" \notin {}
          /\ Live \cap Ended \subseteq {"failed"} /\ S \cap Ended \subseteq {"failed"}
          /\ "failed" \notin Live /\ "failed" \in {"failed"}
      BY DEF Live, Ended
    <3>2. TypeOK /\ TypeInv /\ PathInv(Live, {}) /\ PathInv(S, {"failed"})
      BY DEF TypeInv, WaitInv, FailInv
    <3> HIDE DEF S
    <3>3. CASE Calls(n)
      <4>1. PathInv(Live, {})'
        BY <3>1, <3>2, <3>3, PathCall
      <4>2. PathInv(S, {"failed"})'
        BY <3>1, <3>2, <3>3, PathCall
      <4> QED BY <4>1, <4>2 DEF WaitInv, FailInv, S
    <3>4. CASE Own(n)
      <4>1. PathInv(Live, {})'
        <5>1. PICK pc \in Pc, todo \in Seq(Nodes) :
                /\ Moves(n, pc, todo) /\ node[n].pc \in Live
                /\ \/ pc \in {}
                   \/ pc = "joining" /\ node[n].pc = "fanning"
                   \/ \A c \in Nodes : node[c].pc \in Live => ~ Waits(n, c)
          BY <3>1, <3>2, <3>4, OwnWaits
        <5> QED BY <3>1, <3>2, <5>1, PathMove
      <4>2. PathInv(S, {"failed"})'
        <5>1. PICK pc \in Pc, todo \in Seq(Nodes) :
                /\ Moves(n, pc, todo) /\ node[n].pc \in Live
                /\ \/ pc \in {"failed"}
                   \/ pc = "joining" /\ node[n].pc = "fanning"
                   \/ \A c \in Nodes : node[c].pc \in S => ~ Waits(n, c)
          BY <3>1, <3>2, <3>4, OwnWaits
        <5> QED BY <3>1, <3>2, <5>1, PathMove
      <4> QED BY <4>1, <4>2 DEF WaitInv, FailInv, S
    <3> QED BY <2>3, <3>2, <3>3, <3>4, DriveIsCallOrMove
  <2> QED BY <2>1, <2>2, <2>3 DEF Next, Return, Abort, vars
<1>3. Inv => TypeInv /\ WaitInv /\ FailInv
  OBVIOUS
<1> HIDE DEF Inv
<1> QED BY <1>1, <1>2, <1>3, PTL DEF Spec

(* When execute has returned no node runs on behind the caller.             *)
THEOREM NothingRunsOnHolds == Spec => []NothingRunsOn
<1>1. ASSUME TypeInv, WaitInv, result \in Ended, NEW m \in Nodes
      PROVE  node[m].pc \in {"new"} \cup Ended
  <2> SUFFICES ASSUME node[m].pc \in Live PROVE FALSE
    <3>1. node[m].pc \in Pc
      BY <1>1 DEF TypeInv, TypeOK, State
    <3> QED BY <3>1 DEF Pc, Live, Ended
  <2>1. graph.entry \in node[m].active /\ node[graph.entry].pc \in Ended
    BY <1>1 DEF TypeInv, PlaceInv, Live
  <2>2. graph.entry # m
    BY <2>1 DEF Live, Ended
  <2>3. \E c \in node[m].active : Waits(graph.entry, c)
    BY <1>1, <2>1, <2>2 DEF WaitInv, PathInv
  <2> QED BY <2>1, <2>3 DEF Waits, Ended
<1>2. TypeInv /\ WaitInv => NothingRunsOn
  BY <1>1 DEF NothingRunsOn
<1> QED BY <1>2, PathsInvariant, PTL

----------------------------------------------------------------------------
(* What a node owes it has completed or has yet to walk to.                 *)
OwedInv ==
  \A n \in Nodes : node[n].pc \in {"walking", "awaiting", "completed"} =>
    /\ \A t \in Owed(n) : t \in Elements(node[n].todo) \/ node[t].pc = "completed"
    /\ graph.kind[n] = "parallel" => \A t \in Elements(Targets(n)) : node[t].pc = "completed"
    /\ node[n].pc = "completed" => node[n].todo = << >>

LEMMA OwedOfKind ==
  ASSUME TypeOK, NEW n \in Nodes
  PROVE  /\ graph.kind[n] = "condition" => Owed(n) = {}
         /\ graph.kind[n] \in {"agent", "transform"} => Owed(n) = Elements(graph.out[n])
         /\ graph.kind[n] = "sequential" => Owed(n) = Elements(graph.steps[n]) \cup Elements(graph.out[n])
         /\ graph.kind[n] = "parallel" => Owed(n) \subseteq Elements(Targets(n)) \cup Elements(graph.out[n])
<1>1. Elements(<< >>) = {}
  BY DEF Elements
<1>2. graph.kind[n] = "parallel" => Owed(n) = Elements(graph.steps[n]) \cup Elements(graph.out[n])
  BY DEF Owed
<1>3. Elements(graph.steps[n]) \subseteq Elements(Targets(n)) \cup Elements(graph.out[n])
  BY <1>1 DEF Targets
<1> QED BY <1>2, <1>3 DEF Owed

(* A drive starts by owing nothing but what it is about to walk to.         *)
LEMMA StartedOwes ==
  ASSUME TypeOK, NEW n \in Nodes, NEW active \in SUBSET Nodes,
         Started(n, active).pc \in {"walking", "awaiting", "completed"}
  PROVE  /\ Owed(n) \subseteq Elements(Started(n, active).todo)
         /\ graph.kind[n] # "parallel" /\ Started(n, active).pc = "walking"
<1> DEFINE s == Started(n, active)
<1>1. s.pc = "walking"
  BY StartedType
<1>2. \/ graph.kind[n] = "transform" /\ s.todo = graph.out[n]
      \/ graph.kind[n] = "sequential" /\ s.todo = graph.steps[n] \o graph.out[n]
  BY <1>1, StartedPlace
<1>3. Elements(graph.steps[n]) \cup Elements(graph.out[n]) \subseteq Elements(graph.steps[n] \o graph.out[n])
  BY ElementsOfConcat DEF TypeOK, Graph
<1> QED BY <1>1, <1>2, <1>3, OwedOfKind

(* What a node that moves by itself still owes is what it goes on to.       *)
LEMMA OwnOwes ==
  ASSUME TypeInv, OwedInv, NEW n \in Nodes, Own(n)
  PROVE  \E pc \in Pc, todo \in Seq(Nodes) :
           /\ Moves(n, pc, todo)
           /\ pc \in {"walking", "awaiting", "completed"} =>
                /\ \A t \in Owed(n) : t \in Elements(todo) \/ node[t].pc = "completed"
                /\ graph.kind[n] = "parallel" => \A t \in Elements(Targets(n)) : node[t].pc = "completed"
                /\ pc = "completed" => todo = << >>
<1> DEFINE Keeps(todo) ==
      /\ \A t \in Owed(n) : t \in Elements(todo) \/ node[t].pc = "completed"
      /\ graph.kind[n] = "parallel" => \A t \in Elements(Targets(n)) : node[t].pc = "completed"
<1>1. /\ node[n].todo \in Seq(Nodes) /\ graph.out[n] \in Seq(Nodes)
      /\ << >> \in Seq(Nodes) /\ \A t \in Nodes : <<t>> \in Seq(Nodes)
  BY DEF TypeInv, TypeOK, State, Graph
<1>2. node[n].todo # << >> =>
        /\ Tail(node[n].todo) \in Seq(Nodes)
        /\ Elements(node[n].todo) = {Head(node[n].todo)} \cup Elements(Tail(node[n].todo))
  BY <1>1, HeadAndTail
<1>3. node[n].pc = "awaiting" => node[n].todo # << >>
  BY DEF TypeInv, TypeOK
<1>4. node[n].pc \in {"walking", "awaiting"} => Keeps(node[n].todo)
  BY DEF OwedInv
<1>5. node[n].pc = "joining" /\ (\A t \in Elements(Targets(n)) : Fulfilled(n, t))
        => Keeps(graph.out[n])
  BY OwedOfKind DEF TypeInv, PlaceInv, Fulfilled
<1>6. node[n].pc = "agent" => Keeps(graph.out[n])
  BY OwedOfKind DEF TypeInv, PlaceInv
<1>7. node[n].pc = "condition" => \A t \in Nodes : Keeps(<<t>>)
  BY OwedOfKind DEF TypeInv, PlaceInv
<1>8. /\ node[n].pc = "walking" /\ node[n].todo # << >> /\ IsBranch(n, Head(node[n].todo))
      => Keeps(Tail(node[n].todo))
  BY <1>2, <1>4 DEF IsBranch
<1>9. node[n].pc = "awaiting" /\ Fulfilled(n, Head(node[n].todo)) => Keeps(Tail(node[n].todo))
  BY <1>2, <1>3, <1>4 DEF Fulfilled
<1>10. node[n].pc = "walking" /\ node[n].todo = << >> => Keeps(<< >>)
  BY <1>4
<1> HIDE DEF Keeps
<1>11. \E pc \in Pc, todo \in Seq(Nodes) :
         /\ Moves(n, pc, todo)
         /\ pc \in {"walking", "awaiting", "completed"} =>
              Keeps(todo) /\ (pc = "completed" => todo = << >>)
  BY <1>1, <1>2, <1>3, <1>5, <1>6, <1>7, <1>8, <1>9, <1>10 DEF Own, Pc
<1> QED BY <1>11 DEF Keeps

(* Completed nodes stay so, and the others owe what they owed.              *)
LEMMA OwedKept ==
  ASSUME TypeOK, OwedInv, NEW n \in Nodes, graph' = graph,
         \A t \in Nodes : node[t].pc = "completed" => node'[t].pc = "completed",
         node'[n].pc \in {"walking", "awaiting", "completed"},
         NEW todo, node'[n].todo = todo,
         /\ \A t \in Owed(n) : t \in Elements(todo) \/ node[t].pc = "completed"
         /\ graph.kind[n] = "parallel" => \A t \in Elements(Targets(n)) : node[t].pc = "completed"
         /\ node'[n].pc = "completed" => todo = << >>
  PROVE  /\ \A t \in Owed(n)' : t \in Elements(node'[n].todo) \/ node'[t].pc = "completed"
         /\ graph'.kind[n] = "parallel" => \A t \in Elements(Targets(n)') : node'[t].pc = "completed"
         /\ node'[n].pc = "completed" => node'[n].todo = << >>
<1>1. Owed(n)' = Owed(n) /\ Targets(n)' = Targets(n)
  BY DEF Owed, Targets
<1>2. Owed(n) \subseteq Nodes /\ Elements(Targets(n)) \subseteq Nodes
  <2>1. graph.steps[n] \in Seq(Nodes) /\ graph.out[n] \in Seq(Nodes)
    BY DEF TypeOK, Graph
  <2>2. Elements(graph.steps[n]) \subseteq Nodes /\ Elements(graph.out[n]) \subseteq Nodes
    BY <2>1, ElementsOfSeq
  <2> QED BY <2>2 DEF Owed, Targets
<1> QED BY <1>1, <1>2

LEMMA OwedStep == TypeInv /\ OwedInv /\ [Next]_vars => OwedInv'
<1> SUFFICES ASSUME TypeInv, OwedInv, [Next]_vars,
                    NEW n \in Nodes, node'[n].pc \in {"walking", "awaiting", "completed"}
             PROVE  /\ \A t \in Owed(n)' : t \in Elements(node'[n].todo) \/ node'[t].pc = "completed"
                    /\ graph'.kind[n] = "parallel" =>
                         \A t \in Elements(Targets(n)') : node'[t].pc = "completed"
                    /\ node'[n].pc = "completed" => node'[n].todo = << >>
  BY DEF OwedInv
<1> DEFINE Done == \A t \in Nodes : node[t].pc = "completed" => node'[t].pc = "completed"
           Keeps(todo) ==
             /\ \A t \in Owed(n) : t \in Elements(todo) \/ node[t].pc = "completed"
             /\ graph.kind[n] = "parallel" => \A t \in Elements(Targets(n)) : node[t].pc = "completed"
             /\ node'[n].pc = "completed" => todo = << >>
<1>1. SUFFICES graph' = graph /\ Done /\ Keeps(node'[n].todo)
  BY OwedKept DEF TypeInv
<1>2. ASSUME NEW m \in Nodes, node'[m] = node[m], m = n  PROVE Keeps(node'[n].todo)
  BY <1>2 DEF OwedInv
<1>3. ASSUME NEW active \in SUBSET Nodes, node'[n] = Started(n, active)
      PROVE  Keeps(node'[n].todo)
  BY <1>3, StartedOwes DEF TypeInv
<1>4. CASE Execute
  <2>1. /\ graph.entry \in Nodes /\ node'[graph.entry] = Started(graph.entry, {graph.entry})
        /\ \A m \in Nodes : node[m].pc = "new"
        /\ \A m \in Nodes : m # graph.entry => node'[m] = node[m]
        /\ graph' = graph
    BY <1>4, ExecuteEffect
  <2>2. n = graph.entry
    BY <2>1
  <2>3. {graph.entry} \in SUBSET Nodes
    BY <2>1
  <2> HIDE DEF Keeps
  <2> QED BY <1>3, <2>1, <2>2, <2>3
<1>5. ASSUME UNCHANGED <<graph, node>>  PROVE graph' = graph /\ Done /\ Keeps(node'[n].todo)
  BY <1>2, <1>5
<1>6. ASSUME NEW m \in Nodes, Calls(m)
      PROVE  graph' = graph /\ Done /\ Keeps(node'[n].todo)
  <2>1. PICK t \in Nodes : t = Head(node[m].todo) /\ CallOutcome(m, t)
    BY <1>6, CallEffect
  <2>2. graph' = graph /\ Done
    <3>1. \A k \in Nodes \ {m, t} : node'[k] = node[k]
      BY <2>1 DEF CallOutcome
    <3>2. node[m].pc # "completed" /\ (node[t].pc = "completed" => node'[t] = node[t])
      BY <2>1 DEF CallOutcome
    <3>3. graph' = graph
      BY <2>1 DEF CallOutcome
    <3> QED BY <3>1, <3>2, <3>3
  <2>3. CASE n = m
    <3>1. node[n].pc = "walking" /\ node'[n].pc = "awaiting" /\ node'[n].todo = node[n].todo
      BY <2>1, <2>3 DEF CallOutcome
    <3> QED BY <2>2, <3>1 DEF OwedInv
  <2>4. CASE n # m
    <3>1. \/ node'[n] = node[n]
          \/ n = t /\ node'[n] = Started(n, node[m].active \cup {t})
      BY <2>1, <2>4 DEF CallOutcome
    <3>2. node[m].active \cup {t} \in SUBSET Nodes
      BY <2>1 DEF TypeInv, TypeOK, State
    <3> HIDE DEF Keeps
    <3> QED BY <1>2, <1>3, <2>2, <3>1, <3>2
  <2> QED BY <2>3, <2>4
<1>7. ASSUME NEW m \in Nodes, Own(m)
      PROVE  graph' = graph /\ Done /\ Keeps(node'[n].todo)
  <2>1. PICK pc \in Pc, todo \in Seq(Nodes) :
           /\ Moves(m, pc, todo)
           /\ pc \in {"walking", "awaiting", "completed"} =>
                /\ \A t \in Owed(m) : t \in Elements(todo) \/ node[t].pc = "completed"
                /\ graph.kind[m] = "parallel" => \A t \in Elements(Targets(m)) : node[t].pc = "completed"
                /\ pc = "completed" => todo = << >>
    BY <1>7, OwnOwes
  <2>2. /\ node'[m].pc = pc /\ node'[m].todo = todo
        /\ \A k \in Nodes : k # m => node'[k] = node[k]
    BY <2>1, MoveEffect DEF TypeInv
  <2>3. graph' = graph /\ node[m].pc # "completed"
    BY <1>7, <2>1 DEF Own, Moves
  <2>4. Done
    BY <2>2, <2>3
  <2>5. CASE n = m
    BY <2>1, <2>2, <2>3, <2>4, <2>5
  <2>6. CASE n # m
    <3>1. node'[n] = node[n]
      BY <2>2, <2>6
    <3> HIDE DEF Keeps
    <3> QED BY <1>2, <2>3, <2>4, <3>1
  <2> QED BY <2>5, <2>6
<1>8. ASSUME NEW m \in Nodes, Drive(m)
      PROVE  graph' = graph /\ Done /\ Keeps(node'[n].todo)
  BY <1>6, <1>7, <1>8, DriveIsCallOrMove DEF TypeInv
<1>9. Return \/ Abort \/ UNCHANGED vars => UNCHANGED <<graph, node>>
  BY DEF Return, Abort, vars
<1> HIDE DEF Keeps, Done
<1> QED BY <1>4, <1>5, <1>8, <1>9 DEF Next

(* A completed workflow is whole: no failure, cycle or abort below it is    *)
(* lost, and every node has completed all it leads to.                      *)
THEOREM CompletedIsWholeHolds == Spec => []CompletedIsWhole
<1>1. Init => OwedInv
  BY DEF Init, OwedInv, At
<1>2. ASSUME TypeInv, FailInv, result = "completed", NEW m \in Nodes
      PROVE  node[m].pc \in {"new", "completed"}
  <2> SUFFICES ASSUME node[m].pc \in Live \cup {"failed"} PROVE FALSE
    <3>1. node[m].pc \in Pc
      BY <1>2 DEF TypeInv, TypeOK, State
    <3> QED BY <3>1 DEF Pc, Live
  <2>1. graph.entry \in node[m].active /\ node[graph.entry].pc = "completed"
    BY <1>2 DEF TypeInv, PlaceInv, Live, Ended
  <2>2. graph.entry # m
    BY <2>1 DEF Live
  <2>3. \E c \in node[m].active : Waits(graph.entry, c)
    BY <1>2, <2>1, <2>2 DEF FailInv, PathInv
  <2> QED BY <2>1, <2>3 DEF Waits
<1>3. ASSUME OwedInv, NEW n \in Nodes, node[n].pc = "completed", NEW t \in Owed(n)
      PROVE  node[t].pc = "completed"
  <2>1. node[n].todo = << >> /\ (t \in Elements(node[n].todo) \/ node[t].pc = "completed")
    BY <1>3 DEF OwedInv
  <2> QED BY <2>1 DEF Elements
<1>4. TypeInv /\ FailInv /\ OwedInv => CompletedIsWhole
  BY <1>2, <1>3 DEF CompletedIsWhole
<1>5. TypeInv /\ OwedInv /\ [Next]_vars => OwedInv'
  BY OwedStep
<1> QED BY <1>1, <1>4, <1>5, PathsInvariant, PTL DEF Spec

(* A workflow that has returned is over, and a completed one is whole.      *)
THEOREM ReturnedIsOverHolds == Spec => []ReturnedIsOver
BY NothingRunsOnHolds, CompletedIsWholeHolds, PTL DEF ReturnedIsOver

=============================================================================
