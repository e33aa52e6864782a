----------------------------- MODULE MCAgentGraph -----------------------------
(***************************************************************************)
(* AgentGraph over workflows of four nodes: an entry with two branches (or *)
(* steps, or targets) of any kind, which may join, go back or cross.       *)
(***************************************************************************)
EXTENDS AgentGraph

Lists(S) == {<< >>} \cup {<<s>> : s \in S}

Workflows ==
  {[kind  |-> <<k1, k2, k3, k4>>,
    steps |-> <<<<2, 3>>, <<3, 4>>, << >>, << >>>>,
    out   |-> <<o1, o2, o3, o4>>,
    entry |-> 1] :
     k1 \in {"parallel", "sequential", "condition"},
     k2 \in {"agent", "transform", "parallel", "sequential"},
     k3 \in {"agent", "parallel"},
     k4 \in {"agent"},
     o1 \in {<< >>, <<2, 4>>},
     o2 \in Lists({3, 4}),
     o3 \in Lists({2, 4}),
     o4 \in Lists({1, 2})}
=============================================================================
