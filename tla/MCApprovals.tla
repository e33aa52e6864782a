----------------------------- MODULE MCApprovals -----------------------------
(***************************************************************************)
(* Approvals with a call about the whole tool, a call of another run about  *)
(* a path that a guard escalates and that the gate asks about and the tool  *)
(* asks about again, and a self-correction on that path in the second run:  *)
(* a no to the first covers all three, across the runs.                     *)
(* Or UserPrompts with two asks of one run, one of them with a timeout, and *)
(* one of another run, whose events may be rejected.                        *)
(***************************************************************************)
EXTENDS UserDialogs, TLC

CONSTANTS c1, c2, c3, r1, r2, path, whole, a1, a2, a3

RunOfCall   == [c \in Calls |-> IF c = c1 THEN r1 ELSE r2]
ScopeOfCall == [c \in Calls |-> IF c = c1 THEN whole ELSE path]
RunOfAnAsk  == [a \in Asks |-> IF a = a3 THEN r2 ELSE r1]

(* The policy does not matter to the questions of tools.                    *)
MCInit == AskInit /\ (asking = "answer" => policy = "deny" /\ mode = "approve")
MCSpec == MCInit /\ [][AskNext]_askVars /\ AskFairness
=============================================================================
