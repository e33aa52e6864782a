---------------------------- MODULE McpExchange ----------------------------
(***************************************************************************)
(* What a transport promises its caller: a request gets its answer or      *)
(* fails, once, and close fails at once whatever is outstanding.           *)
(***************************************************************************)
CONSTANT Requests

VARIABLES call, closed

vars == <<call, closed>>

Init == call = [r \in Requests |-> "new"] /\ closed = FALSE

Send(r) == /\ call[r] = "new"
           /\ call' = [call EXCEPT ![r] = IF closed THEN "failed" ELSE "waiting"]
           /\ UNCHANGED closed

Settle(r) == /\ call[r] = "waiting"
             /\ \E s \in {"answered", "failed"} : call' = [call EXCEPT ![r] = s]
             /\ UNCHANGED closed

Close == /\ ~ closed /\ closed' = TRUE
         /\ call' = [r \in Requests |-> IF call[r] = "waiting" THEN "failed" ELSE call[r]]

Next == Close \/ \E r \in Requests : Send(r) \/ Settle(r)

Spec == Init /\ [][Next]_vars
=============================================================================
