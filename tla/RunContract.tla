---------------------------- MODULE RunContract ----------------------------
(***************************************************************************)
(* What a kernel promises about each call of run() or resumeRun(): it is   *)
(* refused at once, or it reports one verdict through the event log and    *)
(* then closes.  A call may be lost instead (its promise rejects, or the   *)
(* process dies); then it says nothing more.                               *)
(***************************************************************************)
CONSTANT Calls

VARIABLES status, verdict

vars == <<status, verdict>>

Status == {"new", "refused", "open", "reported", "closed", "lost"}
Report == {"succeeded", "failed", "cancelled"}

Init == /\ status  = [a \in Calls |-> "new"]
        /\ verdict = [a \in Calls |-> "none"]

Move(a, from, to) == /\ status[a] = from
                     /\ status' = [status EXCEPT ![a] = to]

Refuse(a) == Move(a, "new", "refused") /\ UNCHANGED verdict
Admit(a)  == Move(a, "new", "open") /\ UNCHANGED verdict

Tell(a) == /\ Move(a, "open", "reported")
           /\ \E v \in Report : verdict' = [verdict EXCEPT ![a] = v]

Close(a) == Move(a, "reported", "closed") /\ UNCHANGED verdict

(* A crash loses every open call at once.                                   *)
Lose(S) == /\ S # {}
           /\ \A a \in S : status[a] \in {"new", "open", "reported"}
           /\ status'  = [a \in Calls |-> IF a \in S THEN "lost" ELSE status[a]]
           /\ verdict' = [a \in Calls |-> IF a \in S THEN "none" ELSE verdict[a]]

Next == \/ \E a \in Calls : Refuse(a) \/ Admit(a) \/ Tell(a) \/ Close(a)
        \/ \E S \in SUBSET Calls : Lose(S)

Spec == Init /\ [][Next]_vars

(* An admitted call is answered.                                            *)
FairSpec == Spec /\ \A a \in Calls : WF_vars(Tell(a)) /\ WF_vars(Close(a))
============================================================================
