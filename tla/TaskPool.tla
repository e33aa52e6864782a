------------------------------ MODULE TaskPool ------------------------------
(***************************************************************************)
(* What runConcurrent promises: the tasks begin in order, a bounded number *)
(* of them is under way at a time, and the call returns when all of them   *)
(* have ended.                                                             *)
(***************************************************************************)
EXTENDS Naturals, FiniteSets

CONSTANTS Count,  \* number of tasks
          Width   \* how many may be under way

VARIABLES begun, ended, returned

vars == <<begun, ended, returned>>

Within(b, e) == Cardinality((1 .. b) \ e) <= Width

Init == /\ begun \in 0 .. Count /\ Within(begun, {})
        /\ ended = {}
        /\ returned = FALSE

End(i) == /\ i \in (1 .. begun) \ ended
          /\ ended' = ended \cup {i}
          /\ begun' \in begun .. Count
          /\ Within(begun', ended')
          /\ UNCHANGED returned

Return == /\ ~ returned
          /\ ended = 1 .. Count
          /\ returned' = TRUE
          /\ UNCHANGED <<begun, ended>>

Next == (\E i \in 1 .. Count : End(i)) \/ Return

Spec == Init /\ [][Next]_vars
=============================================================================
