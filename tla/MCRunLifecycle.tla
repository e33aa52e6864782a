-------------------------- MODULE MCRunLifecycle --------------------------
(***************************************************************************)
(* RunLifecycle on small instances.                                        *)
(***************************************************************************)
EXTENDS RunLifecycle, TLC

Symmetry == Permutations(Runs) \cup Permutations(Sessions)

(* The local variables of an activation are gone once it is over: no action *)
(* and no property of the run with this view reads them any more.           *)
Locals(a) == IF phase[a] \in {"refused", "settled", "threw", "dead"} THEN << >>
             ELSE <<step[a], handoffs[a], resumed[a], a \in aborted>>

LiveView == <<phase, outcome, identity, [a \in Runs |-> Locals(a)], saga, effects,
              reg, durable, crashes>>
============================================================================
