-------------------------- MODULE RunStateMachine --------------------------
(***************************************************************************)
(* The registry of live runs: step-executor/src/run-state.ts.              *)
(*                                                                         *)
(* One RunStateMachine is shared by every run of a kernel.  It is only     *)
(* ever changed by synchronous methods, so each method is an operator from *)
(* a registry to a registry and the actions of RunLifecycle apply them.    *)
(*                                                                         *)
(* A registry is a record of                                               *)
(*   states   run id -> its RunState, or "absent" (no entry in the map)    *)
(*   aborts   run id -> the activation whose AbortController is registered *)
(*            for it, or None                                              *)
(*   busy     the sessions that a run occupies                             *)
(*   retired  the run ids whose state is kept for post-mortem queries      *)
(*            only, oldest first                                           *)
(***************************************************************************)
EXTENDS Naturals, Sequences

CONSTANTS Runs,      \* run ids, and the activations of run() / resumeRun()
          Sessions,  \* session ids
          None,      \* no run, no session
          Retained   \* options.retainedTerminalStates

ASSUME NoneAssumption == None \notin Runs /\ None \notin Sessions
ASSUME RetainedAssumption == Retained \in Nat

RunState == {"pending", "running", "completed", "failed", "cancelled"}

Registry == [states  : [Runs -> RunState \cup {"absent"}],
             aborts  : [Runs -> Runs \cup {None}],
             busy    : SUBSET Sessions,
             retired : Seq(Runs)]

EmptyRegistry == [states  |-> [r \in Runs |-> "absent"],
                  aborts  |-> [r \in Runs |-> None],
                  busy    |-> {},
                  retired |-> << >>]

IsActiveRun(reg, r) == reg.aborts[r] # None

SetState(reg, r, state) == [reg EXCEPT !.states[r] = state]

Retired(reg, r) == \E i \in DOMAIN reg.retired : reg.retired[i] = r

Unretire(reg, r) ==
  LET i == CHOOSE i \in DOMAIN reg.retired : reg.retired[i] = r
  IN  IF Retired(reg, r)
      THEN [reg EXCEPT !.retired = SubSeq(@, 1, i - 1) \o SubSeq(@, i + 1, Len(@))]
      ELSE reg

(* retire() with its eviction loop.  The list is within its bound before   *)
(* the call, so the loop evicts one run at most; a run that is active      *)
(* again keeps its state.                                                  *)
Retire(reg, r) ==
  LET queue  == IF Retired(reg, r) THEN reg.retired ELSE Append(reg.retired, r)
      oldest == Head(queue)
  IN  IF Len(queue) <= Retained
      THEN [reg EXCEPT !.retired = queue]
      ELSE [reg EXCEPT !.retired = Tail(queue),
                       !.states[oldest] = IF IsActiveRun(reg, oldest)
                                          THEN @ ELSE "absent"]

(* Mutant: the parent is inferred from whatever run is active.              *)
BypassesBesideAnyRun(reg, parentId) == \E r \in Runs : IsActiveRun(reg, r)

(* A child run bypasses the busy check while its parent is active.         *)
BypassesBusyCheck(reg, parentId) == parentId # None /\ IsActiveRun(reg, parentId)

(* Registering the run comes first: the check that refuses it comes after. *)
Claim(reg, r, activation) ==
  SetState([Unretire(reg, r) EXCEPT !.aborts[r] = activation], r, "pending")

Admits(reg, r, activation, s, parentId) ==
  \/ BypassesBusyCheck(Claim(reg, r, activation), parentId)
  \/ s \notin reg.busy

CreateRun(reg, r, activation, s, parentId) ==
  LET claimed == Claim(reg, r, activation)
  IN  CASE BypassesBusyCheck(claimed, parentId) -> claimed
        [] ~ BypassesBusyCheck(claimed, parentId) /\ s \in reg.busy ->
             Retire([claimed EXCEPT !.aborts[r] = None], r)
        [] OTHER -> [claimed EXCEPT !.busy = @ \cup {s}]

(* Mutant: the session stays busy.                                          *)
CleanupKeepsBusy(reg, r, s) == Retire([reg EXCEPT !.aborts[r] = None], r)

CleanupRun(reg, r, s) ==
  Retire([reg EXCEPT !.aborts[r] = None, !.busy = @ \ {s}], r)

(* The activations whose controllers cancelAll() aborts.                   *)
CancelAllTargets(reg) == {reg.aborts[r] : r \in Runs} \ {None}
============================================================================
