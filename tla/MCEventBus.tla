----------------------------- MODULE MCEventBus -----------------------------
(***************************************************************************)
(* EventBus with one consumer that replays and one handler that may do     *)
(* anything while it is called.                                            *)
(***************************************************************************)
EXTENDS EventBus

CONSTANTS replay, handler
=============================================================================
