-------------------------- MODULE MCPendingInputs --------------------------
(***************************************************************************)
(* PendingInputs with a few inputs, and faults in the run that must hold   *)
(* in spite of them.                                                       *)
(***************************************************************************)
EXTENDS PendingInputs
=============================================================================
