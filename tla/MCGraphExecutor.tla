--------------------------- MODULE MCGraphExecutor ---------------------------
(***************************************************************************)
(* GraphExecutor with a node that has an implementation and one that has   *)
(* none.                                                                   *)
(***************************************************************************)
EXTENDS GraphExecutor
============================================================================
