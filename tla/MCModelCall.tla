----------------------------- MODULE MCModelCall -----------------------------
(***************************************************************************)
(* ModelCall with a primary model and two to fall back on.                 *)
(***************************************************************************)
EXTENDS ModelCall

CONSTANTS second, third

Fallbacks == <<second, third>>
=============================================================================
