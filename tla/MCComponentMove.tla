-------------------------- MODULE MCComponentMove --------------------------
(* Builds as model values. *)
EXTENDS ComponentMove
CONSTANTS v1, v2, v3, v4
=============================================================================
