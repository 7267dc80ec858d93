----------------------------- MODULE MCSession ------------------------------
(* Session with both ends as model values. *)
EXTENDS Session

CONSTANTS a, b
=============================================================================
