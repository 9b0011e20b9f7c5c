----------------------------- MODULE MCDispatch -----------------------------
(* Instances of the history, with what bodies and guards read from it. *)
EXTENDS Dispatch, MCRunState

=============================================================================
