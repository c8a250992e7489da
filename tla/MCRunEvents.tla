----------------------------- MODULE MCRunEvents -----------------------------
(* RunEvents on a small instance. *)
EXTENDS RunEvents

=============================================================================
