----------------------------- MODULE MCStorage -----------------------------
(* Storage on small instances. *)
EXTENDS Storage, TLC
=============================================================================
