------------------------------- MODULE MCDmi -------------------------------
(***************************************************************************)
(* Dmi with one other device in the chain, as on the GD32VF103.            *)
(***************************************************************************)
EXTENDS Dmi
=============================================================================
