----------------------------- MODULE MCModLoad -----------------------------
(* ModLoad for TLC.  Its state space is finite as it stands.               *)
EXTENDS ModLoad, TLC
=============================================================================
