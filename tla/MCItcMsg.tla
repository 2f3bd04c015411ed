------------------------------ MODULE MCItcMsg ------------------------------
(* ItcMsg for TLC.                                                         *)
EXTENDS ItcMsg
=============================================================================
