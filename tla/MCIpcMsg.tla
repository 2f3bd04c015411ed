------------------------------ MODULE MCIpcMsg ------------------------------
(* IpcMsg for TLC: one sender sends twice, the other once. *)
EXTENDS IpcMsg

CONSTANTS s1, s2
Sends == (s1 :> 2) @@ (s2 :> 1)
=============================================================================
