----------------------------- MODULE MCNetParam -----------------------------
(* NetParam for TLC: programs save the address of eth0 and the mask of     *)
(* eth1.                                                                   *)
EXTENDS NetParam

SomeSaves == {<<0, "ipaddr">>, <<1, "mask">>}
=============================================================================
