---------------------------- MODULE MCBroadcast ----------------------------
(* Broadcast for TLC: /proc/net/dev lists the loopback device, and maybe   *)
(* usb0, before, between and after the Ethernet devices, or is not read.  *)
EXTENDS Broadcast

CONSTANTS eth0, eth1, eth2, lo, usb0

AnyDevices ==
  {<<>>, <<eth0, lo>>, <<lo, eth0, eth1, eth2>>, <<usb0, eth2, lo, eth0>>}
=============================================================================
