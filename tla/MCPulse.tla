------------------------------ MODULE MCPulse ------------------------------
(* Pulse for TLC: the constants are plain values, given in Pulse.cfg.      *)
EXTENDS Pulse
=============================================================================
