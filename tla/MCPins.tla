------------------------------- MODULE MCPins -------------------------------
(* Pins for TLC: an output, an input, and the two that cms-svr toggles.    *)
EXTENDS Pins

CONSTANTS led, wdi, lamp, di
SomePins == <<[pin |-> wdi, dir |-> "out"], [pin |-> led, dir |-> "out"],
              [pin |-> di, dir |-> "in"]>>
=============================================================================
