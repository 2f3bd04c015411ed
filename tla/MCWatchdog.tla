----------------------------- MODULE MCWatchdog -----------------------------
(* Watchdog for TLC.  The callers are interchangeable.                     *)
EXTENDS Watchdog, TLC

Symmetry == Permutations(Callers)
=============================================================================
