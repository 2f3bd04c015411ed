---------------------------- MODULE MCDiscovery ----------------------------
(* Discovery for TLC.  No symmetry: the run also checks liveness.          *)
EXTENDS Discovery, TLC
=============================================================================
