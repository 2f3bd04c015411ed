--------------------------- MODULE MCRecoverDisk ---------------------------
(* RecoverDisk for TLC.  The processes are interchangeable.                *)
EXTENDS RecoverDisk, TLC

Symmetry == Permutations(Runs)
=============================================================================
