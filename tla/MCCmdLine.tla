----------------------------- MODULE MCCmdLine -----------------------------
(* CmdLine for TLC: the constants are plain values, given in CmdLine.cfg.  *)
EXTENDS CmdLine
=============================================================================
