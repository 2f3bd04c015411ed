---------------------------- MODULE MCCmsServer ----------------------------
(* CmsServer for TLC.  No symmetry: the run also checks liveness.          *)
EXTENDS CmsServer, TLC
=============================================================================
