---------------------------- MODULE MCRunControl ----------------------------
(* Instances of RunControl for TLC.  Messages and sessions are numbered in  *)
(* the order of their creation, so there is no symmetry to use.             *)
EXTENDS RunControl
=============================================================================
