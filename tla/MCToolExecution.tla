-------------------------- MODULE MCToolExecution ---------------------------
(* Instances of ToolExecution for TLC.  Executions are numbered in the order *)
(* in which they are called, so there is no symmetry to use.                 *)
EXTENDS ToolExecution
=============================================================================
