---------------------------- MODULE MCSessionSeam ----------------------------
(* Instances of SessionSeam for TLC. *)
EXTENDS SessionSeam
=============================================================================
