----------------------------- MODULE MCEndGuard -----------------------------
(* Instances of EndGuard for TLC. *)
EXTENDS EndGuard
=============================================================================
