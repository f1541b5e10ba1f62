----------------------------- MODULE MCRunLoop ------------------------------
(***************************************************************************)
(* Small instances of RunLoop.                                             *)
(***************************************************************************)
EXTENDS RunClaims

CONSTANTS w1, w2

OneEach == [w \in Workers |-> 1]
TwoEach == [w \in Workers |-> 2]
=============================================================================
