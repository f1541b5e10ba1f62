---------------------------- MODULE MCDelegation ----------------------------
(* An instance of DelegationScheduler for TLC: a single task and two        *)
(* batches, of which the allowance of three admits one and the task but not *)
(* both, so that two workers leave something running, queued and refused.   *)
EXTENDS DelegationScheduler

Uneven == <<2, 1, 2>>
=============================================================================
