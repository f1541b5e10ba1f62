----------------------------- MODULE MCRunLease -----------------------------
(* Instances of RunLease for TLC: hosts that are interchangeable.           *)
EXTENDS RunLease, TLC

HostSymmetry == Permutations(Hosts)
=============================================================================
