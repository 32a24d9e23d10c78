--------------------------- MODULE MCLoginLockout ---------------------------
(* LoginLockout with interchangeable clients.                              *)
EXTENDS LoginLockout, TLC

CONSTANTS c1, c2, c3

ClientSymmetry == Permutations(Clients)
=============================================================================
