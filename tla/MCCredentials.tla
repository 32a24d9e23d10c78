---------------------------- MODULE MCCredentials ----------------------------
(* Credentials with two interchangeable clients.                           *)
EXTENDS Credentials, TLC

CONSTANTS c1, c2

ClientSymmetry == Permutations(Clients)
=============================================================================
