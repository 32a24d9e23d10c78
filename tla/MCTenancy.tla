------------------------------ MODULE MCTenancy ------------------------------
(* Tenancy with one tenant and two requests.                               *)
EXTENDS Tenancy, TLC

CONSTANTS s1, r1, r2
=============================================================================
