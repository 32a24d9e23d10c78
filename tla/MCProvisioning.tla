---------------------------- MODULE MCProvisioning ----------------------------
(* Two operators, one old tenant and room for a second. *)
EXTENDS Provisioning, TLC

===============================================================================
