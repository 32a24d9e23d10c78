-------------------------- MODULE MCConnectionPool --------------------------
(* ConnectionPool with one slot for three threads: acquisitions wait, and  *)
(* a newcomer competes with the waiter that was woken.                     *)
EXTENDS ConnectionPool
=============================================================================
