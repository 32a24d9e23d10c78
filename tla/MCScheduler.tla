----------------------------- MODULE MCScheduler -----------------------------
(* Scheduler on small job lists.  a and b are tenants (login targets).     *)
EXTENDS Scheduler, TLC

CONSTANTS a, b

Job(n, tg) == [name |-> n, target |-> tg, enabled |-> TRUE]
Disabled(n, tg) == [name |-> n, target |-> tg, enabled |-> FALSE]

(* A reload shrinks the list or grows it, drops a tenant or adds one, and  *)
(* puts another job in the first place.  Every job name is used once per   *)
(* list.                                                                   *)
DistinctNames ==
  {<<Job("billing_a", a), Job("billing_b", b)>>,
   <<Disabled("billing_a", a), Job("reminders_b", b)>>}
=============================================================================
