--------------------------- MODULE MigrationHistory ---------------------------
(***************************************************************************)
(* What MigrationRunner promises of every database: the ids recorded in    *)
(* schema_migrations are the first ones of the list, in the list's order,  *)
(* each once. A database that is created anew starts again from nothing.   *)
(***************************************************************************)
EXTENDS Naturals, Sequences

CONSTANTS
    Databases,      \* database names
    Migrations      \* the composed list of migration ids, a sequence

VARIABLE history    \* per database, the ids in the order they took effect

Init == history \in [Databases -> {SubSeq(Migrations, 1, k) : k \in 0 .. Len(Migrations)}]

\* The next migration of the list takes effect.
Apply(d) ==
    /\ Len(history[d]) < Len(Migrations)
    /\ history' = [history EXCEPT ![d] = Append(@, Migrations[Len(@) + 1])]

\* The database is dropped or its tables are built again.
Reset(d) == history' = [history EXCEPT ![d] = <<>>]

Next == \E d \in Databases : Apply(d) \/ Reset(d)

Spec == Init /\ [][Next]_history
===============================================================================
