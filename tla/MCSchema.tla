------------------------------ MODULE MCSchema ------------------------------
(* The framework, the control database, and small applications: two or three *)
(* tables with keys, and a few more calls of any kind.                       *)
EXTENDS FrameworkSchema

KeyTable(t) == Table(t, << Serial("id") >>)

MCScripts == { MakeFrameworkTables, MakeControlDatabaseInfo,
               << KeyTable("a"), Table("b", << PrimaryKey("id", "INT"), Ref("a", "a", "id") >>) >>,
               << KeyTable("a"), KeyTable("b"), Table("c", << Ref("b", "b", "id"), Ref("a", "a", "id") >>) >> }

MCFreeCalls ==
  { On(t, c) : t \in {"a", "b"},
               c \in { Simple("x", "JSON"), Unique("x", "BYTES"), Nullable("x", "TIME"),
                       Default("x", "DOUBLE"), Together({"x"}), Together({"x", "id"}),
                       Ref("x", "a", "id"), RefNullable("x", "b", "id"), Ref("y", "a", "id"),
                       Ref("y", "c", "b"), Ref("x", "a", "x") } }
    \cup { [op |-> "table", table |-> "a"] }
=============================================================================
