-------------------------- MODULE PublishedTables --------------------------
(***************************************************************************)
(* What an installation of the database promises to whoever reads it: a    *)
(* table, once there, is only ever replaced, as a whole, by the whole      *)
(* image of some source; the first tables may come from a verified bundle. *)
(***************************************************************************)
CONSTANTS
    Table,     \* the names of the analytical tables
    Whole,     \* Whole[t]: the tables that are the image of a whole source
    Bundled,   \* Bundled[b]: the tables of bundle b, by name
    NoTable

VARIABLE tables   \* the tables of the database

Init == tables = [t \in Table |-> NoTable]

\* A load of table t is published.
Replace(t) == \E w \in Whole[t] : tables' = [tables EXCEPT ![t] = w]

\* A prebuilt database is put where there was none.
Install ==
    /\ tables = [t \in Table |-> NoTable]
    /\ \E b \in DOMAIN Bundled : tables' = Bundled[b]

Next == Install \/ \E t \in Table : Replace(t)

Spec == Init /\ [][Next]_tables
=============================================================================
