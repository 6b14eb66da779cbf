-------------------------- MODULE MCMigrationRunner -------------------------
(***************************************************************************)
(* TLC instances of MigrationRunner: an old build, a new one and a build   *)
(* whose definition of the last migration was edited.                      *)
(***************************************************************************)
EXTENDS MigrationRunner

CONSTANTS p1, p2, p3, p4, a, b

\* p1 is the old build.
OldAndNew == [p \in Proc |-> IF p = p1 THEN Count - 1 ELSE Count]

\* p3 has edited the last migration.
Edited == [p \in Proc |-> [m \in Migration |-> IF p = p3 /\ m = Count THEN b ELSE a]]
=============================================================================
