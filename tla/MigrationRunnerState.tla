------------------------ MODULE MigrationRunnerState ------------------------
(***************************************************************************)
(* The migration ledger: the builds of the application that call           *)
(* migrate(), the migrations they know, the ledger and the schema, and     *)
(* what holds of them whatever the calls do.                               *)
(***************************************************************************)
EXTENDS Naturals

CONSTANTS
  Proc,    \* calls of migrate(), each by a process of its own
  Count,   \* bound: the number of migrations
  Last,    \* per process, the last migration its build knows
  Sum,     \* checksums
  SumOf,   \* per process and migration, the checksum of its definition
  NoSum    \* the ledger has no row

Migration == 1..Count

ASSUME RunnerAssumption ==
  /\ Count \in Nat
  /\ Last \in [Proc -> 0..Count]
  /\ SumOf \in [Proc -> [Migration -> Sum]]
  /\ NoSum \notin Sum

VARIABLES
  ledger,  \* cf_schema_migration: per migration its checksum and status
  body,    \* history: the checksums of the bodies committed for a migration
  proc,    \* per process where migrate() is and the migration its loop is at
  leased   \* whether the callers take the migration lease, so that calls never overlap

Known(p) == 1..Last[p]

Applied == {m \in Migration : ledger[m].status = "APPLIED"}
Schema  == {m \in Migration : body[m] # {}}

-----------------------------------------------------------------------------
(***************************************************************************)
(* migration-runner.md, "Applied migration definitions are therefore       *)
(* immutable": of all definitions of a migration only the one its row was  *)
(* inserted with ever changes the schema, however runs and retries of      *)
(* different builds interleave.                                            *)
(***************************************************************************)
OneBodyPerMigration == \A m \in Migration : body[m] \subseteq {ledger[m].sum}

(***************************************************************************)
(* APPLIED is the truth: the body was committed, and so were the bodies of *)
(* all earlier migrations.                                                 *)
(***************************************************************************)
AppliedHasBody ==
  \A m \in Migration : m \in Schema \/ m \in Applied =>
                         \A k \in Migration : k <= m => k \in Schema

(***************************************************************************)
(* Under the lease, a call that returns leaves all its migrations applied, *)
(* and they stay so.                                                       *)
(***************************************************************************)
DoneMeansApplied ==
  leased => \A p \in Proc : proc[p].pc = "done" => Known(p) \subseteq Applied

(***************************************************************************)
(* migration-state-machine.md: "A matching incomplete PENDING, RUNNING, or *)
(* FAILED migration may be retried when its checksum is unchanged": under  *)
(* the lease, what an earlier call left behind, wherever it stopped, never *)
(* makes a later one throw unless a definition was changed.                *)
(***************************************************************************)
LeftoversAreRetried ==
  leased => \A p \in Proc : proc[p].pc = "conflict" =>
              \E m \in Known(p) : /\ ledger[m].status # "NONE"
                                   /\ ledger[m].sum # SumOf[p][m]

\* Under the lease, migrations become applied in order, each once and for ever.
Log == INSTANCE SchemaLog WITH applied <- Applied

ImplementsSchemaLog == (leased => Log!Init) /\ [][leased => Log!Next]_Applied
=============================================================================
