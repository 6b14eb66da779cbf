-------------------------- MODULE MigrationRunner --------------------------
(***************************************************************************)
(* ChannelForgeMigrationRunner.migrate(), statement by statement, run by   *)
(* several application processes on one database.  Each SQL statement and  *)
(* the transaction of a migration's body is atomic; between two of them    *)
(* another process may run, the process may stop, or a statement may fail. *)
(*                                                                         *)
(* A migration is its position in the order of ids.  Every process knows a *)
(* prefix of the migrations, the newer its build the longer, and has a     *)
(* checksum for each of them.                                              *)
(***************************************************************************)
EXTENDS MigrationRunnerState

vars == <<ledger, body, proc, leased>>

Status == {"NONE", "PENDING", "RUNNING", "APPLIED", "FAILED"}

\* The statement that comes next, and how a call ended.
Step == {"read", "insert", "mark", "body", "finish", "fail"}
End  == {"done", "ahead", "conflict", "failed", "stopped"}

NoRow == [sum |-> NoSum, status |-> "NONE"]

At(p)     == proc[p].at
More(p)   == At(p) <= Last[p]
Active(p) == proc[p].pc \in Step
Alone     == \A p \in Proc : ~Active(p)

Init ==
  /\ ledger = [m \in Migration |-> NoRow]
  /\ body = [m \in Migration |-> {}]
  /\ proc = [p \in Proc |-> [pc |-> "idle", at |-> 1]]
  /\ leased \in BOOLEAN

Goto(p, pc) == proc' = [proc EXCEPT ![p].pc = pc]

NextMigration(p) ==
  proc' = [proc EXCEPT ![p] = [pc |-> "read", at |-> @.at + 1]]

SetStatus(m, status) == ledger' = [ledger EXCEPT ![m].status = status]

\* The ledger is created if need be; an unknown APPLIED row is rejected.
Start(p) ==
  /\ proc[p].pc = "idle" /\ (leased => Alone)
  /\ Goto(p, IF Applied \subseteq Known(p) THEN "read" ELSE "ahead")
  /\ UNCHANGED <<ledger, body>>

\* Mutant: a row that never got to RUNNING is taken for a missing one.
ReadPendingAsAbsent(p) ==
  /\ proc[p].pc = "read" /\ More(p)
  /\ LET row == ledger[At(p)] IN
       \/ row.status \in {"NONE", "PENDING"} /\ Goto(p, "insert")
       \/ row.status \in {"RUNNING", "FAILED"} /\ Goto(p, "mark")
       \/ row.status = "APPLIED" /\ NextMigration(p)
  /\ UNCHANGED <<ledger, body>>

\* Mutant: the checksum is compared for APPLIED rows only.
ReadUnchecked(p) ==
  /\ proc[p].pc = "read" /\ More(p)
  /\ LET row == ledger[At(p)] IN
       \/ row.status = "NONE" /\ Goto(p, "insert")
       \/ row.status \in {"PENDING", "RUNNING", "FAILED"} /\ Goto(p, "mark")
       \/ row.status = "APPLIED" /\ row.sum = SumOf[p][At(p)] /\ NextMigration(p)
  /\ UNCHANGED <<ledger, body>>

\* The loop: the row of the next migration decides, or all are through.
Read(p) ==
  /\ proc[p].pc = "read" /\ More(p)
  /\ LET row   == ledger[At(p)]
         known == row.sum = SumOf[p][At(p)]
     IN \/ row.status = "NONE" /\ Goto(p, "insert")
        \/ row.status # "NONE" /\ ~known /\ Goto(p, "conflict")
        \/ row.status = "APPLIED" /\ known /\ NextMigration(p)
        \/ row.status \in {"PENDING", "RUNNING", "FAILED"} /\ known /\ Goto(p, "mark")
  /\ UNCHANGED <<ledger, body>>

Return(p) ==
  /\ proc[p].pc = "read" /\ ~More(p)
  /\ Goto(p, "done")
  /\ UNCHANGED <<ledger, body>>

\* INSERT 'PENDING'; the primary key refuses the row another process inserted.
Insert(p) ==
  /\ proc[p].pc = "insert"
  /\ LET m == At(p) IN
       \/ /\ ledger[m].status = "NONE"
          /\ ledger' = [ledger EXCEPT ![m] = [sum |-> SumOf[p][m], status |-> "PENDING"]]
          /\ Goto(p, "mark")
       \/ /\ ledger[m].status # "NONE"
          /\ Goto(p, "conflict")
          /\ UNCHANGED ledger
  /\ UNCHANGED body

\* UPDATE to RUNNING, by id alone.
Mark(p) ==
  /\ proc[p].pc = "mark"
  /\ SetStatus(At(p), "RUNNING")
  /\ Goto(p, "body")
  /\ UNCHANGED body

\* The transaction of the body commits, or rolls back and throws.
Body(p) ==
  /\ proc[p].pc = "body"
  /\ body' = [body EXCEPT ![At(p)] = @ \cup {SumOf[p][At(p)]}]
  /\ Goto(p, "finish")
  /\ UNCHANGED ledger

\* Mutant: the error of a statement is swallowed with its rollback.
BodyFailsSilently(p) ==
  /\ proc[p].pc = "body"
  /\ Goto(p, "finish")
  /\ UNCHANGED <<ledger, body>>

BodyFails(p) ==
  /\ proc[p].pc = "body"
  /\ Goto(p, "fail")
  /\ UNCHANGED <<ledger, body>>

\* UPDATE to APPLIED, by id alone; it is inside the try: if it throws the row becomes FAILED.
Finish(p) ==
  /\ proc[p].pc = "finish"
  /\ SetStatus(At(p), "APPLIED")
  /\ NextMigration(p)
  /\ UNCHANGED body

FinishFails(p) ==
  /\ proc[p].pc = "finish"
  /\ Goto(p, "fail")
  /\ UNCHANGED <<ledger, body>>

\* Mutant: the error is recorded but not rethrown: the loop goes on.
FailGoesOn(p) ==
  /\ proc[p].pc = "fail"
  /\ SetStatus(At(p), "FAILED")
  /\ NextMigration(p)
  /\ UNCHANGED body

\* catch: UPDATE to FAILED, by id alone, and rethrow.
Fail(p) ==
  /\ proc[p].pc = "fail"
  /\ SetStatus(At(p), "FAILED")
  /\ Goto(p, "failed")
  /\ UNCHANGED body

\* The process stops, or a statement outside the try (or of the catch) throws.
Stop(p) ==
  /\ Active(p)
  /\ Goto(p, "stopped")
  /\ UNCHANGED <<ledger, body>>

Run(p) ==
  \/ Read(p) \/ Return(p) \/ Insert(p) \/ Mark(p) \/ Body(p) \/ BodyFails(p)
  \/ Finish(p) \/ FinishFails(p) \/ Fail(p) \/ Stop(p)

Next == UNCHANGED leased /\ \E p \in Proc : Start(p) \/ Run(p)

Spec == Init /\ [][Next]_vars

-----------------------------------------------------------------------------
\* Every variable keeps its type.
TypeOK ==
  /\ ledger \in [Migration -> [sum : Sum \cup {NoSum}, status : Status]]
  /\ body \in [Migration -> SUBSET Sum]
  /\ proc \in [Proc -> [pc : {"idle"} \cup Step \cup End, at : 1..Count + 1]]
  /\ leased \in BOOLEAN

(***************************************************************************)
(* decision-register.md, "Unsupported downgrade": "Older application must  *)
(* not silently accept newer schema".                                      *)
(***************************************************************************)
OlderBuildRejectsNewerSchema ==
  [][\A p \in Proc : (proc[p].pc = "idle" /\ proc'[p].pc = "read") =>
                       Schema \subseteq Known(p)]_vars
=============================================================================
