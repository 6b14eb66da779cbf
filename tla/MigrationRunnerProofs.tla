----------------------- MODULE MigrationRunnerProofs -----------------------
(***************************************************************************)
(* Proofs about MigrationRunner, for every number of migrations, processes *)
(* and builds: first for calls that interleave freely, then for calls      *)
(* under the lease, which come one at a time.                              *)
(***************************************************************************)
EXTENDS MigrationRunner, TLAPS

\* Statements of a migration whose row is the caller's own or has its checksum.
Claimed == {"mark", "body", "finish", "fail"}

\* A call at a migration knows it, and its row has the caller's checksum.
RowIsClaimed ==
  \A p \in Proc :
    /\ proc[p].pc \in Step \ {"read"} => At(p) \in Known(p)
    /\ proc[p].pc \in Claimed => /\ ledger[At(p)].status # "NONE"
                                 /\ ledger[At(p)].sum = SumOf[p][At(p)]

\* A body is committed only for a row, and by its definition.
BodyHasRow ==
  \A m \in Migration : body[m] # {} => ledger[m].status # "NONE" /\ body[m] = {ledger[m].sum}

\* A call that has not ended.
Going(p) == proc[p].pc \in {"idle"} \cup Step

\* The migrations behind a call's position are in the schema, its own after the commit.
PassedInSchema ==
  \A p \in Proc :
    /\ Going(p) => \A k \in Migration : k < At(p) => body[k] # {}
    /\ proc[p].pc = "finish" => body[At(p)] # {}

\* The schema is a prefix of the migrations and has all applied ones.
SchemaIsPrefix ==
  /\ \A m \in Migration : body[m] # {} => \A k \in Migration : k < m => body[k] # {}
  /\ \A m \in Migration : ledger[m].status = "APPLIED" => body[m] # {}

IInv == TypeOK /\ RowIsClaimed /\ BodyHasRow /\ PassedInSchema /\ SchemaIsPrefix

-----------------------------------------------------------------------------
\* What a process knows are migrations.
LEMMA KnownType == \A p \in Proc : Last[p] \in 0..Count /\ Known(p) \subseteq Migration
BY RunnerAssumption DEF Known, Migration

\* Checksums are proper ones.
LEMMA SumType == \A p \in Proc : \A m \in Migration : SumOf[p][m] \in Sum
BY RunnerAssumption

\* What is before the next position is before this one or at it.
LEMMA StepDown == \A k, m \in Migration : k < m + 1 => k < m \/ k = m
BY RunnerAssumption DEF Migration

\* Moving a process to another statement changes nothing else.
LEMMA GotoEffect ==
  ASSUME TypeOK, NEW p \in Proc, NEW pc \in {"idle"} \cup Step \cup End, Goto(p, pc)
  PROVE  /\ proc' \in [Proc -> [pc : {"idle"} \cup Step \cup End, at : 1..Count + 1]]
         /\ proc'[p].pc = pc /\ proc'[p].at = proc[p].at
         /\ \A q \in Proc : q # p => proc'[q] = proc[q]
BY DEF TypeOK, Goto

\* Going to the next migration keeps the position in its range.
LEMMA NextEffect ==
  ASSUME TypeOK, NEW p \in Proc, At(p) \in Migration, NextMigration(p)
  PROVE  /\ proc' \in [Proc -> [pc : {"idle"} \cup Step \cup End, at : 1..Count + 1]]
         /\ proc'[p].pc = "read" /\ proc'[p].at = proc[p].at + 1
         /\ \A q \in Proc : q # p => proc'[q] = proc[q]
<1>1. proc[p].at + 1 \in 1..Count + 1
  BY RunnerAssumption DEF At, Migration
<1>2. proc' = [proc EXCEPT ![p] = [pc |-> "read", at |-> proc[p].at + 1]]
  BY DEF NextMigration
<1> QED BY <1>1, <1>2 DEF TypeOK, Step

\* A status update changes the status of one row.
LEMMA StatusEffect ==
  ASSUME TypeOK, NEW m \in Migration, NEW status \in Status, SetStatus(m, status)
  PROVE  /\ ledger' \in [Migration -> [sum : Sum \cup {NoSum}, status : Status]]
         /\ ledger'[m].status = status
         /\ \A k \in Migration : ledger'[k].sum = ledger[k].sum
         /\ \A k \in Migration : k # m => ledger'[k] = ledger[k]
BY DEF TypeOK, SetStatus

\* A call at a migration is at one of the ledger's.
LEMMA AtIsMigration ==
  ASSUME IInv, NEW p \in Proc, proc[p].pc \in Step \ {"read"} \/ (proc[p].pc = "read" /\ More(p))
  PROVE  At(p) \in Migration /\ At(p) \in Known(p)
<1>1. CASE proc[p].pc \in Step \ {"read"}
  BY <1>1, KnownType DEF IInv, RowIsClaimed
<1>2. CASE proc[p].pc = "read" /\ More(p)
  <2>1. At(p) \in Nat /\ At(p) >= 1
    BY RunnerAssumption DEF IInv, TypeOK, At
  <2>2. At(p) \in Known(p)
    BY <1>2, <2>1, KnownType, RunnerAssumption DEF Known, More
  <2> QED BY <2>2, KnownType
<1> QED BY <1>1, <1>2

\* Nobody has started: the ledger is empty and so is the schema.
LEMMA InitInv == Init => IInv
<1> SUFFICES ASSUME Init PROVE IInv
  OBVIOUS
<1>1. TypeOK
  BY RunnerAssumption DEF Init, TypeOK, NoRow, Status
<1>2. \A p \in Proc : proc[p].pc = "idle" /\ At(p) = 1
  BY DEF Init, At
<1>4. \A k \in Migration : ~(k < 1)
  BY RunnerAssumption DEF Migration
<1>3. \A m \in Migration : body[m] = {} /\ ledger[m].status = "NONE"
  BY DEF Init, NoRow
<1> QED
  BY <1>1, <1>2, <1>3, <1>4 DEF IInv, RowIsClaimed, BodyHasRow, PassedInSchema, SchemaIsPrefix,
    Claimed, Step

-----------------------------------------------------------------------------
(***************************************************************************)
(* A step that only moves one process, to where its claims still hold.     *)
(***************************************************************************)
LEMMA MoveKeepsInv ==
  ASSUME IInv, NEW p \in Proc, UNCHANGED <<ledger, body>>, leased' \in BOOLEAN,
         proc' \in [Proc -> [pc : {"idle"} \cup Step \cup End, at : 1..Count + 1]],
         \A q \in Proc : q # p => proc'[q] = proc[q],
         proc'[p].pc \in Step \ {"read"} => At(p)' \in Known(p),
         proc'[p].pc \in Claimed => /\ ledger[At(p)'].status # "NONE"
                                    /\ ledger[At(p)'].sum = SumOf[p][At(p)'],
         Going(p)' => \A k \in Migration : k < At(p)' => body[k] # {},
         proc'[p].pc = "finish" => body[At(p)'] # {}
  PROVE  IInv'
<1>1. TypeOK' /\ BodyHasRow' /\ SchemaIsPrefix'
  BY DEF IInv, TypeOK, BodyHasRow, SchemaIsPrefix
<1>2. RowIsClaimed'
  <2> SUFFICES ASSUME NEW q \in Proc
               PROVE  /\ proc'[q].pc \in Step \ {"read"} => At(q)' \in Known(q)
                      /\ proc'[q].pc \in Claimed => /\ ledger[At(q)'].status # "NONE"
                                                    /\ ledger[At(q)'].sum = SumOf[q][At(q)']
    BY DEF RowIsClaimed, Known
  <2>1. CASE q = p
    BY <2>1
  <2>2. CASE q # p
    BY <2>2 DEF IInv, RowIsClaimed, At
  <2> QED BY <2>1, <2>2
<1>3. PassedInSchema'
  <2> SUFFICES ASSUME NEW q \in Proc
               PROVE  /\ Going(q)' => \A k \in Migration : k < At(q)' => body[k] # {}
                      /\ proc'[q].pc = "finish" => body[At(q)'] # {}
    BY DEF PassedInSchema
  <2>1. CASE q = p
    BY <2>1
  <2>2. CASE q # p
    BY <2>2 DEF IInv, PassedInSchema, At, Going
  <2> QED BY <2>1, <2>2
<1> QED BY <1>1, <1>2, <1>3 DEF IInv

\* The effect on the ledger of the statements a call makes at a migration.
LEMMA LedgerKeepsInv ==
  ASSUME IInv, NEW p \in Proc, NEW m \in Migration, UNCHANGED body, leased' \in BOOLEAN,
         ledger' \in [Migration -> [sum : Sum \cup {NoSum}, status : Status]],
         \A k \in Migration : k # m => ledger'[k] = ledger[k],
         ledger[m].status # "NONE" => ledger'[m].sum = ledger[m].sum,
         ledger'[m].status # "NONE",
         ledger'[m].status = "APPLIED" => body[m] # {},
         proc' \in [Proc -> [pc : {"idle"} \cup Step \cup End, at : 1..Count + 1]],
         \A q \in Proc : q # p => proc'[q] = proc[q],
         proc'[p].pc \in Step \ {"read"} => At(p)' = m /\ m \in Known(p),
         proc'[p].pc \in Claimed => ledger'[m].sum = SumOf[p][m],
         proc'[p].pc # "finish",
         Going(p)' => \A k \in Migration : k < At(p)' => body[k] # {}
  PROVE  IInv'
<1>1. TypeOK'
  BY DEF IInv, TypeOK
<1>2. BodyHasRow' /\ SchemaIsPrefix'
  BY DEF IInv, BodyHasRow, SchemaIsPrefix
<1>3. RowIsClaimed'
  <2> SUFFICES ASSUME NEW q \in Proc
               PROVE  /\ proc'[q].pc \in Step \ {"read"} => At(q)' \in Known(q)
                      /\ proc'[q].pc \in Claimed => /\ ledger'[At(q)'].status # "NONE"
                                                    /\ ledger'[At(q)'].sum = SumOf[q][At(q)']
    BY DEF RowIsClaimed, Known
  <2>1. CASE q = p
    BY <2>1 DEF Claimed, Step
  <2>2. CASE q # p
    <3>1. At(q)' = At(q) /\ proc'[q].pc = proc[q].pc
      BY <2>2 DEF At
    <3>2. proc[q].pc \in Step \ {"read"} => At(q) \in Known(q)
      BY DEF IInv, RowIsClaimed
    <3>3. ASSUME proc[q].pc \in Claimed
          PROVE  ledger'[At(q)].status # "NONE" /\ ledger'[At(q)].sum = SumOf[q][At(q)]
      <4>1. ledger[At(q)].status # "NONE" /\ ledger[At(q)].sum = SumOf[q][At(q)]
        BY <3>3 DEF IInv, RowIsClaimed
      <4>2. At(q) \in Migration
        BY <3>3, AtIsMigration DEF Claimed, Step
      <4> QED BY <4>1, <4>2
    <3> QED BY <3>1, <3>2, <3>3
  <2> QED BY <2>1, <2>2
<1>4. PassedInSchema'
  <2> SUFFICES ASSUME NEW q \in Proc
               PROVE  /\ Going(q)' => \A k \in Migration : k < At(q)' => body[k] # {}
                      /\ proc'[q].pc = "finish" => body[At(q)'] # {}
    BY DEF PassedInSchema
  <2>1. CASE q = p
    BY <2>1
  <2>2. CASE q # p
    BY <2>2 DEF IInv, PassedInSchema, At, Going
  <2> QED BY <2>1, <2>2
<1> QED BY <1>1, <1>2, <1>3, <1>4 DEF IInv

\* The commit of a body adds one migration to the schema.
LEMMA BodyKeepsInv ==
  ASSUME IInv, NEW p \in Proc, Body(p), leased' \in BOOLEAN
  PROVE  IInv'
<1> DEFINE m == At(p)
<1>1. /\ m \in Migration /\ m \in Known(p) /\ proc[p].pc = "body"
  BY AtIsMigration DEF Body, Step
<1>2. ledger[m].status # "NONE" /\ ledger[m].sum = SumOf[p][m]
  BY <1>1 DEF IInv, RowIsClaimed, Claimed
<1>3. body[m] \cup {SumOf[p][m]} = {ledger[m].sum}
  BY <1>1, <1>2 DEF IInv, BodyHasRow
<1>4. body' = [body EXCEPT ![m] = {ledger[m].sum}]
  BY <1>3 DEF Body
<1>5. /\ body'[m] = {ledger[m].sum}
      /\ \A k \in Migration : k # m => body'[k] = body[k]
  BY <1>1, <1>4 DEF IInv, TypeOK
<1>6. UNCHANGED ledger
  BY DEF Body
<1>7. /\ proc' \in [Proc -> [pc : {"idle"} \cup Step \cup End, at : 1..Count + 1]]
      /\ proc'[p].pc = "finish" /\ proc'[p].at = proc[p].at
      /\ \A q \in Proc : q # p => proc'[q] = proc[q]
  BY GotoEffect DEF Body, IInv, Step
<1>8. \A q \in Proc : At(q)' = At(q)
  BY <1>7 DEF At
<1>9. TypeOK'
  BY <1>1, <1>2, <1>4, <1>6, <1>7, SumType DEF IInv, TypeOK
<1>10. BodyHasRow'
  BY <1>2, <1>5, <1>6 DEF IInv, BodyHasRow
<1>11. SchemaIsPrefix'
  <2>1. \A k \in Migration : k < m => body[k] # {}
    BY <1>1 DEF IInv, PassedInSchema, Going, Step
  <2> HIDE DEF m
  <2> QED BY <2>1, <1>5, <1>6 DEF IInv, SchemaIsPrefix
<1>12. RowIsClaimed'
  <2> SUFFICES ASSUME NEW q \in Proc
               PROVE  /\ proc'[q].pc \in Step \ {"read"} => At(q)' \in Known(q)
                      /\ proc'[q].pc \in Claimed => /\ ledger[At(q)'].status # "NONE"
                                                    /\ ledger[At(q)'].sum = SumOf[q][At(q)']
    BY <1>6 DEF RowIsClaimed, Known
  <2>1. CASE q = p
    BY <2>1, <1>1, <1>2, <1>7, <1>8
  <2>2. CASE q # p
    BY <2>2, <1>7, <1>8 DEF IInv, RowIsClaimed
  <2> QED BY <2>1, <2>2
<1>13. PassedInSchema'
  <2> SUFFICES ASSUME NEW q \in Proc
               PROVE  /\ Going(q)' => \A k \in Migration : k < At(q)' => body'[k] # {}
                      /\ proc'[q].pc = "finish" => body'[At(q)'] # {}
    BY DEF PassedInSchema
  <2>1. \A k \in Migration : body[k] # {} => body'[k] # {}
    BY <1>5
  <2>2. CASE q = p
    <3>1. \A k \in Migration : k < m => body[k] # {}
      BY <1>1 DEF IInv, PassedInSchema, Going, Step
    <3> QED BY <2>1, <2>2, <3>1, <1>5, <1>8
  <2>3. CASE q # p
    <3>1. proc'[q].pc = "finish" => At(q) \in Migration
      BY <2>3, <1>7, AtIsMigration DEF Step
    <3> QED BY <2>1, <2>3, <3>1, <1>7, <1>8 DEF IInv, PassedInSchema, Going
  <2> QED BY <2>2, <2>3
<1> QED BY <1>9, <1>10, <1>11, <1>12, <1>13 DEF IInv

\* No step of a call, and no start, breaks the invariant.
LEMMA RunKeepsInv ==
  ASSUME IInv, NEW p \in Proc, Start(p) \/ Run(p), leased' \in BOOLEAN
  PROVE  IInv'
<1> DEFINE m == At(p)
<1>T. TypeOK
  BY DEF IInv
<1>P. \A k \in Migration : (k < m /\ Going(p)) => body[k] # {}
  BY DEF IInv, PassedInSchema
<1>1. CASE Start(p)
  <2>1. PICK pc \in {"read", "ahead"} : Goto(p, pc)
    BY <1>1 DEF Start
  <2>2. /\ proc' \in [Proc -> [pc : {"idle"} \cup Step \cup End, at : 1..Count + 1]]
        /\ proc'[p].pc = pc /\ At(p)' = m
        /\ \A q \in Proc : q # p => proc'[q] = proc[q]
    BY <1>T, <2>1, GotoEffect DEF Step, End, At
  <2>3. Going(p)
    BY <1>1 DEF Start, Going
  <2> QED BY <1>1, <1>P, <2>2, <2>3, MoveKeepsInv DEF Start, Step, Claimed
<1>2. CASE Read(p)
  <2>1. m \in Migration /\ m \in Known(p) /\ Going(p)
    BY <1>2, AtIsMigration DEF Read, Going, Step
  <2>2. CASE NextMigration(p)
    <3>1. /\ proc' \in [Proc -> [pc : {"idle"} \cup Step \cup End, at : 1..Count + 1]]
          /\ proc'[p].pc = "read" /\ At(p)' = m + 1
          /\ \A q \in Proc : q # p => proc'[q] = proc[q]
      BY <1>T, <2>1, <2>2, NextEffect DEF At
    <3>2. ledger[m].status = "APPLIED" \/ ledger[m].status # "APPLIED"
      OBVIOUS
    <3>3. ledger[m].status = "APPLIED"
      <4>1. ASSUME NEW pc \in {"insert", "conflict", "mark"}, Goto(p, pc) PROVE FALSE
        <5>1. proc'[p].pc = pc
          BY <1>T, <4>1, GotoEffect DEF Step, End
        <5> QED BY <3>1, <5>1
      <4> QED BY <1>2, <4>1 DEF Read
    <3>4. body[m] # {}
      BY <2>1, <3>3 DEF IInv, SchemaIsPrefix
    <3>5. \A k \in Migration : k < At(p)' => body[k] # {}
      <4> SUFFICES ASSUME NEW k \in Migration, k < At(p)' PROVE body[k] # {}
        OBVIOUS
      <4>1. k < m \/ k = m
        BY <2>1, <3>1, StepDown
      <4> QED BY <4>1, <1>P, <2>1, <3>4
    <3> QED BY <1>2, <3>1, <3>5, MoveKeepsInv DEF Read, Step, Claimed
  <2>3. ASSUME NEW pc \in {"insert", "conflict", "mark"}, Goto(p, pc),
               pc = "mark" => ledger[m].status # "NONE" /\ ledger[m].sum = SumOf[p][m]
        PROVE  IInv'
    <3>1. /\ proc' \in [Proc -> [pc : {"idle"} \cup Step \cup End, at : 1..Count + 1]]
          /\ proc'[p].pc = pc /\ At(p)' = m
          /\ \A q \in Proc : q # p => proc'[q] = proc[q]
      BY <1>T, <2>3, GotoEffect DEF Step, End, At
    <3> QED BY <1>2, <1>P, <2>1, <2>3, <3>1, MoveKeepsInv DEF Read, Step, Claimed
  <2> QED BY <1>2, <2>2, <2>3 DEF Read
<1>3. CASE Return(p) \/ Stop(p)
  <2>1. PICK pc \in {"done", "stopped"} : Goto(p, pc)
    BY <1>3 DEF Return, Stop
  <2>2. /\ proc' \in [Proc -> [pc : {"idle"} \cup Step \cup End, at : 1..Count + 1]]
        /\ proc'[p].pc = pc
        /\ \A q \in Proc : q # p => proc'[q] = proc[q]
    BY <1>T, <2>1, GotoEffect DEF Step, End
  <2> QED BY <1>3, <2>2, MoveKeepsInv DEF Return, Stop, Step, Claimed, Going
<1>4. CASE Insert(p)
  <2>1. m \in Migration /\ m \in Known(p) /\ Going(p)
    BY <1>4, AtIsMigration DEF Insert, Going, Step
  <2>2. CASE ledger[m].status # "NONE"
    <3>1. Goto(p, "conflict") /\ UNCHANGED <<ledger, body>>
      BY <1>4, <2>2 DEF Insert
    <3>2. /\ proc' \in [Proc -> [pc : {"idle"} \cup Step \cup End, at : 1..Count + 1]]
          /\ proc'[p].pc = "conflict"
          /\ \A q \in Proc : q # p => proc'[q] = proc[q]
      BY <1>T, <3>1, GotoEffect DEF End
    <3> QED BY <3>1, <3>2, MoveKeepsInv DEF Step, Claimed, Going
  <2>3. CASE ledger[m].status = "NONE"
    <3>1. /\ ledger' = [ledger EXCEPT ![m] = [sum |-> SumOf[p][m], status |-> "PENDING"]]
          /\ Goto(p, "mark") /\ UNCHANGED body
      BY <1>4, <2>3 DEF Insert
    <3>2. /\ proc' \in [Proc -> [pc : {"idle"} \cup Step \cup End, at : 1..Count + 1]]
          /\ proc'[p].pc = "mark" /\ At(p)' = m
          /\ \A q \in Proc : q # p => proc'[q] = proc[q]
      BY <1>T, <3>1, GotoEffect DEF Step, At
    <3>3. /\ ledger' \in [Migration -> [sum : Sum \cup {NoSum}, status : Status]]
          /\ ledger'[m] = [sum |-> SumOf[p][m], status |-> "PENDING"]
          /\ \A k \in Migration : k # m => ledger'[k] = ledger[k]
      BY <1>T, <2>1, <3>1, SumType DEF TypeOK, Status
    <3> QED BY <1>P, <2>1, <2>3, <3>1, <3>2, <3>3, LedgerKeepsInv
  <2> QED BY <2>2, <2>3
<1>5. CASE Body(p)
  BY <1>5, BodyKeepsInv
<1>6. CASE BodyFails(p) \/ FinishFails(p)
  <2>1. Goto(p, "fail") /\ UNCHANGED <<ledger, body>> /\ proc[p].pc \in {"body", "finish"}
    BY <1>6 DEF BodyFails, FinishFails
  <2>2. /\ proc' \in [Proc -> [pc : {"idle"} \cup Step \cup End, at : 1..Count + 1]]
        /\ proc'[p].pc = "fail" /\ At(p)' = m
        /\ \A q \in Proc : q # p => proc'[q] = proc[q]
    BY <1>T, <2>1, GotoEffect DEF Step, At
  <2>3. /\ m \in Known(p) /\ Going(p)
        /\ ledger[m].status # "NONE" /\ ledger[m].sum = SumOf[p][m]
    BY <2>1 DEF IInv, RowIsClaimed, Claimed, Going, Step
  <2> QED BY <1>P, <2>1, <2>2, <2>3, MoveKeepsInv
<1>7. ASSUME NEW status \in {"RUNNING", "APPLIED", "FAILED"}, SetStatus(m, status), UNCHANGED body,
             proc[p].pc \in Claimed,
             status = "APPLIED" => proc[p].pc = "finish",
             NextMigration(p) \/ Goto(p, "failed") \/ Goto(p, "body"),
             NextMigration(p) => proc[p].pc = "finish"
      PROVE  IInv'
  <2>1. m \in Migration /\ m \in Known(p) /\ Going(p)
    BY <1>7, AtIsMigration DEF Claimed, Going, Step
  <2>2. ledger[m].status # "NONE" /\ ledger[m].sum = SumOf[p][m]
    BY <1>7 DEF IInv, RowIsClaimed
  <2>3. /\ ledger' \in [Migration -> [sum : Sum \cup {NoSum}, status : Status]]
        /\ ledger'[m].status = status
        /\ ledger'[m].sum = ledger[m].sum
        /\ \A k \in Migration : k # m => ledger'[k] = ledger[k]
    BY <1>7, <1>T, <2>1, StatusEffect DEF Status
  <2>4. proc[p].pc = "finish" => body[m] # {}
    BY DEF IInv, PassedInSchema
  <2>5. CASE NextMigration(p)
    <3>1. /\ proc' \in [Proc -> [pc : {"idle"} \cup Step \cup End, at : 1..Count + 1]]
          /\ proc'[p].pc = "read" /\ At(p)' = m + 1
          /\ \A q \in Proc : q # p => proc'[q] = proc[q]
      BY <1>T, <2>1, <2>5, NextEffect DEF At
    <3>2. \A k \in Migration : k < At(p)' => body[k] # {}
      <4> SUFFICES ASSUME NEW k \in Migration, k < At(p)' PROVE body[k] # {}
        OBVIOUS
      <4>1. k < m \/ k = m
        BY <2>1, <3>1, StepDown
      <4> QED BY <4>1, <1>7, <1>P, <2>1, <2>4, <2>5
    <3> QED BY <1>7, <2>1, <2>3, <2>4, <3>1, <3>2, LedgerKeepsInv DEF Claimed
  <2>6. ASSUME NEW pc \in {"failed", "body"}, Goto(p, pc) PROVE IInv'
    <3>1. /\ proc' \in [Proc -> [pc : {"idle"} \cup Step \cup End, at : 1..Count + 1]]
          /\ proc'[p].pc = pc /\ At(p)' = m
          /\ \A q \in Proc : q # p => proc'[q] = proc[q]
      BY <1>T, <2>6, GotoEffect DEF Step, End, At
    <3> QED BY <1>7, <1>P, <2>1, <2>2, <2>3, <2>4, <2>6, <3>1, LedgerKeepsInv
  <2> QED BY <1>7, <2>5, <2>6
<1>8. CASE Mark(p) \/ Finish(p) \/ Fail(p)
  <2>1. CASE Mark(p)
    <3>1. ~NextMigration(p)
      <4>1. proc'[p].pc = "body"
        BY <1>T, <2>1, GotoEffect DEF Mark, Step
      <4>2. proc' = [proc EXCEPT ![p] = [pc |-> "read", at |-> proc[p].at + 1]] => proc'[p].pc = "read"
        BY <1>T DEF TypeOK
      <4> QED BY <4>1, <4>2 DEF NextMigration
    <3> QED BY <1>7, <2>1, <3>1 DEF Mark, Claimed
  <2>2. CASE Finish(p)
    BY <1>7, <2>2 DEF Finish, Claimed
  <2>3. CASE Fail(p)
    <3>1. ~NextMigration(p)
      <4>1. proc'[p].pc = "failed"
        BY <1>T, <2>3, GotoEffect DEF Fail, End
      <4>2. proc' = [proc EXCEPT ![p] = [pc |-> "read", at |-> proc[p].at + 1]] => proc'[p].pc = "read"
        BY <1>T DEF TypeOK
      <4> QED BY <4>1, <4>2 DEF NextMigration
    <3> QED BY <1>7, <2>3, <3>1 DEF Fail, Claimed
  <2> QED BY <1>8, <2>1, <2>2, <2>3
<1> QED BY <1>1, <1>2, <1>3, <1>4, <1>5, <1>6, <1>8 DEF Run

\* Every step of every call, in any interleaving, keeps the invariant.
LEMMA StepInv == IInv /\ [Next]_vars => IInv'
<1> SUFFICES ASSUME IInv, [Next]_vars PROVE IInv'
  OBVIOUS
<1>1. CASE UNCHANGED vars
  BY <1>1 DEF vars, IInv, TypeOK, RowIsClaimed, BodyHasRow, PassedInSchema, SchemaIsPrefix, At, Going
<1>3. leased' \in BOOLEAN
  BY DEF IInv, TypeOK, Next, vars
<1>2. ASSUME NEW p \in Proc, Start(p) \/ Run(p) PROVE IInv'
  BY <1>2, <1>3, RunKeepsInv
<1> QED BY <1>1, <1>2 DEF Next

\* The strengthened invariant, for calls that interleave in any way.
THEOREM Invariance == Spec => []IInv
BY InitInv, StepInv, PTL DEF Spec

\* TypeOK of MigrationRunner.
THEOREM TypeCorrect == Spec => []TypeOK
BY Invariance, PTL DEF IInv

\* Only one definition of a migration ever changes the schema.
THEOREM OneDefinition == Spec => []OneBodyPerMigration
<1>1. IInv => OneBodyPerMigration
  BY DEF IInv, TypeOK, BodyHasRow, OneBodyPerMigration
<1> QED BY <1>1, Invariance, PTL

\* The schema is a prefix of the migrations and the ledger tells the truth about it.
THEOREM LedgerIsTruthful == Spec => []AppliedHasBody
<1>1. ASSUME IInv PROVE AppliedHasBody
  <2> SUFFICES ASSUME NEW m \in Migration, m \in Schema \/ m \in Applied,
                      NEW k \in Migration, k <= m
               PROVE  k \in Schema
    BY DEF AppliedHasBody
  <2>1. body[m] # {}
    BY <1>1 DEF IInv, SchemaIsPrefix, Schema, Applied
  <2>2. k < m \/ k = m
    BY RunnerAssumption DEF Migration
  <2> QED BY <1>1, <2>1, <2>2 DEF IInv, SchemaIsPrefix, Schema
<1> QED BY <1>1, Invariance, PTL

-----------------------------------------------------------------------------
(***************************************************************************)
(* Calls under the lease.  A call finds the migrations behind it applied   *)
(* and the one it is at not; nobody else moves.                            *)
(***************************************************************************)
OneActive == \A p, q \in Proc : Active(p) /\ Active(q) => p = q

IdleIsFirst == \A p \in Proc : proc[p].pc = "idle" => At(p) = 1

PassedIsApplied ==
  \A p \in Proc : Active(p) =>
    \A k \in Migration : k < At(p) => ledger[k].status = "APPLIED"

OpenIsNotApplied ==
  \A p \in Proc :
    /\ proc[p].pc \in Claimed => ledger[At(p)].status # "APPLIED"
    /\ proc[p].pc = "insert" => ledger[At(p)].status = "NONE"

SInv == /\ OneActive /\ IdleIsFirst /\ PassedIsApplied /\ OpenIsNotApplied
        /\ DoneMeansApplied /\ LeftoversAreRetried

\* What the steps of the only active call have in common.
LEMMA SerialKeeps ==
  ASSUME SInv, leased, NEW p \in Proc,
         \A q \in Proc : q # p => proc'[q] = proc[q] /\ ~Active(q),
         \A k \in Migration : ledger[k].status = "APPLIED" => ledger'[k].status = "APPLIED",
         \A k \in Migration : ledger[k].status # "NONE" =>
                                 ledger'[k].status # "NONE" /\ ledger'[k].sum = ledger[k].sum,
         proc'[p].pc # "idle",
         Active(p)' => \A k \in Migration : k < At(p)' => ledger'[k].status = "APPLIED",
         proc'[p].pc \in Claimed => ledger'[At(p)'].status # "APPLIED",
         proc'[p].pc = "insert" => ledger'[At(p)'].status = "NONE",
         proc'[p].pc = "done" => \A k \in Known(p) : ledger'[k].status = "APPLIED",
         proc'[p].pc = "conflict" =>
           \E m \in Known(p) : ledger'[m].status # "NONE" /\ ledger'[m].sum # SumOf[p][m]
  PROVE  SInv'
<1>1. OneActive'
  BY DEF OneActive, Active
<1>2. IdleIsFirst'
  BY DEF SInv, IdleIsFirst, At
<1>3. PassedIsApplied'
  <2> SUFFICES ASSUME NEW q \in Proc, Active(q)', NEW k \in Migration, k < At(q)'
               PROVE  ledger'[k].status = "APPLIED"
    BY DEF PassedIsApplied
  <2>1. q = p
    BY DEF Active
  <2> QED BY <2>1
<1>4. OpenIsNotApplied'
  <2> SUFFICES ASSUME NEW q \in Proc
               PROVE  /\ proc'[q].pc \in Claimed => ledger'[At(q)'].status # "APPLIED"
                      /\ proc'[q].pc = "insert" => ledger'[At(q)'].status = "NONE"
    BY DEF OpenIsNotApplied
  <2>1. CASE q = p
    BY <2>1
  <2>2. CASE q # p
    BY <2>2 DEF Active, Step, Claimed
  <2> QED BY <2>1, <2>2
<1>5. DoneMeansApplied'
  <2> SUFFICES ASSUME NEW q \in Proc, proc'[q].pc = "done", NEW k \in Known(q)
               PROVE  ledger'[k].status = "APPLIED"
    BY KnownType DEF DoneMeansApplied, Applied, Known
  <2>1. CASE q = p
    BY <2>1
  <2>2. CASE q # p
    <3>1. proc[q].pc = "done"
      BY <2>2
    <3>2. k \in Applied
      BY <3>1 DEF SInv, DoneMeansApplied
    <3> QED BY <3>2 DEF Applied
  <2> QED BY <2>1, <2>2
<1>6. LeftoversAreRetried'
  <2> SUFFICES ASSUME NEW q \in Proc, proc'[q].pc = "conflict"
               PROVE  \E m \in Known(q) : ledger'[m].status # "NONE" /\ ledger'[m].sum # SumOf[q][m]
    BY DEF LeftoversAreRetried, Known
  <2>1. CASE q = p
    BY <2>1
  <2>2. CASE q # p
    <3>1. PICK m \in Known(q) : ledger[m].status # "NONE" /\ ledger[m].sum # SumOf[q][m]
      BY <2>2 DEF SInv, LeftoversAreRetried
    <3>2. m \in Migration
      BY KnownType
    <3> QED BY <3>1, <3>2
  <2> QED BY <2>1, <2>2
<1> QED BY <1>1, <1>2, <1>3, <1>4, <1>5, <1>6 DEF SInv

\* The log of applied migrations as a step sees it: unchanged, or grown in order.
LogStep ==
  \/ Applied' = Applied
  \/ \E m \in Migration :
       /\ m \notin Applied
       /\ \A k \in Migration : k < m => k \in Applied
       /\ Applied' = Applied \cup {m}

\* Under the lease a step of a call keeps the serial invariant, and the log of the
\* applied migrations stays or grows in order.
LEMMA SerialStep ==
  ASSUME IInv, SInv, leased, NEW p \in Proc, Start(p) \/ Run(p)
  PROVE  SInv' /\ LogStep
<1> DEFINE m == At(p)
           Moved(pc) == /\ proc'[p].pc = pc /\ At(p)' = m
                        /\ \A q \in Proc : q # p => proc'[q] = proc[q]
           Passed == \A k \in Migration : k < m => ledger[k].status = "APPLIED"
           Advanced == /\ proc'[p].pc = "read" /\ At(p)' = m + 1
                       /\ \A q \in Proc : q # p => proc'[q] = proc[q]
<1>T. TypeOK
  BY DEF IInv
<1>O. \A q \in Proc : q # p => ~Active(q)
  <2>1. CASE Start(p)
    BY <2>1 DEF Start, Alone
  <2>2. CASE Run(p)
    <3>1. Active(p)
      BY <2>2 DEF Run, Read, Return, Insert, Mark, Body, BodyFails, Finish, FinishFails, Fail,
        Stop, Active, Step
    <3> QED BY <3>1 DEF SInv, OneActive
  <2> QED BY <2>1, <2>2
<1>P. Going(p) => Passed
  <2>1. CASE proc[p].pc = "idle"
    <3>1. \A k \in Migration : ~(k < 1)
      BY RunnerAssumption DEF Migration
    <3> QED BY <2>1, <3>1 DEF SInv, IdleIsFirst
  <2>2. CASE Active(p)
    BY <2>2 DEF SInv, PassedIsApplied
  <2> QED BY <2>1, <2>2 DEF Going, Active
<1>G. ASSUME NEW pc \in {"idle"} \cup Step \cup End, Goto(p, pc) PROVE Moved(pc)
  BY <1>G, <1>T, GotoEffect DEF At
<1>N. ASSUME NextMigration(p), m \in Migration PROVE Advanced
  BY <1>N, <1>T, NextEffect DEF At
<1>L. UNCHANGED ledger => LogStep
  BY DEF LogStep, Applied
<1>1. CASE Start(p)
  <2>1. PICK pc \in {"read", "ahead"} : Goto(p, pc)
    BY <1>1 DEF Start
  <2>2. Moved(pc) /\ UNCHANGED ledger /\ Going(p)
    BY <1>1, <1>G, <2>1 DEF Step, End, Start, Going
  <2> QED BY <1>L, <1>O, <1>P, <2>2, SerialKeeps DEF Claimed
<1>2. CASE Read(p)
  <2>0. UNCHANGED ledger
    BY <1>2 DEF Read
  <2>1. m \in Migration /\ m \in Known(p) /\ Going(p)
    BY <1>2, AtIsMigration DEF Read, Going, Step
  <2>2. CASE NextMigration(p) /\ ledger[m].status = "APPLIED"
    <3>1. Advanced
      BY <1>N, <2>1, <2>2
    <3>2. \A k \in Migration : k < At(p)' => ledger[k].status = "APPLIED"
      <4> SUFFICES ASSUME NEW k \in Migration, k < At(p)' PROVE ledger[k].status = "APPLIED"
        OBVIOUS
      <4>1. k < m \/ k = m
        BY <2>1, <3>1, StepDown
      <4> QED BY <4>1, <1>P, <2>1, <2>2
    <3> QED BY <1>L, <1>O, <2>0, <3>1, <3>2, SerialKeeps DEF Claimed
  <2>3. CASE ledger[m].status = "NONE" /\ Goto(p, "insert")
    <3>1. Moved("insert")
      BY <1>G, <2>3 DEF Step
    <3> QED BY <1>L, <1>O, <1>P, <2>0, <2>1, <2>3, <3>1, SerialKeeps DEF Claimed
  <2>4. CASE ledger[m].status # "NONE" /\ ledger[m].sum # SumOf[p][m] /\ Goto(p, "conflict")
    <3>1. Moved("conflict")
      BY <1>G, <2>4 DEF End
    <3> QED BY <1>L, <1>O, <2>0, <2>1, <2>4, <3>1, SerialKeeps DEF Claimed, Active, Step
  <2>5. CASE ledger[m].status \in {"PENDING", "RUNNING", "FAILED"} /\ Goto(p, "mark")
    <3>1. Moved("mark")
      BY <1>G, <2>5 DEF Step
    <3> QED BY <1>L, <1>O, <1>P, <2>0, <2>1, <2>5, <3>1, SerialKeeps DEF Claimed
  <2> QED BY <1>2, <2>2, <2>3, <2>4, <2>5 DEF Read
<1>3. CASE Return(p)
  <2>1. Moved("done") /\ UNCHANGED ledger /\ Going(p)
    BY <1>3, <1>G DEF Return, End, Going, Step
  <2>2. \A k \in Known(p) : k \in Migration /\ k < m
    BY <1>3, <1>T, KnownType, RunnerAssumption DEF Return, More, Known, TypeOK, At
  <2> QED BY <1>L, <1>O, <1>P, <2>1, <2>2, SerialKeeps DEF Claimed, Active, Step
<1>4. CASE Stop(p)
  <2>1. Moved("stopped") /\ UNCHANGED ledger
    BY <1>4, <1>G DEF Stop, End
  <2> QED BY <1>L, <1>O, <2>1, SerialKeeps DEF Claimed, Active, Step
<1>5. CASE Body(p) \/ BodyFails(p) \/ FinishFails(p)
  <2>1. PICK pc \in {"finish", "fail"} : Goto(p, pc)
    BY <1>5 DEF Body, BodyFails, FinishFails
  <2>2. Moved(pc) /\ UNCHANGED ledger /\ Going(p) /\ proc[p].pc \in Claimed
    BY <1>5, <1>G, <2>1 DEF Body, BodyFails, FinishFails, Step, Going, Claimed
  <2>3. ledger[m].status # "APPLIED"
    BY <2>2 DEF SInv, OpenIsNotApplied
  <2> QED BY <1>L, <1>O, <1>P, <2>2, <2>3, SerialKeeps
<1>6. CASE Insert(p)
  <2>1. m \in Migration /\ Going(p) /\ ledger[m].status = "NONE"
    BY <1>6, AtIsMigration DEF Insert, Going, Step, SInv, OpenIsNotApplied
  <2>2. /\ ledger' = [ledger EXCEPT ![m] = [sum |-> SumOf[p][m], status |-> "PENDING"]]
        /\ Moved("mark")
    BY <1>6, <1>G, <2>1 DEF Insert, Step
  <2>3. /\ ledger'[m].status = "PENDING"
        /\ \A k \in Migration : k # m => ledger'[k] = ledger[k]
    BY <1>T, <2>1, <2>2 DEF TypeOK
  <2>4. Applied' = Applied
    BY <2>1, <2>3 DEF Applied
  <2> QED BY <1>O, <1>P, <2>1, <2>2, <2>3, <2>4, SerialKeeps DEF LogStep
<1>7. CASE Mark(p) \/ Fail(p)
  <2>1. PICK status \in {"RUNNING", "FAILED"} : SetStatus(m, status)
    BY <1>7 DEF Mark, Fail
  <2>2. PICK pc \in {"body", "failed"} : Goto(p, pc)
    BY <1>7 DEF Mark, Fail
  <2>3. Moved(pc) /\ Going(p) /\ m \in Migration /\ proc[p].pc \in Claimed
    BY <1>7, <1>G, <2>2, AtIsMigration DEF Mark, Fail, Step, End, Going, Claimed
  <2>4. ledger[m].status # "APPLIED"
    BY <2>3 DEF SInv, OpenIsNotApplied
  <2>5. /\ ledger'[m].status = status /\ ledger'[m].sum = ledger[m].sum
        /\ \A k \in Migration : k # m => ledger'[k] = ledger[k]
    BY <1>T, <2>1, <2>3, StatusEffect DEF Status
  <2>6. Applied' = Applied
    BY <2>3, <2>4, <2>5 DEF Applied
  <2>7. \A k \in Migration : k < m => ledger'[k].status = "APPLIED"
    <3> SUFFICES ASSUME NEW k \in Migration, k < m PROVE ledger'[k].status = "APPLIED"
      OBVIOUS
    <3>1. ledger[k].status = "APPLIED"
      BY <1>P, <2>3
    <3> QED BY <2>4, <2>5, <3>1
  <2> QED BY <1>O, <2>2, <2>3, <2>4, <2>5, <2>6, <2>7, SerialKeeps DEF LogStep
<1>8. CASE Finish(p)
  <2>1. m \in Migration /\ Going(p) /\ proc[p].pc \in Claimed
    BY <1>8, AtIsMigration DEF Finish, Step, Going, Claimed
  <2>2. Advanced
    BY <1>8, <1>N, <2>1 DEF Finish
  <2>3. ledger[m].status # "APPLIED"
    BY <2>1 DEF SInv, OpenIsNotApplied
  <2>4. /\ ledger'[m].status = "APPLIED" /\ ledger'[m].sum = ledger[m].sum
        /\ \A k \in Migration : k # m => ledger'[k] = ledger[k]
    BY <1>8, <1>T, <2>1, StatusEffect DEF Status, Finish
  <2>5. \A k \in Migration : k < At(p)' => ledger'[k].status = "APPLIED"
    <3> SUFFICES ASSUME NEW k \in Migration, k < At(p)' PROVE ledger'[k].status = "APPLIED"
      OBVIOUS
    <3>1. k < m \/ k = m
      BY <2>1, <2>2, StepDown
    <3> QED BY <3>1, <1>P, <2>1, <2>4
  <2>6. SInv'
    BY <1>O, <2>2, <2>3, <2>4, <2>5, SerialKeeps DEF Claimed
  <2>7. Applied' = Applied \cup {m} /\ m \notin Applied
    BY <2>1, <2>3, <2>4 DEF Applied
  <2>8. \A k \in Migration : k < m => k \in Applied
    BY <1>P, <2>1 DEF Applied
  <2> QED BY <2>1, <2>6, <2>7, <2>8 DEF LogStep
<1> QED BY <1>1, <1>2, <1>3, <1>4, <1>5, <1>6, <1>7, <1>8 DEF Run

\* The same of any step, under the lease.
LEMMA LeasedStep ==
  ASSUME IInv, SInv, leased, [Next]_vars
  PROVE  SInv' /\ LogStep
<1>1. CASE UNCHANGED vars
  BY <1>1 DEF vars, SInv, OneActive, IdleIsFirst, PassedIsApplied, OpenIsNotApplied,
       DoneMeansApplied, LeftoversAreRetried, LogStep, Applied, Active, At
<1>2. ASSUME NEW p \in Proc, Start(p) \/ Run(p) PROVE SInv' /\ LogStep
  BY <1>2, SerialStep
<1> QED BY <1>1, <1>2 DEF Next

\* Nothing runs at first: the serial invariant holds.
LEMMA LeasedInit == Init => SInv
<1> SUFFICES ASSUME Init PROVE SInv
  OBVIOUS
<1>1. \A p \in Proc : proc[p].pc = "idle" /\ At(p) = 1
  BY DEF Init, At
<1> QED BY <1>1 DEF SInv, OneActive, IdleIsFirst, PassedIsApplied, OpenIsNotApplied,
              DoneMeansApplied, LeftoversAreRetried, Active, Step, Claimed

\* Whether the lease is taken is decided once.
LEMMA LeasedIsRigid == [Next]_vars => UNCHANGED leased
BY DEF Next, vars

\* The invariant of calls under the lease.
THEOREM LeasedInvariance == Spec => [](IInv /\ (leased => SInv))
<1>1. Init => IInv /\ (leased => SInv)
  BY InitInv, LeasedInit
<1>2. IInv /\ (leased => SInv) /\ [Next]_vars => (IInv /\ (leased => SInv))'
  <2> SUFFICES ASSUME IInv, leased => SInv, [Next]_vars
               PROVE  IInv' /\ (leased' => SInv')
    OBVIOUS
  <2>1. IInv'
    BY StepInv
  <2>2. ASSUME leased' PROVE SInv'
    <3>1. leased
      BY <2>2, LeasedIsRigid
    <3> QED BY <3>1, LeasedStep
  <2> QED BY <2>1, <2>2
<1> QED BY <1>1, <1>2, PTL DEF Spec

\* A call that returned leaves its migrations applied.
THEOREM ReturnedCallsAreApplied == Spec => []DoneMeansApplied
<1>1. (leased => SInv) => DoneMeansApplied
  BY DEF SInv, DoneMeansApplied
<1> QED BY <1>1, LeasedInvariance, PTL

\* What a call leaves behind makes no later one throw.
THEOREM LeftoversDoNotBlock == Spec => []LeftoversAreRetried
<1>1. (leased => SInv) => LeftoversAreRetried
  BY DEF SInv, LeftoversAreRetried
<1> QED BY <1>1, LeasedInvariance, PTL

\* Under the lease, the ledger is the append-only ordered log.
THEOREM LedgerImplementsLog == Spec => ImplementsSchemaLog
<1>1. Init => (leased => Log!Init)
  BY DEF Init, Applied, Log!Init, NoRow
<1>2. IInv /\ (leased => SInv) /\ [Next]_vars => [leased => Log!Next]_Applied
  <2> SUFFICES ASSUME IInv, SInv, leased, [Next]_vars PROVE [Log!Next]_Applied
    OBVIOUS
  <2> QED BY LeasedStep DEF LogStep, Log!Next, Log!Apply
<1> QED BY <1>1, <1>2, LeasedInvariance, PTL DEF Spec, ImplementsSchemaLog
=============================================================================
