--------------------------- MODULE MCPersistence ---------------------------
(***************************************************************************)
(* TLC instance of what ChannelForge keeps in its own tables: the          *)
(* migration lease, the migration runner and the instance identity.  They  *)
(* share no variable, so a behaviour moves one of them, chosen at its      *)
(* start.                                                                  *)
(***************************************************************************)
EXTENDS MigrationLeaseState, MigrationRunnerState, InstanceIdentityState, TLC

CONSTANTS s1, s2, s3, s4, t1, t3, t4, p1, p2, p3, p4, a, b

VARIABLE part   \* chosen once

leaseVars    == <<row, session>>
runnerVars   == <<ledger, body, proc, leased>>
identityVars == <<instance, mapping, retired, record, read>>

L == INSTANCE MigrationLease
R == INSTANCE MigrationRunner
I == INSTANCE InstanceIdentity

\* Two sessions of one owner, and two with tokens of their own.
Tokens == s1 :> t1 @@ s2 :> t1 @@ s3 :> t3 @@ s4 :> t4

\* p1 is the old build.
OldAndNew == [p \in Proc |-> IF p = p1 THEN Count - 1 ELSE Count]

\* p3 has edited the last migration.
Edited == [p \in Proc |-> [m \in Migration |-> IF p = p3 /\ m = Count THEN b ELSE a]]

InLease    == part = "lease"
InRunner   == part = "runner"
InIdentity == part = "identity"

Init ==
  /\ InLease \/ InRunner \/ InIdentity
  /\ L!Init /\ R!Init /\ I!Init
  /\ leased => InRunner

\* Bound: without the lease, where calls overlap, the fourth process does not call.
FewOverlap == leased \/ proc'[p4].pc = "idle"

Next ==
  /\ UNCHANGED part
  /\ \/ InLease /\ L!Next /\ UNCHANGED <<runnerVars, identityVars>>
     \/ InRunner /\ R!Next /\ FewOverlap /\ UNCHANGED <<leaseVars, identityVars>>
     \/ InIdentity /\ I!Next /\ UNCHANGED <<leaseVars, runnerVars>>

vars == <<part, leaseVars, runnerVars, identityVars>>

Spec == Init /\ [][Next]_vars /\ (InLease => L!Fairness)

-----------------------------------------------------------------------------
\* The types of the parts.
TypeOK == L!TypeOK /\ R!TypeOK /\ I!TypeOK

\* What the waiter of the lease gets, where sessions move.
WaiterGetsLease == InLease => L!WaiterGetsLease
=============================================================================
