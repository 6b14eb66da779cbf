------------------------ MODULE ReconciliationLedger ------------------------
(***************************************************************************)
(* What the durable reconciliation queue promises its callers, with no     *)
(* runner, claim, retry, crash or restart in sight:                        *)
(*   - a job is opened for a scope only while no other job of that scope   *)
(*     is open;                                                            *)
(*   - the work counted for a job only grows, and never past the work      *)
(*     there is;                                                           *)
(*   - a job closes once, as COMPLETED only when all its work is counted,  *)
(*     and a closed job never changes again.                               *)
(* Reconciliation.tla is shown to implement it.                            *)
(***************************************************************************)
EXTENDS Naturals

CONSTANTS Scope, JobId, Items

VARIABLE ledger   \* one entry per job: its scope, outcome and counted work

Closed == {"COMPLETED", "FAILED", "CANCELED"}
Entry  == [scope : Scope, outcome : {"none", "open"} \cup Closed,
           progress : 0..Items]

OpenJobs(s) == {j \in JobId : ledger[j].scope = s /\ ledger[j].outcome = "open"}

Init == /\ ledger \in [JobId -> Entry]
        /\ \A j \in JobId : ledger[j].outcome = "none" /\ ledger[j].progress = 0

Open(j, s) ==
  /\ ledger[j].outcome = "none"
  /\ OpenJobs(s) = {}
  /\ ledger' = [ledger EXCEPT ![j] = [scope |-> s, outcome |-> "open",
                                      progress |-> 0]]

Advance(j, n) ==
  /\ ledger[j].outcome = "open"
  /\ ledger[j].progress + n <= Items
  /\ ledger' = [ledger EXCEPT ![j].progress = @ + n]

Complete(j) ==
  /\ ledger[j].outcome = "open"
  /\ ledger' = [ledger EXCEPT ![j] = [scope |-> ledger[j].scope,
                                      outcome |-> "COMPLETED", progress |-> Items]]

Abandon(j) ==
  /\ ledger[j].outcome = "open"
  /\ \E o \in {"FAILED", "CANCELED"} :
       ledger' = [ledger EXCEPT ![j].outcome = o]

Next == \E j \in JobId :
          \/ \E s \in Scope : Open(j, s)
          \/ \E n \in 1..Items : Advance(j, n)
          \/ Complete(j)
          \/ Abandon(j)

Spec == Init /\ [][Next]_ledger
=============================================================================
