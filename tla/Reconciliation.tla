--------------------------- MODULE Reconciliation ---------------------------
(***************************************************************************)
(* The durable reconciliation queue and the runner that drains it:         *)
(*   SqliteCompatibilityReconciliationRepository  (the job and finding     *)
(*   tables) and CompatibilityReconciliationRunner.runNext.                *)
(*                                                                         *)
(* Every repository call is one synchronous SQLite statement or one        *)
(* transaction, so it is one action.  runNext awaits once, between the     *)
(* claim and the worker's answer; everything after the answer runs without *)
(* yielding, so only a crash can split it.                                 *)
(*                                                                         *)
(* The worker behind CompatibilityReconciliationWorkerPort is external (no *)
(* concrete worker exists yet): it compares the job's Items in order from  *)
(* its checkpoint, may report findings, and may fail.                      *)
(***************************************************************************)
EXTENDS Naturals, FiniteSets

CONSTANTS
  Scope,        \* (concept_type, subject_key) pairs
  JobId,        \* job identifiers available to the model
  Runner,       \* concurrent runNext() invocations of one process
  FindingKey,   \* finding_key values a worker may report
  Items,        \* items a worker has to compare for one job
  MaxAttempts,  \* the runner's maxAttempts option
  MaxCrashes,   \* bound: process crashes in a behaviour
  NoJob         \* no job claimed

ASSUME ConstantsAssumption ==
  /\ Items \in Nat
  /\ MaxAttempts \in Nat \ {0}
  /\ MaxCrashes \in Nat
  /\ NoJob \notin JobId

VARIABLES
  job,      \* rows of cf_compatibility_reconciliation_job
  finding,  \* attempt_count of the finding row of (job, key); 0: no row
  runner,   \* what a runNext() holds across its await
  stranded, \* history: jobs this process left RUNNING when a catch block threw
  up,       \* the process is running
  clock,    \* the created_at stamp of the newest row
  crashes   \* crashes so far

vars == <<job, finding, runner, stranded, up, clock, crashes>>

ActiveState   == {"QUEUED", "RUNNING"}
TerminalState == {"COMPLETED", "FAILED", "CANCELED"}
JobState      == {"ABSENT"} \cup ActiveState \cup TerminalState

Job == [scope : Scope, state : JobState, checkpoint : Nat, attempts : Nat,
        processed : Nat, createdAt : Nat]

\* The claimed row as runNext() read it, before the await.
Claim == [job : JobId \cup {NoJob}, checkpoint : Nat, attempts : Nat]
Idle  == [job |-> NoJob, checkpoint |-> 0, attempts |-> 0]

Active(s) == {j \in JobId : job[j].scope = s /\ job[j].state \in ActiveState}
Queued    == {j \in JobId : job[j].state = "QUEUED"}

-----------------------------------------------------------------------------

Init ==
  /\ \E s \in Scope :
       job = [j \in JobId |-> [scope |-> s, state |-> "ABSENT", checkpoint |-> 0,
                               attempts |-> 0, processed |-> 0, createdAt |-> 0]]
  /\ finding = [j \in JobId |-> [k \in FindingKey |-> 0]]
  /\ runner = [r \in Runner |-> Idle]
  /\ stranded = {}
  /\ up = TRUE
  /\ clock = 0
  /\ crashes = 0

\* Mutant: the SELECT and the unique index count QUEUED jobs only as active.
EnqueueBesideRunning(s) ==
  /\ up
  /\ \A k \in Queued : job[k].scope # s
  /\ \E j \in JobId :
       /\ job[j].state = "ABSENT"
       /\ job' = [job EXCEPT ![j].scope = s, ![j].state = "QUEUED"]
  /\ UNCHANGED <<finding, runner, stranded, up, clock, crashes>>

(***************************************************************************)
(* enqueue: the SELECT for an active job of the scope, then the INSERT.    *)
(* When the SELECT finds one its id is returned and nothing is written.    *)
(* Rows inserted in the same millisecond share created_at.                 *)
(***************************************************************************)
Enqueue(s) ==
  /\ up
  /\ Active(s) = {}
  /\ \E j \in JobId, t \in {clock, clock + 1} :
       /\ job[j].state = "ABSENT"
       /\ job' = [job EXCEPT ![j] =
                    [scope |-> s, state |-> "QUEUED", checkpoint |-> 0,
                     attempts |-> 0, processed |-> 0, createdAt |-> t]]
       /\ clock' = t
  /\ UNCHANGED <<finding, runner, stranded, up, crashes>>

(***************************************************************************)
(* claimNext: the oldest QUEUED row by created_at; rows that share a stamp *)
(* are ordered by a random identifier, so any of them may come first.      *)
(***************************************************************************)
Oldest(j) == j \in Queued /\ \A k \in Queued : job[j].createdAt <= job[k].createdAt

ClaimNext(r) ==
  /\ up
  /\ runner[r] = Idle
  /\ \E j \in JobId :
       /\ Oldest(j)
       /\ job' = [job EXCEPT ![j].state = "RUNNING", ![j].attempts = @ + 1]
       /\ runner' = [runner EXCEPT ![r] =
                       [job |-> j, checkpoint |-> job[j].checkpoint,
                        attempts |-> job[j].attempts + 1]]
  /\ UNCHANGED <<finding, stranded, up, clock, crashes>>

\* upsertFinding for every reported key: insert with 1, or add 1.
Upsert(j, keys) ==
  [finding EXCEPT ![j] = [k \in FindingKey |-> @[k] + (IF k \in keys THEN 1 ELSE 0)]]

\* complete/checkpoint/retry/fail: UPDATE ... WHERE state = 'RUNNING', else throw.
SetRunning(j, row) == job' = IF job[j].state = "RUNNING"
                             THEN [job EXCEPT ![j] = row] ELSE job

InFlight(r) == up /\ runner[r].job # NoJob
Return(r)   == runner' = [runner EXCEPT ![r] = Idle]

(***************************************************************************)
(* The worker answered, and the job was canceled meanwhile: no mutation.   *)
(* The same holds when the worker threw: retry and fail find no RUNNING    *)
(* row, throw, and runNext rejects.                                        *)
(***************************************************************************)
DropCanceled(r) ==
  /\ InFlight(r)
  /\ job[runner[r].job].state = "CANCELED"
  /\ Return(r)
  /\ UNCHANGED <<job, finding, stranded, up, clock, crashes>>

\* Mutant: the answer is persisted without looking for a cancellation.
CompleteUnchecked(r, keys) ==
  LET j == runner[r].job  n == Items - runner[r].checkpoint IN
  /\ InFlight(r)
  /\ finding' = Upsert(j, keys)
  /\ SetRunning(j, [job[j] EXCEPT !.state = "COMPLETED", !.processed = @ + n])
  /\ Return(r)
  /\ UNCHANGED <<stranded, up, clock, crashes>>

\* The batch reached the last item: findings, then complete().
CompleteBatch(r, keys) ==
  LET j == runner[r].job  n == Items - runner[r].checkpoint IN
  /\ InFlight(r)
  /\ job[j].state # "CANCELED"
  /\ finding' = Upsert(j, keys)
  /\ SetRunning(j, [job[j] EXCEPT !.state = "COMPLETED", !.processed = @ + n])
  /\ Return(r)
  /\ UNCHANGED <<stranded, up, clock, crashes>>

\* Mutant: the count of the batch is kept, its position is not.
CheckpointForgetsPosition(r, n, keys) ==
  LET j == runner[r].job IN
  /\ InFlight(r)
  /\ job[j].state # "CANCELED"
  /\ n > 0
  /\ runner[r].checkpoint + n < Items
  /\ finding' = Upsert(j, keys)
  /\ SetRunning(j, [job[j] EXCEPT !.state = "QUEUED", !.processed = @ + n])
  /\ Return(r)
  /\ UNCHANGED <<stranded, up, clock, crashes>>

\* An incomplete batch made progress: findings, then checkpoint().
CheckpointBatch(r, n, keys) ==
  LET j == runner[r].job IN
  /\ InFlight(r)
  /\ job[j].state # "CANCELED"
  /\ n > 0
  /\ runner[r].checkpoint + n < Items
  /\ finding' = Upsert(j, keys)
  /\ SetRunning(j, [job[j] EXCEPT !.state = "QUEUED", !.processed = @ + n,
                                  !.checkpoint = runner[r].checkpoint + n])
  /\ Return(r)
  /\ UNCHANGED <<stranded, up, clock, crashes>>

(***************************************************************************)
(* The worker threw, returned a batch that breaks its contract (neither    *)
(* persists a finding), or a finding or the job update was refused.        *)
(* A retryable error below the ceiling requeues the job with the           *)
(* checkpoint it had when it was claimed; any other fails it.              *)
(***************************************************************************)
FailBatch(r, retryable, keys) ==
  LET j == runner[r].job IN
  /\ InFlight(r)
  /\ job[j].state # "CANCELED"
  /\ finding' = Upsert(j, keys)
  /\ IF retryable /\ runner[r].attempts < MaxAttempts
     THEN SetRunning(j, [job[j] EXCEPT !.state = "QUEUED",
                                       !.checkpoint = runner[r].checkpoint])
     ELSE SetRunning(j, [job[j] EXCEPT !.state = "FAILED"])
  /\ Return(r)
  /\ UNCHANGED <<stranded, up, clock, crashes>>

(***************************************************************************)
(* The catch block's own retry() or fail() throws: runNext rejects, and    *)
(* nobody holds the job, which stays RUNNING until the next process start. *)
(***************************************************************************)
StrandJob(r, keys) ==
  LET j == runner[r].job IN
  /\ InFlight(r)
  /\ job[j].state # "CANCELED"
  /\ finding' = Upsert(j, keys)
  /\ stranded' = stranded \cup {j}
  /\ Return(r)
  /\ UNCHANGED <<job, up, clock, crashes>>

\* Mutant: the state is written as the API spells it, not as the schema does.
CancelMisspelt(j) ==
  /\ up
  /\ job[j].state \in ActiveState
  /\ job' = [job EXCEPT ![j].state = "CANCELLED"]
  /\ UNCHANGED <<finding, runner, stranded, up, clock, crashes>>

\* cancel: an operator may cancel a QUEUED or RUNNING job at any time.
Cancel(j) ==
  /\ up
  /\ job[j].state \in ActiveState
  /\ job' = [job EXCEPT ![j].state = "CANCELED"]
  /\ UNCHANGED <<finding, runner, stranded, up, clock, crashes>>

(***************************************************************************)
(* The process dies.  A runner caught after its upserts and before the job *)
(* update leaves findings behind; the rows are durable, the runners not.   *)
(***************************************************************************)
Crash ==
  /\ up
  /\ crashes < MaxCrashes
  /\ \/ UNCHANGED finding
     \/ \E r \in Runner, keys \in SUBSET FindingKey :
          /\ InFlight(r)
          /\ job[runner[r].job].state # "CANCELED"
          /\ finding' = Upsert(runner[r].job, keys)
  /\ up' = FALSE
  /\ runner' = [r \in Runner |-> Idle]
  /\ stranded' = {}
  /\ crashes' = crashes + 1
  /\ UNCHANGED <<job, clock>>

\* Mutant: the process starts without recovery.
RestartWithoutRecovery ==
  /\ ~up
  /\ up' = TRUE
  /\ UNCHANGED <<job, finding, runner, stranded, clock, crashes>>

\* A process start calls recoverInterrupted before it runs any job.
Restart ==
  /\ ~up
  /\ up' = TRUE
  /\ job' = [j \in JobId |-> IF job[j].state = "RUNNING"
                             THEN [job[j] EXCEPT !.state = "QUEUED"] ELSE job[j]]
  /\ UNCHANGED <<finding, runner, stranded, clock, crashes>>

FinishBatch(r) ==
  \/ DropCanceled(r)
  \/ \E keys \in SUBSET FindingKey :
       \/ CompleteBatch(r, keys)
       \/ StrandJob(r, keys)
       \/ \E n \in 1..Items : CheckpointBatch(r, n, keys)
       \/ \E retryable \in BOOLEAN : FailBatch(r, retryable, keys)

Next ==
  \/ \E s \in Scope : Enqueue(s)
  \/ \E j \in JobId : Cancel(j)
  \/ \E r \in Runner : ClaimNext(r) \/ FinishBatch(r)
  \/ Crash
  \/ Restart

Spec == Init /\ [][Next]_vars

(***************************************************************************)
(* Some caller keeps invoking runNext, the worker answers, and a process   *)
(* that died is started again.  Nobody has to enqueue, cancel or crash.    *)
(***************************************************************************)
Fairness == /\ \A r \in Runner : WF_vars(ClaimNext(r)) /\ WF_vars(FinishBatch(r))
            /\ WF_vars(Restart)

FairSpec == Spec /\ Fairness

-----------------------------------------------------------------------------
\* Every variable keeps its type.
TypeOK ==
  /\ job \in [JobId -> Job]
  /\ finding \in [JobId -> [FindingKey -> Nat]]
  /\ runner \in [Runner -> Claim]
  /\ stranded \subseteq JobId
  /\ up \in BOOLEAN
  /\ clock \in Nat
  /\ crashes \in Nat

(***************************************************************************)
(* reconciliation-policy.md: "Only one active QUEUED or RUNNING job may    *)
(* exist for a (concept_type, subject_key) pair", across retries,          *)
(* checkpoints, cancellations and restarts.                                *)
(***************************************************************************)
OneActivePerScope ==
  \A j, k \in JobId :
    (j # k /\ job[j].state \in ActiveState /\ job[k].state \in ActiveState)
      => job[j].scope # job[k].scope

(***************************************************************************)
(* A RUNNING job is being run by exactly one live runner of this process,  *)
(* or the process is down and the restart will requeue it: no job is       *)
(* executed twice at once.  The one way to be RUNNING in nobody's hands is *)
(* that the catch block of its runner threw; then nobody runs it at all.   *)
(***************************************************************************)
RunningHasOneRunner ==
  up => \A j \in JobId : job[j].state = "RUNNING" =>
          IF j \in stranded
          THEN \A r \in Runner : runner[r].job # j
          ELSE \E r \in Runner : /\ runner[r].job = j
                                 /\ \A q \in Runner : runner[q].job = j => q = r

(***************************************************************************)
(* processed_count counts every item once: whatever crashes, retries and   *)
(* partial batches happened, it equals the durable position, and a         *)
(* COMPLETED job has counted exactly its items.                            *)
(***************************************************************************)
CountsEachItemOnce ==
  \A j \in JobId :
    /\ job[j].state \in ActiveState \cup {"FAILED", "CANCELED"}
         => job[j].processed = job[j].checkpoint /\ job[j].processed <= Items
    /\ job[j].state = "COMPLETED" => job[j].processed = Items

(***************************************************************************)
(* The worker is not called for ever: a claim beyond the ceiling is paid   *)
(* for by a crash or by a checkpoint, which moved the job forward.         *)
(* (attempt_count is raised by every claim, so progress spends the retry   *)
(* budget; what it cannot do is extend it without limit.)                  *)
(***************************************************************************)
ClaimsAreBounded ==
  \A j \in JobId : job[j].attempts <= MaxAttempts + crashes + job[j].checkpoint

(***************************************************************************)
(* A terminal job is history: no late answer, retry, recovery or crash     *)
(* changes its row or its findings.                                        *)
(***************************************************************************)
TerminalIsFrozen ==
  [][\A j \in JobId : job[j].state \in TerminalState =>
        job'[j] = job[j] /\ finding'[j] = finding[j]]_vars

(***************************************************************************)
(* Every accepted job ends: a failing worker exhausts the ceiling, and a   *)
(* job interrupted by a crash is picked up again.  Only a job stranded by  *)
(* its runner waits for the next process start, which nothing promises.    *)
(***************************************************************************)
EveryJobEnds ==
  \A j \in JobId :
    job[j].state = "QUEUED" ~> (job[j].state \in TerminalState \/ j \in stranded)

\* The queue implements the ledger: runners, retries and crashes are invisible.
Outcome(state) == CASE state = "ABSENT" -> "none"
                    [] state \in ActiveState -> "open"
                    [] OTHER -> state

Ledger == INSTANCE ReconciliationLedger WITH
            ledger <- [j \in JobId |-> [scope |-> job[j].scope,
                                        outcome |-> Outcome(job[j].state),
                                        progress |-> job[j].processed]]

ImplementsLedger == Ledger!Spec
=============================================================================
