------------------------ MODULE ReconciliationProofs ------------------------
(***************************************************************************)
(* Proofs about Reconciliation, for every set of scopes, jobs and runners. *)
(*                                                                         *)
(* OneActivePerScope and CountsEachItemOnce are not inductive alone: a     *)
(* late answer could complete a job somebody else has claimed since.       *)
(* HoldsItsClaim rules that out: a job in flight is held by one runner,    *)
(* whose remembered checkpoint is still the durable one.                   *)
(***************************************************************************)
EXTENDS Reconciliation, TLAPS

\* A runner holds its claim alone, and what it remembers is not stale.
HoldsItsClaim ==
  \A r \in Runner : runner[r].job # NoJob =>
    /\ up
    /\ job[runner[r].job].state \in {"RUNNING", "CANCELED"}
    /\ job[runner[r].job].state = "RUNNING" =>
         runner[r].checkpoint = job[runner[r].job].checkpoint
    /\ \A q \in Runner : runner[q].job = runner[r].job => q = r

\* While the process is up, a RUNNING job that was not stranded is in some
\* runner's hands, and a stranded one is in nobody's.
RunningIsHeld ==
  /\ up => \A j \in JobId \ stranded : job[j].state = "RUNNING" =>
             \E r \in Runner : runner[r].job = j
  /\ stranded # {} => up
  /\ \A j \in stranded : /\ job[j].state \in {"RUNNING", "CANCELED"}
                         /\ \A r \in Runner : runner[r].job # j

IInv == TypeOK /\ OneActivePerScope /\ CountsEachItemOnce
        /\ HoldsItsClaim /\ RunningIsHeld

-----------------------------------------------------------------------------
\* The invariant holds of the empty queue.
LEMMA InitEstablishes == Init => IInv
  BY ConstantsAssumption
     DEF Init, IInv, TypeOK, OneActivePerScope, CountsEachItemOnce,
         HoldsItsClaim, RunningIsHeld, Job, Claim, Idle, JobState, ActiveState,
         TerminalState

\* Enqueue opens a job only for a scope without an active one.
LEMMA EnqueueStep == ASSUME IInv, NEW s \in Scope, Enqueue(s) PROVE IInv'
  <1> USE DEF Enqueue, Active, JobState, ActiveState, TerminalState
  <1> PICK j \in JobId, t \in {clock, clock + 1} :
         /\ job[j].state = "ABSENT"
         /\ job' = [job EXCEPT ![j] =
                      [scope |-> s, state |-> "QUEUED", checkpoint |-> 0,
                       attempts |-> 0, processed |-> 0, createdAt |-> t]]
         /\ clock' = t
    OBVIOUS
  <1>1. TypeOK'
    BY DEF IInv, TypeOK, Job
  <1>2. OneActivePerScope'
    BY DEF IInv, TypeOK, Job, OneActivePerScope
  <1>3. CountsEachItemOnce'
    BY ConstantsAssumption DEF IInv, TypeOK, Job, CountsEachItemOnce
  <1>4. HoldsItsClaim' /\ RunningIsHeld'
    BY DEF IInv, TypeOK, Job, HoldsItsClaim, RunningIsHeld, Claim
  <1> QED BY <1>1, <1>2, <1>3, <1>4 DEF IInv

\* Canceling leaves a runner with a canceled job in its hands, never a free one.
LEMMA CancelStep == ASSUME IInv, NEW j \in JobId, Cancel(j) PROVE IInv'
  <1> USE DEF Cancel, JobState, ActiveState, TerminalState
  <1>1. TypeOK'
    BY DEF IInv, TypeOK, Job
  <1>2. OneActivePerScope' /\ CountsEachItemOnce'
    BY DEF IInv, TypeOK, Job, OneActivePerScope, CountsEachItemOnce
  <1>3. HoldsItsClaim' /\ RunningIsHeld'
    BY DEF IInv, TypeOK, Job, HoldsItsClaim, RunningIsHeld, Claim
  <1> QED BY <1>1, <1>2, <1>3 DEF IInv

\* Only a QUEUED job is claimed, and nobody holds a QUEUED job.
LEMMA ClaimStep == ASSUME IInv, NEW r \in Runner, ClaimNext(r) PROVE IInv'
  <1> USE DEF JobState, ActiveState, TerminalState
  <1> PICK j \in JobId :
         /\ job[j].state = "QUEUED"
         /\ job' = [job EXCEPT ![j].state = "RUNNING", ![j].attempts = @ + 1]
         /\ runner' = [runner EXCEPT ![r] =
                         [job |-> j, checkpoint |-> job[j].checkpoint,
                          attempts |-> job[j].attempts + 1]]
    BY DEF ClaimNext, Oldest, Queued
  <1> /\ up /\ runner[r] = Idle
      /\ UNCHANGED <<finding, stranded, up, clock, crashes>>
    BY DEF ClaimNext
  <1>1. TypeOK'
    BY DEF IInv, TypeOK, Job, Claim
  <1>2. OneActivePerScope' /\ CountsEachItemOnce'
    BY DEF IInv, TypeOK, Job, OneActivePerScope, CountsEachItemOnce
  <1>3. HoldsItsClaim'
    BY ConstantsAssumption DEF IInv, TypeOK, Job, HoldsItsClaim, Claim, Idle
  <1>4. RunningIsHeld'
    BY ConstantsAssumption DEF IInv, TypeOK, Job, RunningIsHeld, Claim, Idle
  <1> QED BY <1>1, <1>2, <1>3, <1>4 DEF IInv

\* What every answer of the worker does to the runner that waited for it.
LEMMA ReturnStep ==
  ASSUME IInv, NEW r \in Runner, InFlight(r), Return(r), up' = up, stranded' = stranded,
         NEW row \in Job,
         LET j == runner[r].job IN
           /\ job[j].state = "RUNNING"
           /\ row.scope = job[j].scope
           /\ row.state \in {"QUEUED", "COMPLETED", "FAILED"}
           /\ row.state # "COMPLETED" => row.processed = row.checkpoint
           /\ row.state = "COMPLETED" => row.processed = Items
           /\ row.processed <= Items
           /\ job' = [job EXCEPT ![j] = row]
  PROVE  /\ job' \in [JobId -> Job] /\ runner' \in [Runner -> Claim]
         /\ OneActivePerScope' /\ CountsEachItemOnce'
         /\ HoldsItsClaim' /\ RunningIsHeld'
  <1> USE DEF InFlight, Return, JobState, ActiveState, TerminalState
  <1> DEFINE j == runner[r].job
  <1>0. j \in JobId
    BY DEF IInv, TypeOK, Claim
  <1>1. job' \in [JobId -> Job] /\ runner' \in [Runner -> Claim]
    BY <1>0, ConstantsAssumption DEF IInv, TypeOK, Claim, Idle
  <1>2. OneActivePerScope'
    BY <1>0 DEF IInv, TypeOK, OneActivePerScope
  <1>3. CountsEachItemOnce'
    BY <1>0, ConstantsAssumption DEF IInv, TypeOK, CountsEachItemOnce
  <1>4. HoldsItsClaim'
    BY <1>0, ConstantsAssumption DEF IInv, TypeOK, HoldsItsClaim, Claim, Idle
  <1>5. RunningIsHeld'
    BY <1>0, ConstantsAssumption DEF IInv, TypeOK, RunningIsHeld, Claim, Idle
  <1> QED BY <1>1, <1>2, <1>3, <1>4, <1>5

\* Upserts keep the findings well typed.
LEMMA UpsertType ==
  ASSUME finding \in [JobId -> [FindingKey -> Nat]], NEW j \in JobId,
         NEW keys \in SUBSET FindingKey
  PROVE  Upsert(j, keys) \in [JobId -> [FindingKey -> Nat]]
  BY DEF Upsert

\* A canceled job's answer only frees the runner.
LEMMA DropStep == ASSUME IInv, NEW r \in Runner, DropCanceled(r) PROVE IInv'
  <1> USE DEF DropCanceled, InFlight, Return, JobState, ActiveState, TerminalState
  <1>1. TypeOK'
    BY ConstantsAssumption DEF IInv, TypeOK, Claim, Idle
  <1>2. OneActivePerScope' /\ CountsEachItemOnce'
    BY DEF IInv, OneActivePerScope, CountsEachItemOnce
  <1>3. HoldsItsClaim' /\ RunningIsHeld'
    BY ConstantsAssumption
       DEF IInv, TypeOK, HoldsItsClaim, RunningIsHeld, Claim, Idle
  <1> QED BY <1>1, <1>2, <1>3 DEF IInv

\* The job a runner may answer for is still RUNNING when it is not CANCELED.
LEMMA AnswerFindsRunning ==
  ASSUME IInv, NEW r \in Runner, InFlight(r), job[runner[r].job].state # "CANCELED"
  PROVE  /\ runner[r].job \in JobId
         /\ job[runner[r].job] \in Job
         /\ job[runner[r].job].state = "RUNNING"
         /\ runner[r].checkpoint = job[runner[r].job].checkpoint
         /\ job[runner[r].job].processed = job[runner[r].job].checkpoint
         /\ job[runner[r].job].processed <= Items
  <1>1. runner[r].job \in JobId /\ job[runner[r].job] \in Job
    BY DEF IInv, TypeOK, Claim, InFlight
  <1>2. job[runner[r].job].state = "RUNNING"
    BY DEF IInv, HoldsItsClaim, InFlight
  <1> QED BY <1>1, <1>2 DEF IInv, HoldsItsClaim, CountsEachItemOnce, InFlight,
                            ActiveState

\* The last batch brings processed_count to exactly the job's items.
LEMMA CompleteStep ==
  ASSUME IInv, NEW r \in Runner, NEW keys \in SUBSET FindingKey,
         CompleteBatch(r, keys)
  PROVE  IInv'
  <1> DEFINE j   == runner[r].job
             row == [job[j] EXCEPT !.state = "COMPLETED",
                                   !.processed = @ + (Items - runner[r].checkpoint)]
  <1>1. InFlight(r) /\ Return(r) /\ job[j].state # "CANCELED"
        /\ finding' = Upsert(j, keys) /\ UNCHANGED <<stranded, up, clock, crashes>>
    BY DEF CompleteBatch
  <1>2. /\ j \in JobId /\ job[j] \in Job /\ job[j].state = "RUNNING"
        /\ runner[r].checkpoint = job[j].checkpoint
        /\ job[j].processed = job[j].checkpoint /\ job[j].processed <= Items
    BY <1>1, AnswerFindsRunning
  <1>3. job' = [job EXCEPT ![j] = row]
    BY <1>2 DEF CompleteBatch, SetRunning
  <1>4. row \in Job /\ row.scope = job[j].scope /\ row.state = "COMPLETED"
        /\ row.processed = Items
    <2>1. job[j].processed \in Nat /\ runner[r].checkpoint = job[j].processed
          /\ job[j].processed + (Items - job[j].processed) = Items
      BY <1>2, ConstantsAssumption DEF Job
    <2>2. row = [job[j] EXCEPT !.state = "COMPLETED", !.processed = Items]
      BY <2>1
    <2> QED BY <1>2, <2>2, ConstantsAssumption
               DEF Job, JobState, ActiveState, TerminalState
  <1>5. Items <= Items
    BY ConstantsAssumption
  <1> HIDE DEF row
  <1>6. /\ job' \in [JobId -> Job] /\ runner' \in [Runner -> Claim]
        /\ OneActivePerScope' /\ CountsEachItemOnce' /\ HoldsItsClaim'
        /\ RunningIsHeld'
    BY <1>1, <1>2, <1>3, <1>4, <1>5, ReturnStep
  <1>7. finding' \in [JobId -> [FindingKey -> Nat]]
    BY <1>1, <1>2, UpsertType DEF IInv, TypeOK
  <1> QED BY <1>1, <1>6, <1>7 DEF IInv, TypeOK

\* A partial batch moves checkpoint and processed_count by the same amount.
LEMMA CheckpointStep ==
  ASSUME IInv, NEW r \in Runner, NEW n \in 1..Items,
         NEW keys \in SUBSET FindingKey, CheckpointBatch(r, n, keys)
  PROVE  IInv'
  <1> DEFINE j   == runner[r].job
             row == [job[j] EXCEPT !.state = "QUEUED", !.processed = @ + n,
                                   !.checkpoint = runner[r].checkpoint + n]
  <1>1. InFlight(r) /\ Return(r) /\ job[j].state # "CANCELED"
        /\ runner[r].checkpoint + n < Items
        /\ finding' = Upsert(j, keys) /\ UNCHANGED <<stranded, up, clock, crashes>>
    BY DEF CheckpointBatch
  <1>2. /\ j \in JobId /\ job[j] \in Job /\ job[j].state = "RUNNING"
        /\ runner[r].checkpoint = job[j].checkpoint
        /\ job[j].processed = job[j].checkpoint /\ job[j].processed <= Items
    BY <1>1, AnswerFindsRunning
  <1>3. job' = [job EXCEPT ![j] = row]
    BY <1>2 DEF CheckpointBatch, SetRunning
  <1>4. row \in Job /\ row.scope = job[j].scope /\ row.state = "QUEUED"
        /\ row.processed = row.checkpoint /\ row.processed <= Items
    <2> DEFINE p == job[j].processed + n
    <2>1. /\ job[j].processed \in Nat /\ p \in Nat /\ p <= Items
          /\ runner[r].checkpoint = job[j].processed
      BY <1>1, <1>2, ConstantsAssumption DEF Job
    <2>2. row = [job[j] EXCEPT !.state = "QUEUED", !.processed = p,
                               !.checkpoint = p]
      BY <2>1
    <2> HIDE DEF p
    <2> QED BY <1>2, <2>1, <2>2 DEF Job, JobState, ActiveState, TerminalState
  <1> HIDE DEF row
  <1>5. /\ job' \in [JobId -> Job] /\ runner' \in [Runner -> Claim]
        /\ OneActivePerScope' /\ CountsEachItemOnce' /\ HoldsItsClaim'
        /\ RunningIsHeld'
    BY <1>1, <1>2, <1>3, <1>4, ReturnStep
  <1>6. finding' \in [JobId -> [FindingKey -> Nat]]
    BY <1>1, <1>2, UpsertType DEF IInv, TypeOK
  <1> QED BY <1>1, <1>5, <1>6 DEF IInv, TypeOK

\* A failed batch counts nothing and restores the claimed checkpoint.
LEMMA FailStep ==
  ASSUME IInv, NEW r \in Runner, NEW retryable \in BOOLEAN,
         NEW keys \in SUBSET FindingKey, FailBatch(r, retryable, keys)
  PROVE  IInv'
  <1> DEFINE j     == runner[r].job
             again == [job[j] EXCEPT !.state = "QUEUED",
                                     !.checkpoint = runner[r].checkpoint]
             done  == [job[j] EXCEPT !.state = "FAILED"]
  <1>1. InFlight(r) /\ Return(r) /\ job[j].state # "CANCELED"
        /\ finding' = Upsert(j, keys) /\ UNCHANGED <<stranded, up, clock, crashes>>
    BY DEF FailBatch
  <1>2. /\ j \in JobId /\ job[j] \in Job /\ job[j].state = "RUNNING"
        /\ runner[r].checkpoint = job[j].checkpoint
        /\ job[j].processed = job[j].checkpoint /\ job[j].processed <= Items
    BY <1>1, AnswerFindsRunning
  <1>3. \/ job' = [job EXCEPT ![j] = again]
        \/ job' = [job EXCEPT ![j] = done]
    BY <1>2 DEF FailBatch, SetRunning
  <1>4. /\ again \in Job /\ again.scope = job[j].scope /\ again.state = "QUEUED"
        /\ again.processed = again.checkpoint /\ again.processed <= Items
        /\ done \in Job /\ done.scope = job[j].scope /\ done.state = "FAILED"
        /\ done.processed = done.checkpoint /\ done.processed <= Items
    BY <1>2, ConstantsAssumption DEF Job, JobState, ActiveState, TerminalState
  <1> HIDE DEF again, done
  <1>5. /\ job' \in [JobId -> Job] /\ runner' \in [Runner -> Claim]
        /\ OneActivePerScope' /\ CountsEachItemOnce' /\ HoldsItsClaim'
        /\ RunningIsHeld'
    <2>1. CASE job' = [job EXCEPT ![j] = again]
      BY <1>1, <1>2, <1>4, <2>1, ReturnStep
    <2>2. CASE job' = [job EXCEPT ![j] = done]
      BY <1>1, <1>2, <1>4, <2>2, ReturnStep
    <2> QED BY <1>3, <2>1, <2>2
  <1>6. finding' \in [JobId -> [FindingKey -> Nat]]
    BY <1>1, <1>2, UpsertType DEF IInv, TypeOK
  <1> QED BY <1>1, <1>5, <1>6 DEF IInv, TypeOK

\* A catch block that throws frees the runner and leaves the row to nobody.
LEMMA StrandStep ==
  ASSUME IInv, NEW r \in Runner, NEW keys \in SUBSET FindingKey, StrandJob(r, keys)
  PROVE  IInv'
  <1> DEFINE j == runner[r].job
  <1>1. /\ InFlight(r) /\ Return(r) /\ job[j].state # "CANCELED"
        /\ finding' = Upsert(j, keys) /\ stranded' = stranded \cup {j}
        /\ UNCHANGED <<job, up, clock, crashes>>
    BY DEF StrandJob
  <1>2. j \in JobId /\ job[j].state = "RUNNING"
    BY <1>1, AnswerFindsRunning
  <1>3. runner' \in [Runner -> Claim] /\ runner' = [runner EXCEPT ![r] = Idle]
    BY <1>1, ConstantsAssumption DEF IInv, TypeOK, Return, Claim, Idle
  <1>4. finding' \in [JobId -> [FindingKey -> Nat]]
    BY <1>1, <1>2, UpsertType DEF IInv, TypeOK
  <1>5. TypeOK'
    BY <1>1, <1>2, <1>3, <1>4 DEF IInv, TypeOK
  <1>6. OneActivePerScope' /\ CountsEachItemOnce'
    BY <1>1 DEF IInv, OneActivePerScope, CountsEachItemOnce
  <1>7. \A q \in Runner : IF q = r THEN runner'[q].job = NoJob
                                   ELSE runner'[q] = runner[q] /\ runner[q].job # j
    BY <1>1, <1>3, ConstantsAssumption DEF IInv, TypeOK, HoldsItsClaim, InFlight, Idle
  <1>8. HoldsItsClaim'
    BY <1>1, <1>7 DEF IInv, HoldsItsClaim
  <1>9. up /\ \A q \in Runner : runner'[q].job # j
    BY <1>1, <1>2, <1>7, ConstantsAssumption DEF InFlight
  <1>10. ASSUME up', NEW k \in JobId \ stranded', job'[k].state = "RUNNING"
         PROVE  \E q \in Runner : runner'[q].job = k
    <2>1. PICK q \in Runner : runner[q].job = k
      BY <1>1, <1>10 DEF IInv, RunningIsHeld
    <2>2. q # r
      BY <1>1, <1>10, <2>1
    <2> QED BY <1>7, <2>1, <2>2
  <1>11. ASSUME NEW k \in stranded'
         PROVE  /\ job'[k].state \in {"RUNNING", "CANCELED"}
                /\ \A q \in Runner : runner'[q].job # k
    <2>1. CASE k = j
      BY <1>1, <1>2, <1>9, <2>1
    <2>2. CASE k # j
      <3>1. k \in stranded /\ k \in JobId
        BY <1>1, <1>11, <2>2 DEF IInv, TypeOK
      <3> QED BY <1>1, <1>7, <3>1, ConstantsAssumption DEF IInv, RunningIsHeld
    <2> QED BY <2>1, <2>2
  <1>12. RunningIsHeld'
    BY <1>1, <1>9, <1>10, <1>11 DEF RunningIsHeld
  <1> QED BY <1>5, <1>6, <1>8, <1>12 DEF IInv

\* A crash forgets every runner; the rows stay.
LEMMA CrashStep == ASSUME IInv, Crash PROVE IInv'
  <1>1. UNCHANGED <<job, clock>> /\ up' = FALSE /\ crashes' = crashes + 1
        /\ stranded' = {}
        /\ runner' = [r \in Runner |-> Idle]
    BY DEF Crash
  <1>2. finding' \in [JobId -> [FindingKey -> Nat]]
    <2>1. CASE UNCHANGED finding
      BY <2>1 DEF IInv, TypeOK
    <2>2. CASE \E r \in Runner, keys \in SUBSET FindingKey :
                 InFlight(r) /\ finding' = Upsert(runner[r].job, keys)
      <3> PICK r \in Runner, keys \in SUBSET FindingKey :
               InFlight(r) /\ finding' = Upsert(runner[r].job, keys)
        BY <2>2
      <3>1. runner[r].job \in JobId
        BY DEF IInv, TypeOK, Claim, InFlight
      <3> QED BY <3>1, UpsertType DEF IInv, TypeOK
    <2> QED BY <2>1, <2>2 DEF Crash
  <1>3. TypeOK'
    <2>1. crashes' \in Nat
      BY <1>1 DEF IInv, TypeOK
    <2>4. up' \in BOOLEAN
      BY <1>1
    <2>2. Idle \in Claim
      BY DEF Idle, Claim
    <2>3. runner' \in [Runner -> Claim]
      BY <1>1, <2>2
    <2> QED BY <1>1, <1>2, <2>1, <2>3, <2>4 DEF IInv, TypeOK
  <1>4. OneActivePerScope' /\ CountsEachItemOnce'
    BY <1>1 DEF IInv, OneActivePerScope, CountsEachItemOnce
  <1>5. HoldsItsClaim' /\ RunningIsHeld'
    BY <1>1 DEF HoldsItsClaim, RunningIsHeld, Idle
  <1> QED BY <1>3, <1>4, <1>5 DEF IInv

\* The restart requeues what the dead runners left; nobody holds it yet.
LEMMA RestartStep == ASSUME IInv, Restart PROVE IInv'
  <1> USE DEF Restart, JobState, ActiveState, TerminalState
  <1>1. TypeOK'
    BY DEF IInv, TypeOK, Job
  <1>2. OneActivePerScope' /\ CountsEachItemOnce'
    BY DEF IInv, TypeOK, Job, OneActivePerScope, CountsEachItemOnce
  <1>3. HoldsItsClaim' /\ RunningIsHeld'
    BY DEF IInv, TypeOK, Job, HoldsItsClaim, RunningIsHeld
  <1> QED BY <1>1, <1>2, <1>3 DEF IInv

\* Every step of the queue and its runners keeps the invariant.
LEMMA StepPreserves == ASSUME IInv, [Next]_vars PROVE IInv'
  <1>1. ASSUME NEW s \in Scope, Enqueue(s) PROVE IInv'
    BY <1>1, EnqueueStep
  <1>2. ASSUME NEW j \in JobId, Cancel(j) PROVE IInv'
    BY <1>2, CancelStep
  <1>3. ASSUME NEW r \in Runner, ClaimNext(r) PROVE IInv'
    BY <1>3, ClaimStep
  <1>4. ASSUME NEW r \in Runner, FinishBatch(r) PROVE IInv'
    BY <1>4, DropStep, CompleteStep, CheckpointStep, FailStep, StrandStep DEF FinishBatch
  <1>5. CASE Crash
    BY <1>5, CrashStep
  <1>6. CASE Restart
    BY <1>6, RestartStep
  <1>7. CASE UNCHANGED vars
    BY <1>7 DEF vars, IInv, TypeOK, OneActivePerScope, CountsEachItemOnce,
                HoldsItsClaim, RunningIsHeld
  <1> QED BY <1>1, <1>2, <1>3, <1>4, <1>5, <1>6, <1>7 DEF Next

-----------------------------------------------------------------------------
\* Every reachable state of the queue satisfies the inductive invariant.
THEOREM Invariance == Spec => []IInv
  BY InitEstablishes, StepPreserves, PTL DEF Spec

\* Type correctness of the queue and its runners.
THEOREM TypeCorrect == Spec => []TypeOK
  BY Invariance, PTL DEF IInv

\* At most one QUEUED or RUNNING job per scope, for every number of runners.
THEOREM SingleActiveJob == Spec => []OneActivePerScope
  BY Invariance, PTL DEF IInv

\* processed_count never counts an item twice nor loses one.
THEOREM ExactlyOnceCounting == Spec => []CountsEachItemOnce
  BY Invariance, PTL DEF IInv

\* A RUNNING job of a live process has one runner, no more and no less; one that
\* its runner stranded has none.
THEOREM ExclusiveRunning == Spec => []RunningHasOneRunner
  <1>1. IInv => RunningHasOneRunner
    BY ConstantsAssumption
       DEF IInv, RunningHasOneRunner, RunningIsHeld, HoldsItsClaim, TypeOK
  <1> QED BY <1>1, Invariance, PTL

-----------------------------------------------------------------------------
\* An upsert touches the findings of its own job only.
LEMMA UpsertOthers ==
  ASSUME finding \in [JobId -> [FindingKey -> Nat]], NEW j \in JobId,
         NEW k \in JobId, k # j, NEW keys
  PROVE  Upsert(j, keys)[k] = finding[k]
  BY DEF Upsert

\* An answer writes the row of its own job, which is RUNNING, or no row at all.
LEMMA AnswerWritesOneRow ==
  ASSUME IInv, NEW r \in Runner, FinishBatch(r), NEW k \in JobId,
         job[k].state # "RUNNING"
  PROVE  job'[k] = job[k] /\ finding'[k] = finding[k]
  <1> USE DEF SetRunning
  <1>1. CASE DropCanceled(r)
    BY <1>1 DEF DropCanceled
  <1>2. ASSUME NEW keys \in SUBSET FindingKey,
               \/ CompleteBatch(r, keys)
               \/ StrandJob(r, keys)
               \/ \E n \in 1..Items : CheckpointBatch(r, n, keys)
               \/ \E retryable \in BOOLEAN : FailBatch(r, retryable, keys)
        PROVE  job'[k] = job[k] /\ finding'[k] = finding[k]
    <2>1. /\ InFlight(r) /\ job[runner[r].job].state # "CANCELED"
          /\ finding' = Upsert(runner[r].job, keys)
      BY <1>2 DEF CompleteBatch, CheckpointBatch, FailBatch, StrandJob
    <2>2. runner[r].job \in JobId /\ runner[r].job # k
      BY <2>1, AnswerFindsRunning
    <2>3. finding'[k] = finding[k]
      BY <2>1, <2>2, UpsertOthers DEF IInv, TypeOK
    <2>4. job'[k] = job[k]
      BY <1>2, <2>2 DEF CompleteBatch, CheckpointBatch, FailBatch, StrandJob, IInv, TypeOK
    <2> QED BY <2>3, <2>4
  <1> QED BY <1>1, <1>2 DEF FinishBatch

\* No step, of whatever runner, writes to a terminal job.
LEMMA TerminalStep ==
  ASSUME IInv, [Next]_vars, NEW k \in JobId, job[k].state \in TerminalState
  PROVE  job'[k] = job[k] /\ finding'[k] = finding[k]
  <1>0. job[k].state \notin {"ABSENT", "QUEUED", "RUNNING"}
    BY DEF TerminalState
  <1>1. ASSUME NEW s \in Scope, Enqueue(s)
        PROVE  job'[k] = job[k] /\ finding'[k] = finding[k]
    BY <1>0, <1>1 DEF Enqueue, IInv, TypeOK
  <1>2. ASSUME NEW j \in JobId, Cancel(j)
        PROVE  job'[k] = job[k] /\ finding'[k] = finding[k]
    BY <1>0, <1>2 DEF Cancel, ActiveState, IInv, TypeOK
  <1>3. ASSUME NEW r \in Runner, ClaimNext(r)
        PROVE  job'[k] = job[k] /\ finding'[k] = finding[k]
    BY <1>0, <1>3 DEF ClaimNext, Oldest, Queued, IInv, TypeOK
  <1>4. ASSUME NEW r \in Runner, FinishBatch(r)
        PROVE  job'[k] = job[k] /\ finding'[k] = finding[k]
    BY <1>0, <1>4, AnswerWritesOneRow
  <1>5. CASE Crash
    <2>1. job' = job
      BY <1>5 DEF Crash
    <2>2. ASSUME NEW r \in Runner, NEW keys \in SUBSET FindingKey, InFlight(r),
                 job[runner[r].job].state # "CANCELED",
                 finding' = Upsert(runner[r].job, keys)
          PROVE  finding'[k] = finding[k]
      <3>1. runner[r].job \in JobId /\ runner[r].job # k
        BY <1>0, <2>2, AnswerFindsRunning
      <3> QED BY <2>2, <3>1, UpsertOthers DEF IInv, TypeOK
    <2>3. finding'[k] = finding[k]
      BY <1>5, <2>2 DEF Crash
    <2> QED BY <2>1, <2>3
  <1>6. CASE Restart
    BY <1>0, <1>6 DEF Restart
  <1>7. CASE UNCHANGED vars
    BY <1>7 DEF vars
  <1> QED BY <1>1, <1>2, <1>3, <1>4, <1>5, <1>6, <1>7 DEF Next

\* No late answer, retry, crash or recovery changes a terminal job.
THEOREM TerminalJobsAreFrozen == Spec => TerminalIsFrozen
  <1>1. IInv /\ [Next]_vars =>
          [\A j \in JobId : job[j].state \in TerminalState =>
             job'[j] = job[j] /\ finding'[j] = finding[j]]_vars
    BY TerminalStep
  <1> QED BY <1>1, Invariance, PTL DEF Spec, TerminalIsFrozen

-----------------------------------------------------------------------------
(***************************************************************************)
(* The claim bound.  A job that will be claimed again (queued, or left     *)
(* RUNNING by a dead process) still has a claim to spend, and a runner     *)
(* remembers the attempt count of the row it holds, so that the ceiling it *)
(* compares is not stale.                                                  *)
(***************************************************************************)
Budget(j) == MaxAttempts + crashes + job[j].checkpoint

WillBeClaimed(j) ==
  job[j].state = "QUEUED" \/ (job[j].state = "RUNNING" /\ ~up)

BudgetInv ==
  /\ ClaimsAreBounded
  /\ \A j \in JobId : WillBeClaimed(j) => job[j].attempts < Budget(j)
  /\ \A r \in Runner :
       (runner[r].job # NoJob /\ job[runner[r].job].state = "RUNNING")
         => runner[r].attempts = job[runner[r].job].attempts

\* Every step keeps the account of the claims.
LEMMA BudgetStep == ASSUME IInv, BudgetInv, [Next]_vars PROVE BudgetInv'
  <1> USE DEF BudgetInv, ClaimsAreBounded, WillBeClaimed, Budget
  <1>0. /\ \A j \in JobId : job[j].attempts \in Nat /\ job[j].checkpoint \in Nat
        /\ crashes \in Nat /\ MaxAttempts \in Nat \ {0} /\ NoJob \notin JobId
        /\ job \in [JobId -> Job] /\ runner \in [Runner -> Claim]
    BY ConstantsAssumption DEF IInv, TypeOK, Job
  <1>1. ASSUME NEW s \in Scope, Enqueue(s) PROVE BudgetInv'
    <2> PICK j \in JobId, t \in {clock, clock + 1} :
           /\ job[j].state = "ABSENT"
           /\ job' = [job EXCEPT ![j] =
                        [scope |-> s, state |-> "QUEUED", checkpoint |-> 0,
                         attempts |-> 0, processed |-> 0, createdAt |-> t]]
      BY <1>1 DEF Enqueue
    <2>1. UNCHANGED <<runner, up, crashes>>
      BY <1>1 DEF Enqueue
    <2>2. \A r \in Runner : runner[r].job # j
      BY <1>0 DEF IInv, HoldsItsClaim
    <2> QED BY <1>0, <2>1, <2>2 DEF Claim
  <1>2. ASSUME NEW j \in JobId, Cancel(j) PROVE BudgetInv'
    BY <1>0, <1>2 DEF Cancel, Claim
  <1>3. ASSUME NEW r \in Runner, ClaimNext(r) PROVE BudgetInv'
    <2> PICK j \in JobId :
           /\ job[j].state = "QUEUED"
           /\ job' = [job EXCEPT ![j].state = "RUNNING", ![j].attempts = @ + 1]
           /\ runner' = [runner EXCEPT ![r] =
                           [job |-> j, checkpoint |-> job[j].checkpoint,
                            attempts |-> job[j].attempts + 1]]
      BY <1>3 DEF ClaimNext, Oldest, Queued
    <2>1. up /\ UNCHANGED <<up, crashes>>
      BY <1>3 DEF ClaimNext
    <2>2. \A q \in Runner : runner[q].job # j
      BY <1>0 DEF IInv, HoldsItsClaim
    <2>3. /\ job'[j].attempts = job[j].attempts + 1 /\ job'[j].state = "RUNNING"
          /\ job'[j].checkpoint = job[j].checkpoint
          /\ \A k \in JobId \ {j} : job'[k] = job[k]
      BY <1>0 DEF Job
    <2>4. job[j].attempts < MaxAttempts + crashes + job[j].checkpoint
      OBVIOUS
    <2>5. job'[j].attempts <= MaxAttempts + crashes + job'[j].checkpoint
      BY <1>0, <2>3, <2>4
    <2>6. \A q \in Runner : runner'[q].job # NoJob => runner'[q].job \in JobId
      BY <1>0 DEF Claim
    <2>7. \A q \in Runner \ {r} : runner'[q] = runner[q]
      OBVIOUS
    <2>8. runner'[r].job = j /\ runner'[r].attempts = job[j].attempts + 1
      BY <1>0
    <2> QED BY <1>0, <2>1, <2>2, <2>3, <2>5, <2>6, <2>7, <2>8
  <1>4. ASSUME NEW r \in Runner, FinishBatch(r) PROVE BudgetInv'
    <2> DEFINE j == runner[r].job
    <2>0. /\ UNCHANGED <<up, crashes>> /\ runner' = [runner EXCEPT ![r] = Idle]
          /\ InFlight(r)
      BY <1>4 DEF FinishBatch, DropCanceled, CompleteBatch, CheckpointBatch,
                 FailBatch, StrandJob, Return
    <2>1. CASE job' = job
      BY <1>0, <2>0, <2>1 DEF Idle, Claim
    <2>2. CASE job' # job
      <3>1. job[j].state # "CANCELED"
        BY <1>4, <2>2 DEF FinishBatch, DropCanceled, CompleteBatch, CheckpointBatch,
                         FailBatch, StrandJob
      <3>2. /\ j \in JobId /\ job[j] \in Job /\ job[j].state = "RUNNING"
            /\ runner[r].checkpoint = job[j].checkpoint
            /\ runner[r].attempts = job[j].attempts
        BY <2>0, <3>1, AnswerFindsRunning DEF InFlight
      <3>3. \E row : /\ job' = [job EXCEPT ![j] = row]
                     /\ row.attempts = job[j].attempts
                     /\ row.checkpoint \in Nat
                     /\ row.checkpoint >= job[j].checkpoint
                     /\ row.state # "RUNNING"
                     /\ row.state = "QUEUED" =>
                          row.attempts < MaxAttempts + crashes + row.checkpoint
        <4>1. ASSUME NEW keys, CompleteBatch(r, keys)
              PROVE  job' = [job EXCEPT ![j] =
                               [job[j] EXCEPT !.state = "COMPLETED",
                                  !.processed = @ + (Items - runner[r].checkpoint)]]
          BY <3>2, <4>1 DEF CompleteBatch, SetRunning
        <4>2. ASSUME NEW keys, NEW n \in 1..Items, CheckpointBatch(r, n, keys)
              PROVE  job' = [job EXCEPT ![j] =
                               [job[j] EXCEPT !.state = "QUEUED", !.processed = @ + n,
                                  !.checkpoint = runner[r].checkpoint + n]]
          BY <3>2, <4>2 DEF CheckpointBatch, SetRunning
        <4>3. ASSUME NEW keys, NEW retryable, FailBatch(r, retryable, keys)
              PROVE  \/ /\ job' = [job EXCEPT ![j] =
                                    [job[j] EXCEPT !.state = "QUEUED",
                                       !.checkpoint = runner[r].checkpoint]]
                        /\ runner[r].attempts < MaxAttempts
                     \/ job' = [job EXCEPT ![j] = [job[j] EXCEPT !.state = "FAILED"]]
          BY <3>2, <4>3 DEF FailBatch, SetRunning
        <4>4. \/ \E keys : CompleteBatch(r, keys)
              \/ \E keys : \E n \in 1..Items : CheckpointBatch(r, n, keys)
              \/ \E keys, retryable : FailBatch(r, retryable, keys)
          BY <1>4, <2>2 DEF FinishBatch, DropCanceled, StrandJob
        <4>5. /\ job[j].attempts \in Nat /\ job[j].checkpoint \in Nat
              /\ job[j].attempts <= MaxAttempts + crashes + job[j].checkpoint
          BY <1>0, <3>2
        <4>6. CASE \E keys : CompleteBatch(r, keys)
          <5> DEFINE row == [job[j] EXCEPT !.state = "COMPLETED",
                               !.processed = @ + (Items - runner[r].checkpoint)]
          <5>1. job' = [job EXCEPT ![j] = row]
            BY <4>1, <4>6
          <5>2. row.attempts = job[j].attempts /\ row.state = "COMPLETED"
                /\ row.checkpoint = job[j].checkpoint
            BY <3>2 DEF Job
          <5> HIDE DEF row
          <5>3. /\ row.checkpoint \in Nat /\ row.checkpoint >= job[j].checkpoint
                /\ row.state # "RUNNING" /\ row.state # "QUEUED"
            BY <4>5, <5>2
          <5> QED BY <5>1, <5>2, <5>3
        <4>7. CASE \E keys : \E n \in 1..Items : CheckpointBatch(r, n, keys)
          <5> PICK keys : \E n \in 1..Items : CheckpointBatch(r, n, keys)
            BY <4>7
          <5> PICK n \in 1..Items : CheckpointBatch(r, n, keys)
            OBVIOUS
          <5> DEFINE row == [job[j] EXCEPT !.state = "QUEUED", !.processed = @ + n,
                                           !.checkpoint = runner[r].checkpoint + n]
          <5>1. job' = [job EXCEPT ![j] = row]
            BY <4>2
          <5>2. row.attempts = job[j].attempts /\ row.state = "QUEUED"
                /\ row.checkpoint = job[j].checkpoint + n
            BY <3>2 DEF Job
          <5>3. n \in Nat /\ n >= 1
            BY ConstantsAssumption
          <5> HIDE DEF row
          <5>4. row.checkpoint \in Nat /\ row.checkpoint >= job[j].checkpoint
                /\ row.attempts < MaxAttempts + crashes + row.checkpoint
            BY <1>0, <4>5, <5>2, <5>3
          <5> QED BY <5>1, <5>2, <5>4
        <4>8. CASE \E keys, retryable : FailBatch(r, retryable, keys)
          <5> DEFINE again == [job[j] EXCEPT !.state = "QUEUED",
                                             !.checkpoint = runner[r].checkpoint]
                     done  == [job[j] EXCEPT !.state = "FAILED"]
          <5>1. \/ job' = [job EXCEPT ![j] = again] /\ runner[r].attempts < MaxAttempts
                \/ job' = [job EXCEPT ![j] = done]
            BY <4>3, <4>8
          <5>2. /\ again.attempts = job[j].attempts /\ again.state = "QUEUED"
                /\ again.checkpoint = job[j].checkpoint
                /\ done.attempts = job[j].attempts /\ done.state = "FAILED"
                /\ done.checkpoint = job[j].checkpoint
            BY <3>2 DEF Job
          <5> HIDE DEF again, done
          <5>3. runner[r].attempts < MaxAttempts =>
                  again.attempts < MaxAttempts + crashes + again.checkpoint
            BY <1>0, <3>2, <4>5, <5>2
          <5> QED BY <4>5, <5>1, <5>2, <5>3
        <4> QED BY <4>4, <4>6, <4>7, <4>8
      <3> PICK row : /\ job' = [job EXCEPT ![j] = row]
                     /\ row.attempts = job[j].attempts
                     /\ row.checkpoint \in Nat
                     /\ row.checkpoint >= job[j].checkpoint
                     /\ row.state # "RUNNING"
                     /\ row.state = "QUEUED" =>
                          row.attempts < MaxAttempts + crashes + row.checkpoint
        BY <3>3
      <3>4. job'[j] = row /\ \A k \in JobId \ {j} : job'[k] = job[k]
        BY <1>0, <3>2
      <3>5. row.attempts <= MaxAttempts + crashes + row.checkpoint
        BY <1>0, <3>2
      <3>6. runner'[r] = Idle /\ \A q \in Runner \ {r} : runner'[q] = runner[q]
        BY <1>0, <2>0
      <3>7. \A q \in Runner : runner[q].job # NoJob => runner[q].job \in JobId
        BY <1>0 DEF Claim
      <3>8. /\ ClaimsAreBounded'
            /\ \A k \in JobId : WillBeClaimed(k)' => job'[k].attempts < Budget(k)'
        BY <2>0, <3>2, <3>4, <3>5
      <3>9. \A q \in Runner :
              (runner'[q].job # NoJob /\ job'[runner'[q].job].state = "RUNNING")
                => runner'[q].attempts = job'[runner'[q].job].attempts
        BY <3>2, <3>4, <3>6, <3>7 DEF Idle
      <3> QED BY <3>8, <3>9
    <2> QED BY <2>1, <2>2
  <1>5. CASE Crash
    <2>1. /\ up /\ ~up' /\ UNCHANGED job /\ crashes' = crashes + 1
          /\ \A r \in Runner : runner'[r] = Idle
      BY <1>5 DEF Crash
    <2> QED BY <1>0, <2>1 DEF Idle
  <1>6. CASE Restart
    <2>1. ~up /\ up' /\ UNCHANGED <<runner, crashes>>
      BY <1>6 DEF Restart
    <2>2. \A r \in Runner : runner[r].job = NoJob
      BY <2>1 DEF IInv, HoldsItsClaim
    <2>3. \A j \in JobId : /\ job'[j].attempts = job[j].attempts
                            /\ job'[j].checkpoint = job[j].checkpoint
                            /\ job'[j].state = IF job[j].state = "RUNNING"
                                               THEN "QUEUED" ELSE job[j].state
      BY <1>0, <1>6 DEF Restart, Job
    <2> QED BY <1>0, <2>1, <2>2, <2>3
  <1>7. CASE UNCHANGED vars
    BY <1>7 DEF vars
  <1> QED BY <1>1, <1>2, <1>3, <1>4, <1>5, <1>6, <1>7 DEF Next

\* A poison job, or a process that keeps dying, cannot keep a worker busy for ever.
THEOREM BoundedClaims == Spec => []ClaimsAreBounded
  <1>1. Init => BudgetInv
    BY ConstantsAssumption DEF Init, BudgetInv, ClaimsAreBounded, WillBeClaimed,
                               Budget, Idle
  <1>2. BudgetInv => ClaimsAreBounded
    BY DEF BudgetInv
  <1> QED BY <1>1, <1>2, Invariance, BudgetStep, PTL DEF Spec

-----------------------------------------------------------------------------
(***************************************************************************)
(* The refinement.  The ledger entry of a job is a function of its row, so *)
(* a step that writes one row is a ledger step of that job, and a step     *)
(* that writes none, or only RUNNING/QUEUED, checkpoint or attempts, is a  *)
(* stutter.                                                                *)
(***************************************************************************)
EntryOf(row) == [scope |-> row.scope, outcome |-> Outcome(row.state),
                 progress |-> row.processed]

View == [j \in JobId |-> EntryOf(job[j])]

LedgerStep ==
  \/ View' = View
  \/ \E j \in JobId :
       \/ \E s \in Scope : /\ View[j].outcome = "none"
                           /\ {k \in JobId : View[k].scope = s
                                            /\ View[k].outcome = "open"} = {}
                           /\ View' = [View EXCEPT ![j] =
                                        [scope |-> s, outcome |-> "open",
                                         progress |-> 0]]
       \/ \E n \in 1..Items : /\ View[j].outcome = "open"
                             /\ View[j].progress + n <= Items
                             /\ View' = [View EXCEPT ![j].progress = @ + n]
       \/ /\ View[j].outcome = "open"
          /\ View' = [View EXCEPT ![j] = [scope |-> View[j].scope,
                                          outcome |-> "COMPLETED",
                                          progress |-> Items]]
       \/ /\ View[j].outcome = "open"
          /\ \E o \in {"FAILED", "CANCELED"} :
               View' = [View EXCEPT ![j].outcome = o]

\* What a step shows of the rows is a step or a stutter of the ledger.
LEMMA LedgerStepIsNext == LedgerStep => [Ledger!Next]_(View)
  BY DEF LedgerStep, View, EntryOf, Ledger!Next, Ledger!Open, Ledger!Advance,
         Ledger!Complete, Ledger!Abandon, Ledger!OpenJobs

\* A step that rewrites no scope, outcome or count is invisible.
LEMMA Invisible ==
  ASSUME \A j \in JobId : /\ job'[j].scope = job[j].scope
                          /\ Outcome(job'[j].state) = Outcome(job[j].state)
                          /\ job'[j].processed = job[j].processed
  PROVE  LedgerStep
  BY DEF LedgerStep, View, EntryOf

\* A step that writes one row changes one entry.
LEMMA OneEntry ==
  ASSUME NEW j \in JobId, NEW row, job \in [JobId -> Job],
         job' = [job EXCEPT ![j] = row]
  PROVE  View' = [View EXCEPT ![j] = EntryOf(row)]
  BY DEF View

\* What the ledger makes of each state of a job.
LEMMA OutcomeValues ==
  /\ Outcome("ABSENT") = "none" /\ Outcome("QUEUED") = "open"
  /\ Outcome("RUNNING") = "open" /\ Outcome("COMPLETED") = "COMPLETED"
  /\ Outcome("FAILED") = "FAILED" /\ Outcome("CANCELED") = "CANCELED"
  BY DEF Outcome, ActiveState

\* Every step of the queue is one the ledger allows.
LEMMA StepRefines == ASSUME IInv, [Next]_vars PROVE LedgerStep
  <1>0. job \in [JobId -> Job] /\ runner \in [Runner -> Claim]
    BY DEF IInv, TypeOK
  <1>1. ASSUME NEW s \in Scope, Enqueue(s) PROVE LedgerStep
    <2> PICK j \in JobId, t \in {clock, clock + 1} :
           /\ job[j].state = "ABSENT"
           /\ job' = [job EXCEPT ![j] =
                        [scope |-> s, state |-> "QUEUED", checkpoint |-> 0,
                         attempts |-> 0, processed |-> 0, createdAt |-> t]]
      BY <1>1 DEF Enqueue
    <2> DEFINE row == [scope |-> s, state |-> "QUEUED", checkpoint |-> 0,
                       attempts |-> 0, processed |-> 0, createdAt |-> t]
    <2>0. EntryOf(row) = [scope |-> s, outcome |-> "open", progress |-> 0]
      BY OutcomeValues DEF EntryOf
    <2>1. View' = [View EXCEPT ![j] = [scope |-> s, outcome |-> "open",
                                       progress |-> 0]]
      <3>1. job' = [job EXCEPT ![j] = row]
        OBVIOUS
      <3> HIDE DEF row
      <3> QED BY <1>0, <2>0, <3>1, OneEntry
    <2>2. View[j].outcome = "none"
      BY OutcomeValues DEF View, EntryOf
    <2>3. ASSUME NEW k \in JobId, View[k].scope = s, View[k].outcome = "open"
          PROVE  FALSE
      <3>1. job[k].scope = s /\ Outcome(job[k].state) = "open"
        BY <2>3 DEF View, EntryOf
      <3>2. job[k].state \in ActiveState
        BY <3>1, <1>0 DEF Outcome, Job, JobState, TerminalState
      <3> QED BY <1>1, <3>1, <3>2 DEF Enqueue, Active
    <2> QED BY <2>1, <2>2, <2>3 DEF LedgerStep
  <1>2. ASSUME NEW j \in JobId, Cancel(j) PROVE LedgerStep
    <2> DEFINE row == [job[j] EXCEPT !.state = "CANCELED"]
    <2>1. job' = [job EXCEPT ![j] = row] /\ job[j].state \in ActiveState
      BY <1>2 DEF Cancel
    <2>2. row.scope = job[j].scope /\ row.state = "CANCELED"
          /\ row.processed = job[j].processed
      BY <1>0 DEF Job
    <2> HIDE DEF row
    <2>3. View' = [View EXCEPT ![j] = EntryOf(row)]
      BY <1>0, <2>1, OneEntry
    <2>4. EntryOf(row) = [View[j] EXCEPT !.outcome = "CANCELED"]
      BY <2>2, OutcomeValues DEF View, EntryOf
    <2>5. View[j].outcome = "open"
      BY <2>1, OutcomeValues DEF View, EntryOf, ActiveState
    <2> QED BY <2>3, <2>4, <2>5 DEF LedgerStep
  <1>3. ASSUME NEW r \in Runner, ClaimNext(r) PROVE LedgerStep
    <2> PICK j \in JobId :
           /\ job[j].state = "QUEUED"
           /\ job' = [job EXCEPT ![j].state = "RUNNING", ![j].attempts = @ + 1]
      BY <1>3 DEF ClaimNext, Oldest, Queued
    <2> QED BY <1>0, OutcomeValues, Invisible DEF Job
  <1>4. ASSUME NEW r \in Runner, FinishBatch(r) PROVE LedgerStep
    <2> DEFINE j == runner[r].job
    <2>1. CASE job' = job
      BY <2>1, Invisible
    <2>2. CASE job' # job
      <3>1. InFlight(r) /\ job[j].state # "CANCELED"
        BY <1>4, <2>2 DEF FinishBatch, DropCanceled, CompleteBatch, CheckpointBatch,
                         FailBatch, StrandJob
      <3>2. /\ j \in JobId /\ job[j] \in Job /\ job[j].state = "RUNNING"
            /\ runner[r].checkpoint = job[j].checkpoint
            /\ job[j].processed = job[j].checkpoint /\ job[j].processed <= Items
        BY <3>1, AnswerFindsRunning
      <3>3. /\ View[j].outcome = "open" /\ View[j].progress = job[j].processed
            /\ View[j] = EntryOf(job[j]) /\ job[j].processed \in Nat
        BY <3>2, OutcomeValues DEF View, EntryOf, Job
      <3>4. ASSUME NEW keys, CompleteBatch(r, keys) PROVE LedgerStep
        <4> DEFINE row == [job[j] EXCEPT !.state = "COMPLETED",
                             !.processed = @ + (Items - runner[r].checkpoint)]
        <4>1. job' = [job EXCEPT ![j] = row]
          BY <3>2, <3>4 DEF CompleteBatch, SetRunning
        <4>2. row.scope = job[j].scope /\ row.state = "COMPLETED"
              /\ row.processed = job[j].processed + (Items - job[j].processed)
          BY <3>2 DEF Job
        <4>3. row.processed = Items
          BY <3>3, <4>2, ConstantsAssumption
        <4> HIDE DEF row
        <4>4. EntryOf(row) = [scope |-> View[j].scope, outcome |-> "COMPLETED",
                              progress |-> Items]
          BY <3>3, <4>2, <4>3, OutcomeValues DEF EntryOf
        <4>5. View' = [View EXCEPT ![j] = [scope |-> View[j].scope,
                                           outcome |-> "COMPLETED",
                                           progress |-> Items]]
          BY <1>0, <3>2, <4>1, <4>4, OneEntry
        <4> QED BY <3>2, <3>3, <4>5 DEF LedgerStep
      <3>5. ASSUME NEW keys, NEW n \in 1..Items, CheckpointBatch(r, n, keys)
            PROVE  LedgerStep
        <4> DEFINE row == [job[j] EXCEPT !.state = "QUEUED", !.processed = @ + n,
                                         !.checkpoint = runner[r].checkpoint + n]
        <4>1. job' = [job EXCEPT ![j] = row]
          BY <3>2, <3>5 DEF CheckpointBatch, SetRunning
        <4>2. row.scope = job[j].scope /\ row.state = "QUEUED"
              /\ row.processed = job[j].processed + n
          BY <3>2 DEF Job
        <4> HIDE DEF row
        <4>3. EntryOf(row) = [View[j] EXCEPT !.progress = job[j].processed + n]
          BY <3>2, <3>3, <4>2, OutcomeValues DEF EntryOf
        <4>4. View' = [View EXCEPT ![j].progress = View[j].progress + n]
          BY <1>0, <3>2, <3>3, <4>1, <4>3, OneEntry DEF View
        <4>5. View[j].progress + n <= Items
          BY <3>2, <3>3, <3>5, ConstantsAssumption DEF CheckpointBatch
        <4> QED BY <3>2, <3>3, <3>5, <4>4, <4>5 DEF LedgerStep
      <3>6. ASSUME NEW keys, NEW retryable, FailBatch(r, retryable, keys)
            PROVE  LedgerStep
        <4> DEFINE again == [job[j] EXCEPT !.state = "QUEUED",
                                           !.checkpoint = runner[r].checkpoint]
                   done  == [job[j] EXCEPT !.state = "FAILED"]
        <4>1. \/ job' = [job EXCEPT ![j] = again]
              \/ job' = [job EXCEPT ![j] = done]
          BY <3>2, <3>6 DEF FailBatch, SetRunning
        <4>2. /\ again.scope = job[j].scope /\ again.state = "QUEUED"
              /\ again.processed = job[j].processed
              /\ done.scope = job[j].scope /\ done.state = "FAILED"
              /\ done.processed = job[j].processed
          BY <3>2 DEF Job
        <4> HIDE DEF again, done
        <4>3. CASE job' = [job EXCEPT ![j] = again]
          <5>1. EntryOf(again) = View[j]
            BY <3>2, <3>3, <4>2, OutcomeValues DEF EntryOf
          <5>2. View' = View
            BY <1>0, <3>2, <4>3, <5>1, OneEntry DEF View
          <5> QED BY <5>2 DEF LedgerStep
        <4>4. CASE job' = [job EXCEPT ![j] = done]
          <5>1. EntryOf(done) = [View[j] EXCEPT !.outcome = "FAILED"]
            BY <3>2, <3>3, <4>2, OutcomeValues DEF EntryOf
          <5>2. View' = [View EXCEPT ![j].outcome = "FAILED"]
            BY <1>0, <3>2, <4>4, <5>1, OneEntry DEF View
          <5> QED BY <3>2, <3>3, <5>2 DEF LedgerStep
        <4> QED BY <4>1, <4>3, <4>4
      <3> QED BY <1>4, <2>2, <3>4, <3>5, <3>6 DEF FinishBatch, DropCanceled, StrandJob
    <2> QED BY <2>1, <2>2
  <1>5. CASE Crash
    BY <1>5, Invisible DEF Crash
  <1>6. CASE Restart
    <2>1. \A j \in JobId : /\ job'[j].scope = job[j].scope
                            /\ job'[j].processed = job[j].processed
                            /\ job'[j].state = IF job[j].state = "RUNNING"
                                               THEN "QUEUED" ELSE job[j].state
      BY <1>0, <1>6 DEF Restart, Job
    <2> QED BY <2>1, OutcomeValues, Invisible
  <1>7. CASE UNCHANGED vars
    BY <1>7, Invisible DEF vars
  <1> QED BY <1>1, <1>2, <1>3, <1>4, <1>5, <1>6, <1>7 DEF Next

(***************************************************************************)
(* The durable queue with any number of runners, crashes and restarts      *)
(* implements the ledger.                                                  *)
(***************************************************************************)
THEOREM QueueImplementsLedger == Spec => ImplementsLedger
  <1>1. Init => Ledger!Init
    BY ConstantsAssumption, OutcomeValues DEF Init, Ledger!Init, Ledger!Entry
  <1>2. IInv /\ [Next]_vars => [Ledger!Next]_(View)
    BY StepRefines, LedgerStepIsNext
  <1>3. View = [j \in JobId |-> [scope |-> job[j].scope,
                                 outcome |-> Outcome(job[j].state),
                                 progress |-> job[j].processed]]
    BY DEF View, EntryOf
  <1> QED BY <1>1, <1>2, Invariance, PTL
          DEF Spec, ImplementsLedger, Ledger!Spec, View, EntryOf

=============================================================================
