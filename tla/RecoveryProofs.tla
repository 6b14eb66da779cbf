--------------------------- MODULE RecoveryProofs ---------------------------
(***************************************************************************)
(* Proofs about CompatibilityRecovery, for any number of executions,       *)
(* jobs, runners, faults and crashes.  The queue of the composition is the *)
(* queue of Reconciliation, so what is proved of that one holds of it.     *)
(* The coordinator is not the one of CompatibilityWrite: its job is closed *)
(* by the queue and its legacy store is written by the worker.  But it     *)
(* takes that coordinator's steps if `job' says whether a job was ever     *)
(* made, and a repair finds a job that some execution had to report.       *)
(***************************************************************************)
EXTENDS CompatibilityRecovery, ReconciliationProofs

\* The jobs that were made, and what the coordinator's proofs take for its job.
Made  == {j \in JobId : job[j].state # "ABSENT"}
Asked == IF Made = {} THEN "none" ELSE "open"

W == INSTANCE CompatibilityWriteProofs WITH job <- Asked, serial <- FALSE

-----------------------------------------------------------------------------
\* A step of the composition is a step or a stutter of the queue.
LEMMA StepOfQueue == [NextRecovery]_allVars => [Next]_vars
<1>1. ASSUME NEW w \in Writer, WriteStep(w) PROVE [Next]_vars
  BY <1>1, RecoveryAssumption DEF WriteStep, Next, vars, queueVars
<1>2. ASSUME NEW r \in Runner, QueueStep(r) \/ WorkerReads(r) \/ WorkerRepairs(r)
      PROVE  [Next]_vars
  BY <1>2 DEF QueueStep, WorkerReads, WorkerRepairs, Next
<1>3. ASSUME NEW r \in Runner, WorkerAnswers(r) PROVE [Next]_vars
  BY <1>3 DEF WorkerAnswers, Next, FinishBatch
<1>4. ASSUME NEW j \in JobId, CancelJob(j) PROVE [Next]_vars
  BY <1>4 DEF CancelJob, Next
<1>5. CASE Die \/ StartAgain
  BY <1>5 DEF Die, StartAgain, Next
<1>6. CASE UNCHANGED allVars
  BY <1>6 DEF allVars
<1> QED
  BY <1>1, <1>2, <1>3, <1>4, <1>5, <1>6 DEF NextRecovery

\* The queue of the composition is the queue, whatever the coordinator and the worker do.
THEOREM RecoveryIsQueue == SpecRecovery => Spec
  BY StepOfQueue, PTL DEF SpecRecovery, InitRecovery, Spec

\* So its scopes, counts, runners and terminal jobs are sound, and it implements the ledger.
THEOREM QueueCarriesOver ==
  SpecRecovery => /\ [](OneActivePerScope /\ CountsEachItemOnce /\ RunningHasOneRunner)
                  /\ []ClaimsAreBounded
                  /\ TerminalIsFrozen
                  /\ ImplementsLedger
  BY RecoveryIsQueue, SingleActiveJob, ExactlyOnceCounting, ExclusiveRunning, BoundedClaims,
    TerminalJobsAreFrozen, QueueImplementsLedger, PTL

-----------------------------------------------------------------------------
\* The coordinator's records and moves do not depend on what is taken for its job.
LEMMA SameMoves ==
  /\ Write!NoRow = W!NoRow
  /\ \A r, s : Write!NextRecord(r, s) = W!NextRecord(r, s)
  /\ \A r : Write!Matches(r) <=> W!Matches(r)
  /\ Write!CanFail <=> W!CanFail
  /\ \A w, pc : Write!At(w, pc) <=> W!At(w, pc)
  /\ \A w, pc, base, commit : Write!Goto(w, pc, base, commit) <=> W!Goto(w, pc, base, commit)
  /\ \A w, s : Write!Answer(w, s) <=> W!Answer(w, s)
  /\ Write!InFlight = W!InFlight
  BY DEF Write!NoRow, W!NoRow, Write!NextRecord, W!NextRecord, Write!Matches, W!Matches,
    Write!CanFail, W!CanFail, Write!At, W!At, Write!Goto, W!Goto, Write!Answer, W!Answer,
    Write!InFlight, W!InFlight

\* So does a record that is persisted.
LEMMA SamePersist == ASSUME NEW p, NEW r, NEW ok
  PROVE  Write!Persist(p, r, ok) => W!Persist(p, r, ok)
  BY SameMoves DEF Write!Persist, W!Persist

\* The record of a failed projection is the same.
LEMMA SameDegraded == ASSUME NEW w PROVE Write!Degraded(w) = W!Degraded(w)
  BY SameMoves DEF Write!Degraded, W!Degraded

\* As many executions are in flight.
LEMMA SameCount == Write!Cardinality(Write!InFlight) = W!Cardinality(W!InFlight)
  BY SameMoves DEF Write!Cardinality, W!Cardinality

\* A step of the coordinator, if what it does to its job does that to Asked.
LEMMA SameWriterStep ==
  ASSUME NEW w \in Writer, Write!WriterStep(w),
         Port' = Port => Asked' = Asked, Port' = "open" => Asked' = "open"
  PROVE  W!WriterStep(w)
<1>1. Write!Begin(w) => W!Begin(w)
  BY SameMoves, SamePersist, SameCount DEF Write!Begin, W!Begin
<1>2. Write!Commit(w) => W!Commit(w)
  BY SameMoves DEF Write!Commit, W!Commit
<1>3. Write!CommitFails(w) => W!CommitFails(w)
  BY SameMoves, SamePersist DEF Write!CommitFails, W!CommitFails
<1>4. Write!Project(w) => W!Project(w)
  BY SameMoves DEF Write!Project, W!Project
<1>5. ASSUME NEW failed, NEW e
      PROVE  Write!Enqueue(failed, e) => W!Enqueue(failed, e)
  BY DEF Write!Enqueue, W!Enqueue
<1>6. Write!PersistCurrent(w) => W!PersistCurrent(w)
  BY <1>5, SameMoves DEF Write!PersistCurrent, W!PersistCurrent
<1>7. Write!ProjectFails(w) => W!ProjectFails(w)
  BY <1>5, SameMoves, SameDegraded DEF Write!ProjectFails, W!ProjectFails
<1>8. Write!Link(w) => W!Link(w)
  BY SameMoves, SamePersist DEF Write!Link, W!Link
<1> QED
  BY <1>1, <1>2, <1>3, <1>4, <1>6, <1>7, <1>8 DEF Write!WriterStep, W!WriterStep

-----------------------------------------------------------------------------
(***************************************************************************)
(* The invariant: while the process lives, a job was made only if some     *)
(* execution is or will be answered DEGRADED, which it then is for good;   *)
(* so a repair, which may bring back an old version, is never the first to *)
(* make the stores differ.                                                 *)
(***************************************************************************)
AskedIsDoomed == crashes = 0 /\ Asked = "open" => W!SomeDoomed

WorkerInv == worker \in [Runner -> [pc : {"called", "compared", "repaired"}, seen : 0..canonical]]

RecoveryInv == IInv /\ W!IInv /\ AskedIsDoomed /\ WorkerInv

\* The bounds of the composition are bounds of the coordinator.
LEMMA Bounds == W!BoundsAssumption
  BY RecoveryAssumption, ConstantsAssumption DEF W!BoundsAssumption

\* No job was made and nothing is in flight: the invariant holds at first.
LEMMA InitRecoveryInv == InitRecovery => RecoveryInv
<1> SUFFICES ASSUME InitRecovery PROVE RecoveryInv
  OBVIOUS
<1>1. IInv
  BY InitEstablishes DEF InitRecovery
<1>2. Asked = "none" /\ crashes = 0
  BY DEF InitRecovery, Init, Asked, Made
<1>3. W!Init
  BY <1>2, SameMoves DEF InitRecovery, Write!Init, W!Init
<1>4. W!IInv
  BY <1>3, Bounds, W!InitIInv
<1>5. WorkerInv /\ AskedIsDoomed
  BY <1>2, <1>3 DEF InitRecovery, WorkerInv, Fresh, AskedIsDoomed, W!Init
<1> QED
  BY <1>1, <1>4, <1>5 DEF RecoveryInv

\* Every state a job can get into is one of a made job.
LEMMA MadeStay ==
  ASSUME IInv
  PROVE  /\ \A s \in Scope : Enqueue(s) => Made' # {}
         /\ \A r \in Runner : /\ ClaimNext(r) => Made' = Made
                              /\ FinishBatch(r) => Made' = Made
         /\ \A j \in JobId : Cancel(j) => Made' = Made
         /\ Crash \/ Restart => Made' = Made
<1>1. job \in [JobId -> Job] /\ runner \in [Runner -> Claim]
  BY DEF IInv, TypeOK
<1>2. ASSUME NEW j \in JobId, NEW e, SetRunning(j, e), e.state # "ABSENT"
      PROVE  Made' = Made
  BY <1>1, <1>2 DEF SetRunning, Made
<1>3. ASSUME NEW s \in Scope, Enqueue(s) PROVE Made' # {}
  BY <1>1, <1>3 DEF Enqueue, Made
<1>4. ASSUME NEW r \in Runner, ClaimNext(r) PROVE Made' = Made
  BY <1>1, <1>4 DEF ClaimNext, Oldest, Queued, Made, Job
<1>5. ASSUME NEW r \in Runner, FinishBatch(r) PROVE Made' = Made
  <2> DEFINE j == runner[r].job
  <2>1. CASE DropCanceled(r)
    BY <2>1 DEF DropCanceled, Made
  <2>2. ASSUME InFlight(r) PROVE j \in JobId /\ job[j] \in Job
    BY <1>1, <2>2 DEF InFlight, Claim
  <2>3. ASSUME NEW keys, CompleteBatch(r, keys) PROVE Made' = Made
    <3> DEFINE p == job[j].processed + (Items - runner[r].checkpoint)
    <3>1. j \in JobId /\ job[j] \in Job
      BY <2>2, <2>3 DEF CompleteBatch
    <3>2. SetRunning(j, [job[j] EXCEPT !.state = "COMPLETED", !.processed = p])
      BY <2>3 DEF CompleteBatch
    <3> HIDE DEF j, p
    <3>3. [job[j] EXCEPT !.state = "COMPLETED", !.processed = p].state = "COMPLETED"
      BY <3>1 DEF Job
    <3> QED
      BY <1>2, <3>1, <3>2, <3>3
  <2>4. ASSUME NEW n, NEW keys, CheckpointBatch(r, n, keys) PROVE Made' = Made
    <3> DEFINE p == job[j].processed + n
               c == runner[r].checkpoint + n
    <3>1. j \in JobId /\ job[j] \in Job
      BY <2>2, <2>4 DEF CheckpointBatch
    <3>2. SetRunning(j, [job[j] EXCEPT !.state = "QUEUED", !.processed = p, !.checkpoint = c])
      BY <2>4 DEF CheckpointBatch
    <3> HIDE DEF j, p, c
    <3>3. [job[j] EXCEPT !.state = "QUEUED", !.processed = p, !.checkpoint = c].state = "QUEUED"
      BY <3>1 DEF Job
    <3> QED
      BY <1>2, <3>1, <3>2, <3>3
  <2>5. ASSUME NEW retryable \in BOOLEAN, NEW keys, FailBatch(r, retryable, keys)
        PROVE  Made' = Made
    <3> DEFINE c == runner[r].checkpoint
    <3>1. j \in JobId /\ job[j] \in Job
      BY <2>2, <2>5 DEF FailBatch
    <3>2. \/ SetRunning(j, [job[j] EXCEPT !.state = "QUEUED", !.checkpoint = c])
          \/ SetRunning(j, [job[j] EXCEPT !.state = "FAILED"])
      BY <2>5 DEF FailBatch
    <3> HIDE DEF j, c
    <3>3. /\ [job[j] EXCEPT !.state = "QUEUED", !.checkpoint = c].state = "QUEUED"
          /\ [job[j] EXCEPT !.state = "FAILED"].state = "FAILED"
      BY <3>1 DEF Job
    <3> QED
      BY <1>2, <3>1, <3>2, <3>3
  <2>6. ASSUME NEW keys, StrandJob(r, keys) PROVE Made' = Made
    BY <2>6 DEF StrandJob, Made
  <2> QED
    BY <1>5, <2>1, <2>3, <2>4, <2>5, <2>6 DEF FinishBatch
<1>6. ASSUME NEW j \in JobId, Cancel(j) PROVE Made' = Made
  BY <1>1, <1>6 DEF Cancel, ActiveState, Made, Job
<1>7. ASSUME Crash PROVE Made' = Made
  BY <1>7 DEF Crash, Made
<1>8. ASSUME Restart PROVE Made' = Made
  BY <1>1, <1>8 DEF Restart, Made, Job
<1> QED
  BY <1>3, <1>4, <1>5, <1>6, <1>7, <1>8

\* What the coordinator's step does to its job is what it does to Asked.
LEMMA PortMoves ==
  ASSUME IInv, NEW w \in Writer, WriteStep(w)
  PROVE  /\ Port' = Port => Asked' = Asked
         /\ Port' = "open" => Asked' = "open"
<1>1. CASE Enqueue(Subject)
  <2>1. Asked' = "open"
    BY <1>1, MadeStay, RecoveryAssumption DEF Asked
  <2>2. Active(Subject) = {} /\ Active(Subject)' # {}
    BY <1>1 DEF Enqueue, Active, ActiveState, IInv, TypeOK, Job
  <2> QED
    BY <2>1, <2>2 DEF Port
<1>2. CASE UNCHANGED job
  <2>1. Active(Subject)' # {} => Made # {}
    BY <1>2 DEF Active, ActiveState, Made
  <2> QED
    BY <1>2, <2>1 DEF Asked, Made, Port
<1> QED
  BY <1>1, <1>2 DEF WriteStep, queueVars

\* A job in a runner's hands was made.
LEMMA ClaimIsMade ==
  ASSUME IInv, NEW r \in Runner, InFlight(r)
  PROVE  Asked = "open"
<1>1. runner[r].job \in JobId /\ job[runner[r].job].state \in {"RUNNING", "CANCELED"}
  BY DEF IInv, TypeOK, Claim, HoldsItsClaim, InFlight
<1> QED
  BY <1>1 DEF Asked, Made

-----------------------------------------------------------------------------
\* A step that leaves the coordinator alone, and makes no job.
LEMMA WriteRests ==
  ASSUME RecoveryInv, UNCHANGED <<writeVars, crashes>>, Made' = Made
  PROVE  W!IInv' /\ AskedIsDoomed'
<1>1. UNCHANGED W!vars
  BY DEF writeVars, Asked, W!vars
<1>2. W!IInv'
  BY <1>1, Bounds, W!NextIInv DEF RecoveryInv
<1>3. W!SomeDoomed' <=> W!SomeDoomed
  BY DEF writeVars, W!SomeDoomed, W!Doomed, W!At, W!Matches
<1>4. AskedIsDoomed'
  BY <1>3 DEF RecoveryInv, AskedIsDoomed, Asked
<1> QED
  BY <1>2, <1>4

\* A step of an execution: the job it makes is one of an execution that is doomed.
LEMMA WriteKeeps ==
  ASSUME RecoveryInv, NEW w \in Writer, WriteStep(w)
  PROVE  W!IInv' /\ AskedIsDoomed' /\ WorkerInv'
<1>1. Write!WriterStep(w) /\ worker' = worker
  BY DEF WriteStep
<1>2. W!WriterStep(w)
  BY <1>1, PortMoves, SameWriterStep DEF RecoveryInv
<1>3. W!IInv'
  BY <1>2, Bounds, W!NextIInv DEF RecoveryInv, W!Next
<1>4. (W!SomeDoomed => W!SomeDoomed') /\ (Asked' # Asked => W!SomeDoomed')
  BY <1>2, Bounds, W!DoomedForGood DEF RecoveryInv
<1>5. crashes' = crashes /\ canonical' \in {canonical, canonical + 1}
  BY <1>2 DEF W!WriterStep, W!Begin, W!Commit, W!CommitFails, W!Project, W!PersistCurrent,
    W!ProjectFails, W!Link
<1>6. AskedIsDoomed'
  BY <1>4, <1>5 DEF RecoveryInv, AskedIsDoomed
<1>7. canonical \in Nat
  BY DEF RecoveryInv, W!IInv, W!TypeOK
<1>8. 0..canonical \subseteq 0..canonical'
  BY <1>5, <1>7
<1>9. WorkerInv'
  BY <1>1, <1>8 DEF RecoveryInv, WorkerInv
<1> QED
  BY <1>3, <1>6, <1>9

\* A repair may bring back an old version, but some execution is doomed already.
LEMMA RepairKeeps ==
  ASSUME RecoveryInv, NEW r \in Runner, WorkerRepairs(r)
  PROVE  W!IInv' /\ AskedIsDoomed'
<1>1. /\ UNCHANGED <<row, canonical, writer, faults, job, crashes>>
      /\ legacy' = worker[r].seen /\ legacy' \in 0..canonical /\ Asked = "open"
  BY ClaimIsMade DEF WorkerRepairs, RecoveryInv, WorkerInv, vars
<1>2. Asked' = Asked
  BY <1>1 DEF Asked, Made
<1>3. W!SomeDoomed' <=> W!SomeDoomed
  BY <1>1 DEF W!SomeDoomed, W!Doomed, W!At, W!Matches
<1>4. AskedIsDoomed'
  BY <1>1, <1>2, <1>3 DEF RecoveryInv, AskedIsDoomed
<1>5. W!TypeOK' /\ W!AnswerInv' /\ W!VersionInv' /\ W!LinkInv'
  BY <1>1, <1>2 DEF RecoveryInv, W!IInv, W!TypeOK, W!AnswerInv, W!VersionInv, W!LinkInv,
    W!LinkedIsDegraded, W!At
<1>6. W!DoomInv'
  BY <1>1, <1>2, <1>4 DEF AskedIsDoomed, W!DoomInv
<1> QED
  BY <1>4, <1>5, <1>6 DEF W!IInv

\* A crash takes the executions in flight, and what their answers would have said.
LEMMA DieKeeps ==
  ASSUME RecoveryInv, Die
  PROVE  W!IInv' /\ AskedIsDoomed' /\ WorkerInv'
<1>1. Write!Crash /\ job' = job /\ worker' = [r \in Runner |-> Fresh]
  BY DEF Die, Crash
<1>2. Asked' = Asked
  BY <1>1 DEF Asked, Made
<1>3. W!Crash
  BY <1>1, <1>2, SameMoves, SameDegraded DEF Write!Crash, W!Crash
<1>4. W!IInv'
  BY <1>3, Bounds, W!NextIInv DEF RecoveryInv, W!Next
<1>5. crashes' # 0 /\ canonical' = canonical /\ canonical \in Nat
  BY <1>3 DEF RecoveryInv, W!IInv, W!TypeOK, W!Crash
<1>6. AskedIsDoomed' /\ WorkerInv'
  BY <1>1, <1>5 DEF AskedIsDoomed, WorkerInv, Fresh
<1> QED
  BY <1>4, <1>6

\* Every step of the composition keeps the invariant.
LEMMA NextRecoveryInv == ASSUME RecoveryInv, [NextRecovery]_allVars PROVE RecoveryInv'
<1>1. IInv'
  BY StepOfQueue, StepPreserves DEF RecoveryInv
<1>2. canonical \in Nat
  BY DEF RecoveryInv, W!IInv, W!TypeOK
<1>3. ASSUME NEW w \in Writer, WriteStep(w) PROVE RecoveryInv'
  BY <1>1, <1>3, WriteKeeps DEF RecoveryInv
<1>4. ASSUME NEW r \in Runner, QueueStep(r) PROVE RecoveryInv'
  <2>1. Made' = Made /\ UNCHANGED <<writeVars, crashes, worker>>
    BY <1>4, MadeStay DEF QueueStep, ClaimNext, RecoveryInv
  <2>2. WorkerInv'
    BY <2>1 DEF RecoveryInv, WorkerInv, writeVars
  <2> QED
    BY <1>1, <2>1, <2>2, WriteRests DEF RecoveryInv
<1>5. ASSUME NEW r \in Runner, WorkerReads(r) PROVE RecoveryInv'
  <2>1. Made' = Made /\ UNCHANGED <<writeVars, crashes>>
    BY <1>5 DEF WorkerReads, vars, Made
  <2>2. WorkerInv'
    BY <1>2, <1>5, <2>1 DEF WorkerReads, RecoveryInv, WorkerInv, writeVars
  <2> QED
    BY <1>1, <2>1, <2>2, WriteRests DEF RecoveryInv
<1>6. ASSUME NEW r \in Runner, WorkerRepairs(r) PROVE RecoveryInv'
  <2>1. WorkerInv'
    BY <1>6 DEF WorkerRepairs, RecoveryInv, WorkerInv
  <2> QED
    BY <1>1, <1>6, <2>1, RepairKeeps DEF RecoveryInv
<1>7. ASSUME NEW r \in Runner, WorkerAnswers(r) PROVE RecoveryInv'
  <2>1. FinishBatch(r)
    BY <1>7 DEF WorkerAnswers, FinishBatch
  <2>2. Made' = Made /\ UNCHANGED <<writeVars, crashes>>
    BY <1>7, <2>1, MadeStay DEF WorkerAnswers, RecoveryInv, FinishBatch, DropCanceled,
      CompleteBatch, CheckpointBatch, FailBatch, StrandJob
  <2>3. WorkerInv'
    BY <1>2, <1>7, <2>2 DEF WorkerAnswers, RecoveryInv, WorkerInv, writeVars, Fresh
  <2> QED
    BY <1>1, <2>2, <2>3, WriteRests DEF RecoveryInv
<1>8. ASSUME NEW j \in JobId, CancelJob(j) PROVE RecoveryInv'
  <2>1. Made' = Made /\ UNCHANGED <<writeVars, crashes, worker>>
    BY <1>8, MadeStay DEF CancelJob, Cancel, RecoveryInv
  <2>2. WorkerInv'
    BY <2>1 DEF RecoveryInv, WorkerInv, writeVars
  <2> QED
    BY <1>1, <2>1, <2>2, WriteRests DEF RecoveryInv
<1>9. CASE Die
  BY <1>1, <1>9, DieKeeps DEF RecoveryInv
<1>10. CASE StartAgain
  <2>1. Made' = Made /\ UNCHANGED <<writeVars, crashes, worker>>
    BY <1>10, MadeStay DEF StartAgain, Restart, RecoveryInv
  <2>2. WorkerInv'
    BY <2>1 DEF RecoveryInv, WorkerInv, writeVars
  <2> QED
    BY <1>1, <2>1, <2>2, WriteRests DEF RecoveryInv
<1>11. CASE UNCHANGED allVars
  <2>1. Made' = Made /\ UNCHANGED <<writeVars, crashes, worker>>
    BY <1>11 DEF allVars, vars, Made
  <2>2. WorkerInv'
    BY <2>1 DEF RecoveryInv, WorkerInv, writeVars
  <2> QED
    BY <1>1, <2>1, <2>2, WriteRests DEF RecoveryInv
<1> QED
  BY <1>3, <1>4, <1>5, <1>6, <1>7, <1>8, <1>9, <1>10, <1>11 DEF NextRecovery

\* The invariant holds throughout.
THEOREM RecoveryKeepsInv == SpecRecovery => []RecoveryInv
  BY InitRecoveryInv, NextRecoveryInv, PTL DEF SpecRecovery

\* A worker that overwrites a newer projection does not make a divergence silent:
\* when everything has settled, the process lives and the stores differ, somebody
\* was answered DEGRADED.
THEOREM RepairsAreNotSilent == SpecRecovery => []Write!NoSilentDivergence
<1>1. RecoveryInv => Write!NoSilentDivergence
  <2> SUFFICES ASSUME RecoveryInv, Write!Settled, canonical # legacy, crashes = 0
               PROVE  \E w \in Writer : writer[w].answer = "DEGRADED"
    BY DEF Write!NoSilentDivergence, Write!Diverged
  <2>1. \A w \in Writer : writer[w].pc \in {"ready", "returned", "lost"}
    BY DEF Write!Settled, Write!InFlight
  <2>2. PICK w \in Writer : W!Doomed(w)
    BY <2>1 DEF RecoveryInv, W!IInv, W!DoomInv, W!Fixes, W!At, W!SomeDoomed
  <2> QED
    BY <2>1, <2>2 DEF W!Doomed, W!At
<1> QED
  BY <1>1, RecoveryKeepsInv, PTL

\* With working storage as well, a job was made for the scope, which is still
\* there: OPEN, or ended.
THEOREM DivergencesWereRequested ==
  SpecRecovery => [](Write!Diverged /\ crashes = 0 /\ faults = 0 => Made # {})
<1>1. RecoveryInv /\ Write!NoSilentDivergence =>
        (Write!Diverged /\ crashes = 0 /\ faults = 0 => Made # {})
  BY DEF RecoveryInv, W!IInv, W!AnswerInv, Asked, Write!NoSilentDivergence
<1> QED
  BY <1>1, RecoveryKeepsInv, RepairsAreNotSilent, PTL
=============================================================================
