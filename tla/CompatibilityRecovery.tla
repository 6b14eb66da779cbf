------------------------ MODULE CompatibilityRecovery -----------------------
(***************************************************************************)
(* The write coordinator, the reconciliation queue and a worker together:  *)
(* the coordinator enqueues into the queue of Reconciliation, the runner   *)
(* of Reconciliation claims the job, and the worker it awaits repairs the  *)
(* legacy representation from the canonical one, as reconciliation-policy  *)
(* allows it to ("repair a derived legacy representation from canonical    *)
(* state").                                                                *)
(*                                                                         *)
(* The repository has no concrete worker yet.  The one here does the least *)
(* a repair needs: it reads the canonical version, then writes it.         *)
(***************************************************************************)
EXTENDS Reconciliation

CONSTANTS Subject, Writer, MaxInFlight, MaxFaults

\* One subject, and the bounds of CompatibilityWrite.
ASSUME RecoveryAssumption ==
  Scope = {Subject} /\ MaxInFlight \in Nat \ {0} /\ MaxFaults \in Nat

VARIABLES row, canonical, legacy, writer, faults,
          worker   \* what the worker a runner awaits has done, and read

\* The enqueue port the coordinator sees.
Port == IF Active(Subject) = {} THEN "none" ELSE "open"

Write == INSTANCE CompatibilityWrite WITH job <- Port

writeVars == <<row, canonical, legacy, writer, faults>>
queueVars == <<job, finding, runner, stranded, up, clock>>
allVars   == <<vars, writeVars, worker>>

Fresh == [pc |-> "called", seen |-> 0]

InitRecovery == Init /\ Write!Init /\ worker = [r \in Runner |-> Fresh]

\* A step of the coordinator; it reaches the queue through enqueue only.
WriteStep(w) ==
  /\ up
  /\ Enqueue(Subject) \/ UNCHANGED <<queueVars, crashes>>
  /\ Write!WriterStep(w)
  /\ UNCHANGED worker

QueueStep(r) == ClaimNext(r) /\ UNCHANGED <<writeVars, worker>>

\* The worker compares: it reads the canonical version.
WorkerReads(r) ==
  /\ InFlight(r)
  /\ worker[r].pc = "called"
  /\ worker' = [worker EXCEPT ![r] = [pc |-> "compared", seen |-> canonical]]
  /\ UNCHANGED <<vars, writeVars>>

\* The worker repairs: it writes the version it has read.
WorkerRepairs(r) ==
  /\ InFlight(r)
  /\ worker[r].pc = "compared"
  /\ legacy' = worker[r].seen
  /\ worker' = [worker EXCEPT ![r].pc = "repaired"]
  /\ UNCHANGED <<vars, row, canonical, writer, faults>>

\* The worker answers with a complete batch, or throws at any point; the catch
\* block may throw as well.
WorkerAnswers(r) ==
  /\ \/ worker[r].pc = "repaired" /\ CompleteBatch(r, {})
     \/ DropCanceled(r)
     \/ StrandJob(r, {})
     \/ \E retryable \in BOOLEAN : FailBatch(r, retryable, {})
  /\ worker' = [worker EXCEPT ![r] = Fresh]
  /\ UNCHANGED writeVars

CancelJob(j) == Cancel(j) /\ UNCHANGED <<writeVars, worker>>

Die == Crash /\ Write!Crash /\ worker' = [r \in Runner |-> Fresh]

StartAgain == Restart /\ UNCHANGED <<writeVars, worker>>

NextRecovery ==
  \/ \E w \in Writer : WriteStep(w)
  \/ \E r \in Runner : QueueStep(r) \/ WorkerReads(r) \/ WorkerRepairs(r)
                       \/ WorkerAnswers(r)
  \/ \E j \in JobId : CancelJob(j)
  \/ Die
  \/ StartAgain

SpecRecovery == InitRecovery /\ [][NextRecovery]_allVars

\* runNext keeps being invoked, the worker answers, the process is started.
FairRecovery ==
  /\ SpecRecovery
  /\ \A r \in Runner : /\ WF_allVars(QueueStep(r))
                       /\ WF_allVars(WorkerReads(r))
                       /\ WF_allVars(WorkerRepairs(r))
                       /\ WF_allVars(WorkerAnswers(r))
  /\ WF_allVars(StartAgain)

-----------------------------------------------------------------------------
Unfinished == \E j \in JobId : job[j].state \in {"FAILED", "CANCELED"}

(***************************************************************************)
(* A divergence that is requested while no worker runs is repaired, unless *)
(* the job fails, is canceled or is stranded by its runner, or another     *)
(* execution begins meanwhile.                                             *)
(***************************************************************************)
RequestIsAnswered ==
  (Write!Settled /\ \E j \in Queued : TRUE)
    ~> (canonical = legacy \/ Unfinished \/ stranded # {} \/ ~Write!Settled)

(***************************************************************************)
(* reconciliation-policy.md: "Reconciliation compares and repairs          *)
(* compatibility representations after explicitly detected divergence."    *)
(* Read as: when every execution has ended, nothing failed and no job is   *)
(* open or was abandoned, the two stores agree.                            *)
(***************************************************************************)
DetectedDivergenceIsRepaired ==
  (/\ Write!Settled /\ faults = 0 /\ crashes = 0
   /\ Active(Subject) = {} /\ ~Unfinished) => canonical = legacy
=============================================================================
