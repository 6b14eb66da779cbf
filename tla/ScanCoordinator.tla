-------------------------- MODULE ScanCoordinator ---------------------------
(***************************************************************************)
(* MediaSourceScanCoordinator with EntityMutex and the scan() of its       *)
(* scanners: a lock per entity (a library, or a local media source), a     *)
(* queue whose jobs run one at a time, a controller per scan that was      *)
(* added, and the run states of the scanners.                              *)
(*                                                                         *)
(* add() and addLocal() wait for the database and for a lock they have     *)
(* found free, which is over before any other event, so a call is one      *)
(* action; so is the end of a job, with which the next one starts.         *)
(***************************************************************************)
EXTENDS ScanCoordinatorState

vars == <<locked, queue, running, signal, aborted, state>>

Phase == {"scan", "collections"}

Init ==
  /\ locked = {} /\ queue = <<>> /\ running = {} /\ signal = {} /\ aborted = {}
  /\ state = [e \in Entity |-> "idle"]

\* A job starts: the abort listener is registered, and scan() sets its state.
Begin(e) ==
  /\ running' = {<<e, "scan">>}
  /\ state' = [state EXCEPT ![e] = "running"]

\* add that finds the lock free (otherwise it changes nothing) but no scanner, or
\* whose factory of the scanner of collections throws, keeps the lock.
AddUnscannable(e) ==
  /\ e \notin locked /\ e \in Unscannable
  /\ locked' = locked \cup {e}
  /\ UNCHANGED <<queue, running, signal, aborted, state>>

\* add: the job is queued, and starts if no other runs.
Add(e) ==
  /\ e \notin locked \cup Unscannable
  /\ locked' = locked \cup {e}
  /\ signal' = signal \cup {e}
  /\ \/ running = {} /\ Begin(e) /\ UNCHANGED queue
     \/ running # {} /\ queue' = Append(queue, e) /\ UNCHANGED <<running, state>>
  /\ UNCHANGED aborted

\* Mutant: the releaser is called when the scan went well only.
EndKeepsLock(e, scanner) ==
  /\ locked' = locked
  /\ signal' = signal \ {e}
  /\ aborted' = aborted \ {e}
  /\ \/ /\ queue # <<>>
        /\ running' = {<<Head(queue), "scan">>}
        /\ queue' = Tail(queue)
        /\ state' = [state EXCEPT ![e] = scanner, ![Head(queue)] = "running"]
     \/ /\ queue = <<>>
        /\ running' = {}
        /\ state' = [state EXCEPT ![e] = scanner]
        /\ UNCHANGED queue

\* The job ends, well or not: the lock is released, its controller dropped, the next job starts.
End(e, scanner) ==
  /\ locked' = locked \ {e}
  /\ signal' = signal \ {e}
  /\ aborted' = aborted \ {e}
  /\ \/ /\ queue # <<>>
        /\ running' = {<<Head(queue), "scan">>}
        /\ queue' = Tail(queue)
        /\ state' = [state EXCEPT ![e] = scanner, ![Head(queue)] = "running"]
     \/ /\ queue = <<>>
        /\ running' = {}
        /\ state' = [state EXCEPT ![e] = scanner]
        /\ UNCHANGED queue

\* Mutant: the next job does not start after a scan that failed.
FailStalls(e) ==
  /\ <<e, "scan">> \in running
  /\ locked' = locked \ {e} /\ signal' = signal \ {e} /\ aborted' = aborted \ {e}
  /\ running' = {}
  /\ UNCHANGED <<queue, state>>

\* The scan throws; a remote scanner forgets the entity, a local one keeps its state.
Fail(e) ==
  /\ <<e, "scan">> \in running
  /\ End(e, IF e \in Local THEN state[e] ELSE "idle")

\* The scan returns, at its end or because it saw that it is canceled.
Scanned(e) ==
  /\ <<e, "scan">> \in running
  /\ \/ End(e, IF e \in Local THEN state[e] ELSE "idle")
     \/ /\ e \notin Local
        /\ running' = {<<e, "collections">>}
        /\ state' = [state EXCEPT ![e] = "idle"]
        /\ UNCHANGED <<locked, queue, signal, aborted>>

\* The scan of the collections returns or throws.
Collected(e) == <<e, "collections">> \in running /\ End(e, state[e])

(***************************************************************************)
(* cancelAll: every controller is aborted.  Only the job that runs has a   *)
(* listener, and a controller fires once: a scan aborted while it was      *)
(* queued is never told.                                                   *)
(***************************************************************************)
CancelAll ==
  /\ aborted' = signal
  /\ state' = [e \in Entity |-> IF e \in Active \ aborted THEN "canceled" ELSE state[e]]
  /\ UNCHANGED <<locked, queue, running, signal>>

Next ==
  \/ \E e \in Entity : \/ AddUnscannable(e) \/ Add(e)
                       \/ Fail(e) \/ Scanned(e) \/ Collected(e)
  \/ CancelAll

Spec == Init /\ [][Next]_vars

\* A scan ends, and so does that of its collections.
Fairness == \A e \in Entity : WF_vars(Fail(e) \/ Scanned(e)) /\ WF_vars(Collected(e))

FairSpec == Spec /\ Fairness

-----------------------------------------------------------------------------
\* Every variable keeps its type.
TypeOK ==
  /\ locked \in SUBSET Entity
  /\ queue \in Seq(Entity)
  /\ running \in SUBSET (Entity \X Phase)
  /\ signal \in SUBSET Entity
  /\ aborted \in SUBSET Entity
  /\ state \in [Entity -> {"idle", "running", "canceled"}]

\* A scan that was added ends, and its entity can be scanned again.
AddedScansEnd == \A e \in Entity : e \in signal ~> e \notin locked
=============================================================================
