------------------------- MODULE CompatibilityWrite -------------------------
(***************************************************************************)
(* CompatibilityWriteCoordinator.execute and the status record it keeps in *)
(* cf_compatibility_status, for one (concept_type, subject_key) scope:     *)
(*                                                                         *)
(*   PENDING record -> authoritative commit -> legacy projection ->        *)
(*   CURRENT record,                                                       *)
(*                                                                         *)
(* with a FAILED record when the commit fails, and a DEGRADED record and a *)
(* reconciliation request when anything after the commit fails.  Several   *)
(* executions may overlap: the code runs without yielding between two      *)
(* awaits, so an action is one such segment.  The commit and the           *)
(* projection are the caller's callbacks: external, and they take effect   *)
(* while they are awaited.                                                 *)
(*                                                                         *)
(* Canonical versions are numbered in commit order; a legacy version is    *)
(* the canonical version it was derived from.                              *)
(***************************************************************************)
EXTENDS Naturals, FiniteSets

CONSTANTS
  Writer,       \* executions of execute(), one request each
  MaxInFlight,  \* bound: executions in flight at once
  MaxFaults,    \* bound: storage calls (status or enqueue) that fail
  MaxCrashes    \* bound: process crashes

ASSUME BoundsAssumption ==
  MaxInFlight \in Nat \ {0} /\ MaxFaults \in Nat /\ MaxCrashes \in Nat

VARIABLES
  row,        \* the scope's row in cf_compatibility_status
  canonical,  \* the authoritative version that is committed
  legacy,     \* the canonical version the legacy representation shows
  job,        \* "open" while the scope has a QUEUED or RUNNING job
  writer,     \* what every execution holds, and its answer
  faults, crashes

vars == <<row, canonical, legacy, job, writer, faults, crashes>>

RowState == {"ABSENT", "PENDING", "CURRENT", "DEGRADED", "FAILED"}

\* The columns the properties tell apart; linked: reconciliation_job_id is set.
Row == [state : RowState, version : Nat, canonicalVersion : Nat,
        legacyVersion : Nat, linked : BOOLEAN]

\* pc: the await execute() is at; base: the record it persisted last.
Pc == {"ready", "committing", "projecting", "projected", "linking",
       "returned", "lost"}
Execution == [pc : Pc, base : Row, commit : Nat,
              answer : {"none", "CURRENT", "DEGRADED", "FAILED"}]

NoRow == [state |-> "ABSENT", version |-> 0, canonicalVersion |-> 0,
          legacyVersion |-> 0, linked |-> FALSE]

InFlight == {w \in Writer : writer[w].pc \notin {"ready", "returned", "lost"}}
Settled  == InFlight = {}

Init ==
  /\ row = NoRow
  /\ canonical = 0 /\ legacy = 0
  /\ job = "none"
  /\ writer = [w \in Writer |-> [pc |-> "ready", base |-> NoRow, commit |-> 0,
                                 answer |-> "none"]]
  /\ faults = 0 /\ crashes = 0

-----------------------------------------------------------------------------
\* Mutant: the version counts down.
NextRecordBackwards(previous, state) ==
  [previous EXCEPT !.state = state, !.version = @ - 1, !.linked = FALSE]

(***************************************************************************)
(* nextRecord: the versions carry over from the previous record unless the *)
(* step brings new ones; every record but the linked one drops the job.    *)
(***************************************************************************)
NextRecord(previous, state) ==
  [previous EXCEPT !.state = state, !.version = @ + 1, !.linked = FALSE]

\* Mutant: the UPDATE has no version in its WHERE clause.
MatchesAnything(previous) == row.version >= previous.version

\* persist: insert, or update guarded by the version of the record it replaces.
Matches(previous) == row.version = previous.version

CanFail == faults < MaxFaults

Persist(previous, record, ok) ==
  \/ /\ Matches(previous)
     /\ row' = record
     /\ ok
     /\ UNCHANGED faults
  \/ /\ ~Matches(previous)
     /\ ~ok
     /\ UNCHANGED <<row, faults>>
  \/ /\ CanFail
     /\ faults' = faults + 1
     /\ ~ok
     /\ UNCHANGED row

At(w, pc) == writer[w].pc = pc

Goto(w, pc, base, commit) ==
  writer' = [writer EXCEPT ![w] = [pc |-> pc, base |-> base, commit |-> commit,
                                   answer |-> "none"]]

Answer(w, state) == writer' = [writer EXCEPT ![w].pc = "returned",
                                             ![w].answer = state]

\* Mutant: a failed PENDING record does not stop the execution.
BeginRegardless(w) ==
  /\ At(w, "ready")
  /\ Cardinality(InFlight) < MaxInFlight
  /\ \E ok \in BOOLEAN :
       /\ Persist(row, NextRecord(row, "PENDING"), ok)
       /\ Goto(w, "committing", NextRecord(row, "PENDING"), 0)
  /\ UNCHANGED <<canonical, legacy, job, crashes>>

\* findByScope, the PENDING record, and the call of commitAuthoritative.
Begin(w) ==
  /\ At(w, "ready")
  /\ Cardinality(InFlight) < MaxInFlight
  /\ \E ok \in BOOLEAN :
       /\ Persist(row, NextRecord(row, "PENDING"), ok)
       /\ IF ok THEN Goto(w, "committing", NextRecord(row, "PENDING"), 0)
                ELSE Answer(w, "FAILED")
  /\ UNCHANGED <<canonical, legacy, job, crashes>>

\* The caller's command commits; execute() goes on to call projectLegacy.
Commit(w) ==
  /\ At(w, "committing")
  /\ canonical' = canonical + 1
  /\ Goto(w, "projecting", writer[w].base, canonical + 1)
  /\ UNCHANGED <<row, legacy, job, faults, crashes>>

\* The caller's command rejects: a FAILED record, nothing else.
CommitFails(w) ==
  /\ At(w, "committing")
  /\ \E ok \in BOOLEAN : Persist(writer[w].base,
                                 NextRecord(writer[w].base, "FAILED"), ok)
  /\ Answer(w, "FAILED")
  /\ UNCHANGED <<canonical, legacy, job, crashes>>

\* The projection takes effect; execute() is resumed later.
Project(w) ==
  /\ At(w, "projecting")
  /\ legacy' = writer[w].commit
  /\ Goto(w, "projected", writer[w].base, writer[w].commit)
  /\ UNCHANGED <<row, canonical, job, faults, crashes>>

(***************************************************************************)
(* enqueueReconciliation: an active job of the scope answers for the       *)
(* request; a rejected enqueue is swallowed and reported as not enqueued.  *)
(***************************************************************************)
Enqueue(failed, enqueued) ==
  \/ /\ enqueued
     /\ job' = "open"
     /\ faults' = failed
  \/ /\ failed < MaxFaults
     /\ ~enqueued
     /\ faults' = failed + 1
     /\ UNCHANGED job

\* The CURRENT record.  When it cannot be persisted, the answer is DEGRADED.
PersistCurrent(w) ==
  LET base == writer[w].base
      current == [NextRecord(base, "CURRENT") EXCEPT
                    !.canonicalVersion = writer[w].commit,
                    !.legacyVersion = writer[w].commit]
  IN
  /\ At(w, "projected")
  /\ \/ /\ Matches(base)
        /\ row' = current
        /\ Answer(w, "CURRENT")
        /\ UNCHANGED <<job, faults>>
     \/ /\ \/ ~Matches(base) /\ \E e \in BOOLEAN : Enqueue(faults, e)
           \/ CanFail /\ \E e \in BOOLEAN : Enqueue(faults + 1, e)
        /\ UNCHANGED row
        /\ Answer(w, "DEGRADED")
  /\ UNCHANGED <<canonical, legacy, crashes>>

\* The record of a failed projection.
Degraded(w) == [NextRecord(writer[w].base, "DEGRADED") EXCEPT
                  !.canonicalVersion = writer[w].commit]

\* Mutant: the projection error is answered without a durable trace.
ProjectFailsQuietly(w) ==
  /\ At(w, "projecting")
  /\ legacy' \in {legacy, writer[w].commit}
  /\ Answer(w, "CURRENT")
  /\ UNCHANGED <<row, canonical, job, faults, crashes>>

(***************************************************************************)
(* projectLegacy rejects, perhaps after it wrote: the DEGRADED record, the *)
(* reconciliation request, and a later turn that links the two.            *)
(***************************************************************************)
ProjectFails(w) ==
  /\ At(w, "projecting")
  /\ legacy' \in {legacy, writer[w].commit}
  /\ \E persisted, enqueued \in BOOLEAN, failed \in {faults, faults + 1} :
       /\ \/ persisted /\ Matches(writer[w].base) /\ failed = faults
          \/ ~persisted /\ ~Matches(writer[w].base) /\ failed = faults
          \/ ~persisted /\ CanFail /\ failed = faults + 1
       /\ row' = IF persisted THEN Degraded(w) ELSE row
       /\ Enqueue(failed, enqueued)
       /\ IF persisted /\ enqueued
          THEN Goto(w, "linking", Degraded(w), writer[w].commit)
          ELSE Answer(w, "DEGRADED")
  /\ UNCHANGED <<canonical, crashes>>

\* Mutant: the link is written over whatever record is there by now.
LinkUnguarded(w) ==
  /\ At(w, "linking")
  /\ row' = [row EXCEPT !.linked = TRUE, !.version = @ + 1]
  /\ Answer(w, "DEGRADED")
  /\ UNCHANGED <<canonical, legacy, job, faults, crashes>>

\* The DEGRADED record gets the job's identifier, unless it was replaced.
Link(w) ==
  LET base == writer[w].base IN
  /\ At(w, "linking")
  /\ \E ok \in BOOLEAN :
       Persist(base, [base EXCEPT !.linked = TRUE, !.version = @ + 1], ok)
  /\ Answer(w, "DEGRADED")
  /\ UNCHANGED <<canonical, legacy, job, crashes>>

(***************************************************************************)
(* The process dies: executions in flight are lost.  It may die between    *)
(* the DEGRADED record and the request for reconciliation, which are two   *)
(* statements of the same segment.                                         *)
(***************************************************************************)
Crash ==
  /\ crashes < MaxCrashes
  /\ crashes' = crashes + 1
  /\ \/ UNCHANGED row
     \/ \E w \in Writer : /\ At(w, "projecting")
                          /\ Matches(writer[w].base)
                          /\ row' = Degraded(w)
  /\ writer' = [w \in Writer |-> IF w \in InFlight
                                 THEN [writer[w] EXCEPT !.pc = "lost"]
                                 ELSE writer[w]]
  /\ UNCHANGED <<canonical, legacy, job, faults>>

WriterStep(w) ==
  \/ Begin(w) \/ Commit(w) \/ CommitFails(w) \/ Project(w)
  \/ PersistCurrent(w) \/ ProjectFails(w) \/ Link(w)

Next == (\E w \in Writer : WriterStep(w)) \/ Crash

Spec == Init /\ [][Next]_vars

-----------------------------------------------------------------------------
\* Every variable keeps its type.
TypeOK ==
  /\ row \in Row
  /\ canonical \in Nat /\ legacy \in 0..canonical
  /\ job \in {"none", "open"}
  /\ writer \in [Writer -> Execution]
  /\ faults \in 0..MaxFaults
  /\ crashes \in 0..MaxCrashes

Diverged == Settled /\ canonical # legacy

(***************************************************************************)
(* 04-legacy-compatibility.md, "Partial failure is not silent": however    *)
(* executions overlap and whatever storage call fails, when the stores     *)
(* differ somebody was answered DEGRADED (while the process lives).        *)
(***************************************************************************)
NoSilentDivergence ==
  (Diverged /\ crashes = 0) => \E w \in Writer : writer[w].answer = "DEGRADED"

(***************************************************************************)
(* With working storage a divergence is also durable: overlapping          *)
(* executions that overwrite each other's records leave a DEGRADED record  *)
(* or an open reconciliation job behind.                                   *)
(***************************************************************************)
DivergenceIsRequested ==
  (Diverged /\ crashes = 0 /\ faults = 0) => job = "open"

(***************************************************************************)
(* Executions one at a time: a CURRENT record is the truth about both      *)
(* stores, through crashes at any await and failing storage calls.         *)
(***************************************************************************)
CurrentIsExact ==
  (Settled /\ row.state = "CURRENT") =>
    /\ canonical = legacy
    /\ row.canonicalVersion = canonical /\ row.legacyVersion = legacy

(***************************************************************************)
(* A record names a reconciliation job only while it is DEGRADED: the late *)
(* link never decorates the record of an execution that began meanwhile.   *)
(***************************************************************************)
LinkedIsDegraded == row.linked => row.state = "DEGRADED" /\ job = "open"

(***************************************************************************)
(* 04-legacy-compatibility.md, Dual-Write Requirements: "Partial failure   *)
(* is detectable" and "Compatibility status is durable".  Read as: when    *)
(* the stores differ, the record says so by its state or its versions, or  *)
(* a reconciliation job is open.                                           *)
(***************************************************************************)
DivergenceIsDetectable ==
  Diverged => \/ row.state \in {"PENDING", "DEGRADED"}
              \/ row.canonicalVersion # row.legacyVersion
              \/ job = "open"
=============================================================================
