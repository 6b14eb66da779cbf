---------------------- MODULE CompatibilityWriteProofs ----------------------
(***************************************************************************)
(* Proofs about CompatibilityWrite, for any number of executions that      *)
(* overlap in any way, any number of failing storage calls and of crashes. *)
(***************************************************************************)
EXTENDS MCCompatibilityWrite, TLAPS

Flying == {"committing", "projecting", "projected", "linking"}

\* An execution that is or will be answered DEGRADED: after its commit another
\* execution has replaced its record, or the record says DEGRADED already.
Doomed(w) ==
  \/ writer[w].answer = "DEGRADED"
  \/ At(w, "linking")
  \/ writer[w].pc \in {"projecting", "projected"} /\ ~Matches(writer[w].base)

SomeDoomed == \E w \in Writer : Doomed(w)

\* The execution whose record is current, with the last commit still to project.
Fixes(w) == At(w, "projecting") /\ Matches(writer[w].base) /\ writer[w].commit = canonical

\* Only executions that returned have an answer; a commit is a version.
AnswerInv == \A w \in Writer :
  /\ writer[w].answer # "none" => writer[w].pc = "returned"
  /\ writer[w].answer = "DEGRADED" => job = "open" \/ faults > 0
  /\ writer[w].commit <= canonical

\* Executions in flight persisted different records, none newer than the row.
VersionInv ==
  /\ \A w \in Writer : writer[w].pc \in Flying => writer[w].base.version <= row.version
  /\ \A v, w \in Writer : /\ writer[v].pc \in Flying /\ writer[w].pc \in Flying
                          /\ writer[v].base.version = writer[w].base.version
                          => v = w

\* A job is linked to DEGRADED records only.
LinkInv ==
  /\ LinkedIsDegraded
  /\ \A w \in Writer : At(w, "linking") => writer[w].base.state = "DEGRADED" /\ job = "open"

\* While the process lives: when the stores differ, somebody is doomed or about
\* to project the last commit.
DoomInv == crashes = 0 =>
  /\ canonical # legacy => SomeDoomed \/ \E w \in Writer : Fixes(w)
  /\ \A w \in Writer :
       writer[w].pc \in {"projecting", "projected"} /\ Matches(writer[w].base) =>
         writer[w].commit = canonical \/ SomeDoomed

IInv == TypeOK /\ AnswerInv /\ VersionInv /\ LinkInv /\ DoomInv

\* Nothing is in flight: the initial state satisfies the invariant.
LEMMA InitIInv == Init => IInv
  BY BoundsAssumption DEF Init, IInv, TypeOK, AnswerInv, VersionInv, LinkInv, LinkedIsDegraded, DoomInv,
    At, Flying, NoRow, Row, RowState, Execution, Pc
----------------------------------------------------------------------------
(* Lemmas about the operators the actions are built from *)

\* A record that follows another is a record, unlinked and one version newer.
LEMMA NextRecordType ==
  ASSUME NEW r \in Row, NEW s \in RowState
  PROVE  /\ NextRecord(r, s) \in Row
         /\ NextRecord(r, s).version = r.version + 1
         /\ NextRecord(r, s).state = s /\ NextRecord(r, s).linked = FALSE
<1> DEFINE v == r.version + 1
<1>1. v \in Nat
  BY DEF Row
<1>2. NextRecord(r, s) = [r EXCEPT !.state = s, !.version = v, !.linked = FALSE]
  BY DEF NextRecord
<1>3. NextRecord(r, s).version = v /\ NextRecord(r, s).state = s
  BY DEF Row, NextRecord
<1>4. NextRecord(r, s).linked = FALSE
  BY DEF Row, NextRecord
<1> HIDE DEF v
<1>5. [r EXCEPT !.state = s, !.version = v, !.linked = FALSE] \in Row
  BY <1>1 DEF Row
<1> QED
  BY <1>2, <1>3, <1>4, <1>5 DEF v

\* The record of a failed projection is one as well.
LEMMA DegradedType ==
  ASSUME TypeOK, NEW w \in Writer
  PROVE  /\ Degraded(w) \in Row
         /\ Degraded(w).version = writer[w].base.version + 1
         /\ Degraded(w).state = "DEGRADED" /\ Degraded(w).linked = FALSE
<1>1. writer[w].base \in Row /\ writer[w].commit \in Nat
  BY DEF TypeOK, Execution
<1> DEFINE n == NextRecord(writer[w].base, "DEGRADED")
<1>2. /\ n \in Row /\ n.version = writer[w].base.version + 1
      /\ n.state = "DEGRADED" /\ n.linked = FALSE
  BY <1>1, NextRecordType DEF RowState
<1> HIDE DEF n
<1>3. Degraded(w) = [n EXCEPT !.canonicalVersion = writer[w].commit]
  BY DEF Degraded, n
<1> QED
  BY <1>1, <1>2, <1>3 DEF Row

\* An answer moves one execution, which keeps its record and its commit.
LEMMA AnswerMoves ==
  ASSUME TypeOK, NEW w \in Writer, NEW s \in {"CURRENT", "DEGRADED", "FAILED"}, Answer(w, s)
  PROVE  /\ writer' \in [Writer -> Execution]
         /\ writer'[w].pc = "returned" /\ writer'[w].answer = s
         /\ writer'[w].base = writer[w].base /\ writer'[w].commit = writer[w].commit
         /\ \A v \in Writer : v # w => writer'[v] = writer[v]
<1>1. writer[w] \in Execution
  BY DEF TypeOK
<1> DEFINE e == [[writer[w] EXCEPT !.pc = "returned"] EXCEPT !.answer = s]
<1>2. /\ e \in Execution /\ e.pc = "returned" /\ e.answer = s
      /\ e.base = writer[w].base /\ e.commit = writer[w].commit
  BY <1>1 DEF Execution, Pc
<1>3. writer' = [writer EXCEPT ![w] = e]
  BY DEF Answer, TypeOK
<1> HIDE DEF e
<1> QED
  BY <1>2, <1>3 DEF TypeOK

\* So does a step to the next await.
LEMMA GotoMoves ==
  ASSUME TypeOK, NEW w \in Writer, NEW p \in Pc, NEW b \in Row, NEW c \in Nat, Goto(w, p, b, c)
  PROVE  /\ writer' \in [Writer -> Execution]
         /\ writer'[w].pc = p /\ writer'[w].answer = "none"
         /\ writer'[w].base = b /\ writer'[w].commit = c
         /\ \A v \in Writer : v # w => writer'[v] = writer[v]
  BY DEF Goto, TypeOK, Execution

\* What a persisted record leaves of the row, and of the faults.
LEMMA PersistMoves ==
  ASSUME TypeOK, NEW b, NEW r \in Row, NEW ok \in BOOLEAN, Persist(b, r, ok)
  PROVE  /\ row' \in Row /\ faults' \in 0..MaxFaults /\ faults' >= faults
         /\ ok => row' = r /\ Matches(b) /\ faults' = faults
         /\ ~ok => row' = row
  BY BoundsAssumption DEF Persist, CanFail, TypeOK

\* An enqueue leaves an open job or a fault behind, and closes no job.
LEMMA EnqueueMoves ==
  ASSUME TypeOK, NEW f \in 0..MaxFaults, NEW enqueued \in BOOLEAN, Enqueue(f, enqueued)
  PROVE  /\ job' \in {"none", "open"} /\ (job = "open" => job' = "open")
         /\ faults' \in 0..MaxFaults /\ faults' >= f
         /\ job' = "open" \/ faults' > 0
         /\ enqueued => job' = "open"
  BY BoundsAssumption DEF Enqueue, TypeOK
----------------------------------------------------------------------------
(* Effects that actions share *)

\* Who is doomed stays so while others move and the row only gets newer.
LEMMA DoomStays ==
  ASSUME IInv, NEW w \in Writer, \A v \in Writer : v # w => writer'[v] = writer[v],
         row' \in Row, row'.version >= row.version,
         Doomed(w) => Doomed(w)'
  PROVE  SomeDoomed => SomeDoomed'
<1> SUFFICES ASSUME NEW v \in Writer, Doomed(v), v # w PROVE Doomed(v)'
  BY DEF SomeDoomed
<1>1. writer'[v] = writer[v]
  OBVIOUS
<1>2. CASE writer[v].pc \in {"projecting", "projected"} /\ ~Matches(writer[v].base)
  <2>1. /\ writer[v].base.version <= row.version /\ writer[v].base.version # row.version
        /\ writer[v].base.version \in Nat /\ row.version \in Nat /\ row'.version \in Nat
    BY <1>2 DEF IInv, VersionInv, Flying, Matches, TypeOK, Execution, Row
  <2>2. row'.version # writer[v].base.version
    BY <2>1
  <2> QED
    BY <1>1, <1>2, <2>2 DEF Doomed, Matches
<1> QED
  BY <1>1, <1>2 DEF Doomed, At

\* The records in flight stay different, and none gets newer than the row.
LEMMA VersionsStay ==
  ASSUME IInv, NEW w \in Writer, \A v \in Writer : v # w => writer'[v] = writer[v],
         row' \in Row, row'.version >= row.version,
         \/ writer'[w].pc \notin Flying
         \/ writer[w].pc \in Flying /\ writer'[w].base = writer[w].base
         \/ row'.version = row.version + 1 /\ writer'[w].base.version = row'.version
  PROVE  VersionInv'
<1>1. /\ row.version \in Nat /\ row'.version \in Nat
      /\ \A v \in Writer : writer[v].base.version \in Nat
  BY DEF IInv, TypeOK, Execution, Row
<1>2. \A v \in Writer : writer[v].pc \in Flying => writer[v].base.version <= row.version
  BY DEF IInv, VersionInv
<1>3. \A v \in Writer : writer'[v].pc \in Flying => writer'[v].base.version <= row'.version
  BY <1>1, <1>2
<1>4. ASSUME NEW u \in Writer, NEW v \in Writer,
             writer'[u].pc \in Flying, writer'[v].pc \in Flying,
             writer'[u].base.version = writer'[v].base.version
      PROVE  u = v
  <2>1. CASE u # w /\ v # w
    BY <1>4, <2>1 DEF IInv, VersionInv
  <2>2. CASE writer[w].pc \in Flying /\ writer'[w].base = writer[w].base
    BY <1>4, <2>2 DEF IInv, VersionInv
  <2>3. CASE row'.version = row.version + 1 /\ writer'[w].base.version = row'.version
    <3>1. \A x \in Writer : x # w /\ writer'[x].pc \in Flying =>
            writer'[x].base.version \in Nat /\ writer'[x].base.version <= row.version
      BY <1>1, <1>2
    <3>2. \A n \in Nat : n <= row.version => n # row'.version
      BY <1>1, <2>3
    <3>3. \A x \in Writer : x # w /\ writer'[x].pc \in Flying =>
            writer'[x].base.version # row'.version
      BY <3>1, <3>2
    <3>4. CASE u = w
      BY <1>4, <2>3, <3>3, <3>4
    <3>5. CASE v = w
      BY <1>4, <2>3, <3>3, <3>5
    <3> QED
      BY <2>1, <3>4, <3>5
  <2> QED
    BY <1>4, <2>1, <2>2, <2>3
<1> QED
  BY <1>3, <1>4 DEF VersionInv

\* The record of one execution at most is the current one.
LEMMA OneMatches ==
  ASSUME IInv, NEW v \in Writer, NEW w \in Writer,
         writer[v].pc \in Flying, writer[w].pc \in Flying,
         Matches(writer[v].base), Matches(writer[w].base)
  PROVE  v = w
  BY DEF IInv, VersionInv, Matches

\* An execution returns FAILED or CURRENT, and moves neither store.
LEMMA AnswerDoom ==
  ASSUME IInv, NEW w \in Writer, \A v \in Writer : v # w => writer'[v] = writer[v],
         writer'[w].pc = "returned", ~Doomed(w) \/ Doomed(w)', ~Fixes(w),
         row' \in Row, row' = row \/ row'.version = row.version + 1,
         UNCHANGED <<canonical, legacy, crashes>>,
         row' # row => Matches(writer[w].base) /\ writer[w].pc \in Flying
  PROVE  DoomInv'
<1> SUFFICES ASSUME crashes = 0 PROVE DoomInv'
  BY DEF DoomInv
<1>1. row.version \in Nat
  BY DEF IInv, TypeOK, Row
<1>2. SomeDoomed => SomeDoomed'
  BY <1>1, DoomStays
<1>3. \A v \in Writer : writer'[v].pc \in {"projecting", "projected"} => v # w
  OBVIOUS
<1>4. ASSUME NEW v \in Writer, v # w, writer[v].pc \in {"projecting", "projected"},
             Matches(writer[v].base)
      PROVE  row' = row
  BY <1>4, OneMatches DEF Flying
<1>5. canonical # legacy => SomeDoomed' \/ \E v \in Writer : Fixes(v)'
  <2> SUFFICES ASSUME NEW v \in Writer, Fixes(v) PROVE Fixes(v)'
    BY <1>2 DEF IInv, DoomInv
  <2>1. v # w /\ writer'[v] = writer[v] /\ row' = row
    BY <1>4 DEF Fixes, At
  <2> QED
    BY <2>1 DEF Fixes, At, Matches
<1>6. ASSUME NEW v \in Writer, writer'[v].pc \in {"projecting", "projected"},
             writer'[v].base.version = row'.version
      PROVE  writer'[v].commit = canonical \/ SomeDoomed'
  <2>1. v # w /\ writer'[v] = writer[v]
    BY <1>3, <1>6
  <2>2. CASE Matches(writer[v].base)
    BY <1>2, <1>6, <2>1, <2>2 DEF IInv, DoomInv
  <2>3. CASE ~Matches(writer[v].base)
    <3>1. Doomed(v)
      BY <1>6, <2>1, <2>3 DEF Doomed
    <3> QED
      BY <1>2, <3>1 DEF SomeDoomed
  <2> QED
    BY <2>2, <2>3
<1> QED
  BY <1>5, <1>6 DEF DoomInv, Matches
----------------------------------------------------------------------------
(* The actions *)

\* What everything about one execution has in common: the answers, the links and
\* the types of the executions that do not move.
LEMMA OthersKeep ==
  ASSUME IInv, NEW w \in Writer, writer' \in [Writer -> Execution],
         \A v \in Writer : v # w => writer'[v] = writer[v],
         job = "open" => job' = "open", faults' >= faults, faults' \in Nat,
         canonical' \in Nat, canonical' >= canonical,
         writer'[w].answer # "none" => writer'[w].pc = "returned",
         writer'[w].answer = "DEGRADED" => job' = "open" \/ faults' > 0,
         writer'[w].commit <= canonical',
         writer'[w].pc = "linking" => writer'[w].base.state = "DEGRADED" /\ job' = "open",
         row'.linked => row'.state = "DEGRADED" /\ job' = "open"
  PROVE  AnswerInv' /\ LinkInv'
<1>1. \A v \in Writer : writer[v].commit \in Nat /\ canonical \in Nat /\ faults \in Nat
  BY BoundsAssumption DEF IInv, TypeOK, Execution
<1>2. AnswerInv'
  BY <1>1 DEF IInv, AnswerInv
<1>3. LinkInv'
  BY DEF IInv, LinkInv, LinkedIsDegraded, At
<1> QED
  BY <1>2, <1>3

\* execute() begins: the PENDING record makes all others outdated.
LEMMA BeginKeeps ==
  ASSUME IInv, NEW w \in Writer, Begin(w)
  PROVE  IInv'
<1> USE DEF IInv
<1> DEFINE r == NextRecord(row, "PENDING")
<1>1. /\ writer[w].pc = "ready" /\ writer[w].answer = "none" /\ writer[w] \in Execution
      /\ row \in Row /\ row.version \in Nat /\ writer[w].commit \in Nat
      /\ canonical \in Nat /\ writer[w].commit <= canonical
  BY DEF Begin, At, AnswerInv, TypeOK, Execution, Row
<1>2. r \in Row /\ r.version = row.version + 1 /\ r.state = "PENDING" /\ r.linked = FALSE
  BY <1>1, NextRecordType DEF RowState
<1>3. UNCHANGED <<canonical, legacy, job, crashes>>
  BY DEF Begin
<1>4. PICK ok \in BOOLEAN : /\ Persist(row, r, ok)
                            /\ IF ok THEN Goto(w, "committing", r, 0) ELSE Answer(w, "FAILED")
  BY DEF Begin
<1> HIDE DEF r
<1>5. /\ row' \in Row /\ faults' \in 0..MaxFaults /\ faults' >= faults
      /\ ok => row' = r
      /\ ~ok => row' = row
  BY <1>2, <1>4, PersistMoves
<1>6. CASE ok
  <2>1. /\ writer' \in [Writer -> Execution]
        /\ writer'[w].pc = "committing" /\ writer'[w].answer = "none"
        /\ writer'[w].base = r /\ writer'[w].commit = 0
        /\ \A v \in Writer : v # w => writer'[v] = writer[v]
    BY <1>2, <1>4, <1>6, GotoMoves DEF Pc
  <2>2. TypeOK'
    BY <1>3, <1>5, <2>1 DEF TypeOK
  <2>3. AnswerInv' /\ LinkInv'
    <3>1. 0 <= canonical' /\ canonical' \in Nat /\ canonical' >= canonical
      BY <1>1, <1>3
    <3>2. faults' \in Nat
      BY <1>5
    <3>3. row'.linked = FALSE
      BY <1>2, <1>5, <1>6
    <3> QED
      BY <1>3, <1>5, <2>1, <3>1, <3>2, <3>3, OthersKeep
  <2>4. row'.version = row.version + 1 /\ row'.version >= row.version
    BY <1>1, <1>2, <1>5, <1>6
  <2>5. VersionInv'
    BY <1>2, <1>5, <1>6, <2>1, <2>4, VersionsStay
  <2>6. DoomInv'
    <3> SUFFICES ASSUME crashes = 0 PROVE DoomInv'
      BY <1>3 DEF DoomInv
    <3>1. SomeDoomed => SomeDoomed'
      BY <1>1, <1>5, <2>1, <2>4, DoomStays DEF Doomed, At
    <3>2. ASSUME NEW v \in Writer, writer[v].pc \in {"projecting", "projected"}
          PROVE  Doomed(v)'
      <4>1. v # w /\ writer'[v] = writer[v]
        BY <1>1, <2>1, <3>2
      <4>2. writer[v].base.version \in Nat /\ writer[v].base.version <= row.version
        BY <3>2 DEF VersionInv, Flying, TypeOK, Execution, Row
      <4>3. writer[v].base.version # row'.version
        BY <1>1, <2>4, <4>2
      <4> QED
        BY <3>2, <4>1, <4>3 DEF Doomed, Matches
    <3>3. \A v \in Writer : Fixes(v) => SomeDoomed'
      BY <3>2 DEF Fixes, At, SomeDoomed
    <3>4. \A v \in Writer : writer'[v].pc \in {"projecting", "projected"} => SomeDoomed'
      BY <2>1, <3>2 DEF SomeDoomed
    <3> QED
      BY <1>3, <3>1, <3>3, <3>4 DEF DoomInv
  <2> QED
    BY <2>2, <2>3, <2>5, <2>6
<1>7. CASE ~ok
  <2>1. /\ writer' \in [Writer -> Execution]
        /\ writer'[w].pc = "returned" /\ writer'[w].answer = "FAILED"
        /\ writer'[w].commit = writer[w].commit
        /\ \A v \in Writer : v # w => writer'[v] = writer[v]
    BY <1>4, <1>7, AnswerMoves
  <2>2. TypeOK'
    BY <1>3, <1>5, <2>1 DEF TypeOK
  <2>3. AnswerInv' /\ LinkInv'
    <3>1. faults' \in Nat
      BY <1>5
    <3>2. row'.linked => row'.state = "DEGRADED" /\ job = "open"
      BY <1>5, <1>7 DEF LinkInv, LinkedIsDegraded
    <3>3. canonical' \in Nat /\ canonical' >= canonical /\ writer'[w].commit <= canonical'
      BY <1>1, <1>3, <2>1
    <3> QED
      BY <1>3, <1>5, <2>1, <3>1, <3>2, <3>3, OthersKeep
  <2>4. row'.version >= row.version
    BY <1>1, <1>5, <1>7
  <2>5. VersionInv'
    BY <1>5, <2>1, <2>4, VersionsStay DEF Flying
  <2>6. DoomInv'
    BY <1>1, <1>3, <1>5, <1>7, <2>1, AnswerDoom DEF Doomed, Fixes, At
  <2> QED
    BY <2>2, <2>3, <2>5, <2>6
<1> QED
  BY <1>6, <1>7

\* The types an execution in flight has.
LEMMA FlightTypes ==
  ASSUME IInv, NEW w \in Writer, writer[w].pc \in Flying
  PROVE  /\ writer[w].answer = "none" /\ writer[w].base \in Row /\ writer[w].commit \in Nat
         /\ writer[w].base.version \in Nat /\ row.version \in Nat /\ row \in Row
         /\ canonical \in Nat /\ writer[w].commit <= canonical /\ faults \in Nat
  BY BoundsAssumption DEF IInv, AnswerInv, TypeOK, Execution, Row, Flying

\* A commit: the last one is this execution's to project, or it is doomed.
LEMMA CommitKeeps ==
  ASSUME IInv, NEW w \in Writer, Commit(w)
  PROVE  IInv'
<1> USE DEF IInv
<1> DEFINE c == canonical + 1
<1>1. writer[w].pc = "committing" /\ writer[w].pc \in Flying
  BY DEF Commit, At, Flying
<1>2. /\ writer[w].base \in Row /\ canonical \in Nat /\ c \in Nat /\ row.version \in Nat
      /\ c <= canonical' /\ canonical' = c /\ canonical' >= canonical /\ faults \in Nat
  BY <1>1, FlightTypes DEF Commit
<1>3. /\ Goto(w, "projecting", writer[w].base, c)
      /\ UNCHANGED <<row, legacy, job, faults, crashes>>
  BY DEF Commit
<1> HIDE DEF c
<1>4. /\ writer' \in [Writer -> Execution]
      /\ writer'[w].pc = "projecting" /\ writer'[w].answer = "none"
      /\ writer'[w].base = writer[w].base /\ writer'[w].commit = c
      /\ \A v \in Writer : v # w => writer'[v] = writer[v]
  BY <1>2, <1>3, GotoMoves DEF Pc
<1>5. TypeOK'
  <2>1. legacy' \in 0..canonical'
    BY <1>2, <1>3 DEF TypeOK
  <2> QED
    BY <1>2, <1>3, <1>4, <2>1 DEF TypeOK
<1>6. AnswerInv' /\ LinkInv'
  <2>1. row'.linked => row'.state = "DEGRADED" /\ job = "open"
    BY <1>3 DEF LinkInv, LinkedIsDegraded
  <2>2. faults' >= faults /\ faults' \in Nat
    BY <1>2, <1>3
  <2> QED
    BY <1>2, <1>3, <1>4, <2>1, <2>2, OthersKeep
<1>7. VersionInv'
  <2>1. row' \in Row /\ row'.version >= row.version
    BY <1>2, <1>3 DEF TypeOK
  <2> QED
    BY <1>1, <1>4, <2>1, VersionsStay
<1>8. DoomInv'
  <2>1. CASE Matches(writer[w].base)
    <3>1. \A v \in Writer : writer'[v].pc \in {"projecting", "projected"} /\ v # w =>
            row'.version # writer'[v].base.version
      BY <1>1, <1>3, <1>4, <2>1, OneMatches DEF Flying, Matches
    <3>2. Fixes(w)'
      BY <1>2, <1>3, <1>4, <2>1 DEF Fixes, At, Matches
    <3> QED
      BY <1>2, <1>4, <3>1, <3>2 DEF DoomInv, Matches
  <2>2. CASE ~Matches(writer[w].base)
    <3>1. Doomed(w)'
      BY <1>3, <1>4, <2>2 DEF Doomed, Matches
    <3> QED
      BY <3>1 DEF DoomInv, SomeDoomed
  <2> QED
    BY <2>1, <2>2
<1> QED
  BY <1>5, <1>6, <1>7, <1>8

\* A rejected command: nothing happened but the record.
LEMMA CommitFailsKeeps ==
  ASSUME IInv, NEW w \in Writer, CommitFails(w)
  PROVE  IInv'
<1> USE DEF IInv
<1> DEFINE r == NextRecord(writer[w].base, "FAILED")
<1>1. writer[w].pc = "committing" /\ writer[w].pc \in Flying
  BY DEF CommitFails, At, Flying
<1>2. /\ r \in Row /\ r.version = writer[w].base.version + 1 /\ r.linked = FALSE
      /\ writer[w].answer = "none" /\ row \in Row /\ row.version \in Nat
      /\ canonical \in Nat /\ writer[w].commit <= canonical
  BY <1>1, FlightTypes, NextRecordType DEF RowState
<1>3. PICK ok \in BOOLEAN : Persist(writer[w].base, r, ok)
  BY DEF CommitFails
<1>4. Answer(w, "FAILED") /\ UNCHANGED <<canonical, legacy, job, crashes>>
  BY DEF CommitFails
<1> HIDE DEF r
<1>5. /\ row' \in Row /\ faults' \in 0..MaxFaults /\ faults' >= faults
      /\ ok => row' = r /\ Matches(writer[w].base)
      /\ ~ok => row' = row
  BY <1>2, <1>3, PersistMoves
<1>6. row' = row \/ row'.version = row.version + 1
  BY <1>2, <1>5 DEF Matches
<1>7. /\ writer' \in [Writer -> Execution]
      /\ writer'[w].pc = "returned" /\ writer'[w].answer = "FAILED"
      /\ writer'[w].commit = writer[w].commit
      /\ \A v \in Writer : v # w => writer'[v] = writer[v]
  BY <1>4, AnswerMoves
<1>8. TypeOK'
  BY <1>4, <1>5, <1>7 DEF TypeOK
<1>9. AnswerInv' /\ LinkInv'
  <2>1. faults' \in Nat
    BY <1>5
  <2>2. row'.linked => row'.state = "DEGRADED" /\ job = "open"
    BY <1>2, <1>5 DEF LinkInv, LinkedIsDegraded
  <2>3. canonical' \in Nat /\ canonical' >= canonical /\ writer'[w].commit <= canonical'
    BY <1>2, <1>4, <1>7
  <2> QED
    BY <1>4, <1>5, <1>7, <2>1, <2>2, <2>3, OthersKeep
<1>10. VersionInv'
  <2>1. row'.version >= row.version
    BY <1>2, <1>6
  <2> QED
    BY <1>5, <1>7, <2>1, VersionsStay DEF Flying
<1>11. DoomInv'
  BY <1>1, <1>2, <1>4, <1>5, <1>6, <1>7, AnswerDoom DEF Doomed, Fixes, At
<1> QED
  BY <1>8, <1>9, <1>10, <1>11

\* The projection shows the last commit, or somebody is doomed.
LEMMA ProjectKeeps ==
  ASSUME IInv, NEW w \in Writer, Project(w)
  PROVE  IInv'
<1> USE DEF IInv
<1> DEFINE c == writer[w].commit
<1>1. writer[w].pc = "projecting" /\ writer[w].pc \in Flying
  BY DEF Project, At, Flying
<1>2. /\ writer[w].base \in Row /\ canonical \in Nat /\ c \in Nat /\ c <= canonical
      /\ row \in Row /\ row.version \in Nat /\ faults \in Nat /\ writer[w].answer = "none"
  BY <1>1, FlightTypes
<1>3. /\ Goto(w, "projected", writer[w].base, c) /\ legacy' = c
      /\ UNCHANGED <<row, canonical, job, faults, crashes>>
  BY DEF Project
<1> HIDE DEF c
<1>4. /\ writer' \in [Writer -> Execution]
      /\ writer'[w].pc = "projected" /\ writer'[w].answer = "none"
      /\ writer'[w].base = writer[w].base /\ writer'[w].commit = c
      /\ \A v \in Writer : v # w => writer'[v] = writer[v]
  BY <1>2, <1>3, GotoMoves DEF Pc
<1>5. TypeOK'
  BY <1>2, <1>3, <1>4 DEF TypeOK
<1>6. AnswerInv' /\ LinkInv'
  <2>1. row'.linked => row'.state = "DEGRADED" /\ job = "open"
    BY <1>3 DEF LinkInv, LinkedIsDegraded
  <2>2. faults' >= faults /\ faults' \in Nat /\ canonical' \in Nat /\ canonical' >= canonical
        /\ writer'[w].commit <= canonical'
    BY <1>2, <1>3, <1>4
  <2> QED
    BY <1>3, <1>4, <2>1, <2>2, OthersKeep
<1>7. row'.version >= row.version
  BY <1>2, <1>3
<1>8. VersionInv'
  BY <1>1, <1>2, <1>3, <1>4, <1>7, VersionsStay
<1>9. DoomInv'
  <2> SUFFICES ASSUME crashes = 0 PROVE DoomInv'
    BY <1>3 DEF DoomInv
  <2>1. Doomed(w) => Doomed(w)'
    BY <1>1, <1>2, <1>3, <1>4 DEF Doomed, At, Matches
  <2>2. SomeDoomed => SomeDoomed'
    BY <1>2, <1>3, <1>4, <1>7, <2>1, DoomStays
  <2>3. CASE SomeDoomed
    BY <2>2, <2>3 DEF DoomInv
  <2>4. CASE ~SomeDoomed
    <3>1. Matches(writer[w].base)
      BY <1>1, <2>4 DEF SomeDoomed, Doomed
    <3>2. c = canonical
      BY <1>1, <2>4, <3>1 DEF DoomInv, c
    <3>3. \A v \in Writer : writer'[v].pc \in {"projecting", "projected"}
                              /\ row'.version = writer'[v].base.version =>
            writer'[v].commit = canonical'
      BY <1>1, <1>3, <1>4, <2>4, <3>2 DEF DoomInv, Matches
    <3> QED
      BY <1>3, <3>2, <3>3 DEF DoomInv, Matches
  <2> QED
    BY <2>3, <2>4
<1> QED
  BY <1>5, <1>6, <1>8, <1>9

\* Whatever else changed, an answer DEGRADED leaves nothing silent.
LEMMA DegradedAnswer ==
  ASSUME IInv, NEW w \in Writer, writer[w].pc \in Flying, Answer(w, "DEGRADED"),
         row' \in Row, row' = row \/ row'.version = row.version + 1,
         job' \in {"none", "open"}, job = "open" => job' = "open",
         faults' \in 0..MaxFaults, faults' >= faults, job' = "open" \/ faults' > 0,
         legacy' \in 0..canonical,
         row'.linked => row'.state = "DEGRADED" /\ job' = "open",
         UNCHANGED <<canonical, crashes>>
  PROVE  IInv'
<1>1. /\ writer' \in [Writer -> Execution]
      /\ writer'[w].pc = "returned" /\ writer'[w].answer = "DEGRADED"
      /\ writer'[w].commit = writer[w].commit
      /\ \A v \in Writer : v # w => writer'[v] = writer[v]
  BY AnswerMoves DEF IInv
<1>2. canonical \in Nat /\ writer[w].commit <= canonical /\ row.version \in Nat
  BY FlightTypes
<1>3. TypeOK'
  BY <1>1 DEF IInv, TypeOK
<1>4. AnswerInv' /\ LinkInv'
  <2>1. faults' \in Nat
    BY BoundsAssumption
  <2>2. canonical' \in Nat /\ canonical' >= canonical /\ writer'[w].commit <= canonical'
    BY <1>1, <1>2
  <2> QED
    BY <1>1, <2>1, <2>2, OthersKeep
<1>5. VersionInv'
  <2>1. row'.version >= row.version
    BY <1>2
  <2> QED
    BY <1>1, <2>1, VersionsStay DEF Flying
<1>6. DoomInv'
  BY <1>1 DEF DoomInv, SomeDoomed, Doomed
<1> QED
  BY <1>3, <1>4, <1>5, <1>6 DEF IInv

\* The CURRENT record is persisted, or the execution answers DEGRADED.
LEMMA PersistCurrentKeeps ==
  ASSUME IInv, NEW w \in Writer, PersistCurrent(w)
  PROVE  IInv'
<1> DEFINE c == writer[w].commit
<1> DEFINE n == NextRecord(writer[w].base, "CURRENT")
<1> DEFINE r == [n EXCEPT !.canonicalVersion = c, !.legacyVersion = c]
<1>1. writer[w].pc = "projected" /\ writer[w].pc \in Flying
  BY DEF PersistCurrent, At, Flying
<1>2. /\ writer[w].base \in Row /\ canonical \in Nat /\ c \in Nat /\ c <= canonical
      /\ row \in Row /\ row.version \in Nat /\ faults \in Nat /\ writer[w].answer = "none"
  BY <1>1, FlightTypes
<1>3. UNCHANGED <<canonical, legacy, crashes>>
  BY DEF PersistCurrent
<1>4. CASE Matches(writer[w].base) /\ row' = r /\ Answer(w, "CURRENT") /\ UNCHANGED <<job, faults>>
  <2>1. n \in Row /\ n.version = writer[w].base.version + 1 /\ n.linked = FALSE
    BY <1>2, NextRecordType DEF RowState
  <2> HIDE DEF n, c
  <2>2. r \in Row
    BY <1>2, <2>1 DEF Row
  <2>3. r.version = n.version /\ r.linked = FALSE
    BY <1>2, <2>1 DEF Row
  <2> HIDE DEF r
  <2>4. row' \in Row /\ row'.version = row.version + 1 /\ row'.linked = FALSE
    BY <1>4, <2>1, <2>2, <2>3 DEF Matches
  <2>5. /\ writer' \in [Writer -> Execution]
        /\ writer'[w].pc = "returned" /\ writer'[w].answer = "CURRENT"
        /\ writer'[w].commit = writer[w].commit
        /\ \A v \in Writer : v # w => writer'[v] = writer[v]
    BY <1>4, AnswerMoves DEF IInv
  <2>6. TypeOK'
    BY <1>3, <1>4, <2>4, <2>5 DEF IInv, TypeOK
  <2>7. AnswerInv' /\ LinkInv'
    <3>1. faults' >= faults /\ faults' \in Nat /\ canonical' \in Nat /\ canonical' >= canonical
          /\ writer'[w].commit <= canonical'
      BY <1>2, <1>3, <1>4, <2>5 DEF c
    <3> QED
      BY <1>4, <2>4, <2>5, <3>1, OthersKeep
  <2>8. VersionInv'
    <3>1. row'.version >= row.version
      BY <1>2, <2>4
    <3> QED
      BY <2>4, <2>5, <3>1, VersionsStay DEF Flying
  <2>9. DoomInv'
    BY <1>1, <1>2, <1>3, <1>4, <2>4, <2>5, AnswerDoom DEF Doomed, Fixes, At
  <2> QED
    BY <2>6, <2>7, <2>8, <2>9 DEF IInv
<1>5. CASE /\ \/ ~Matches(writer[w].base) /\ \E e \in BOOLEAN : Enqueue(faults, e)
              \/ CanFail /\ \E e \in BOOLEAN : Enqueue(faults + 1, e)
           /\ UNCHANGED row
           /\ Answer(w, "DEGRADED")
  <2>1. PICK f \in 0..MaxFaults : f >= faults /\ \E e \in BOOLEAN : Enqueue(f, e)
    BY <1>2, <1>5, BoundsAssumption DEF CanFail, IInv, TypeOK
  <2>2. /\ job' \in {"none", "open"} /\ (job = "open" => job' = "open")
        /\ faults' \in 0..MaxFaults /\ faults' >= f
        /\ job' = "open" \/ faults' > 0
    BY <2>1, EnqueueMoves DEF IInv
  <2>3. faults' >= faults
    BY <1>2, <2>1, <2>2, BoundsAssumption
  <2>4. row'.linked => row'.state = "DEGRADED" /\ job' = "open"
    BY <1>5, <2>2 DEF IInv, LinkInv, LinkedIsDegraded
  <2>5. legacy' \in 0..canonical
    BY <1>3 DEF IInv, TypeOK
  <2> QED
    BY <1>1, <1>2, <1>3, <1>5, <2>2, <2>3, <2>4, <2>5, DegradedAnswer
<1> QED
  BY <1>4, <1>5 DEF PersistCurrent

\* The projection fails: the execution is doomed, and a job is open or a call failed.
LEMMA ProjectFailsKeeps ==
  ASSUME IInv, NEW w \in Writer, ProjectFails(w)
  PROVE  IInv'
<1> DEFINE d == Degraded(w)
<1>1. writer[w].pc = "projecting" /\ writer[w].pc \in Flying
  BY DEF ProjectFails, At, Flying
<1>2. /\ writer[w].base \in Row /\ canonical \in Nat /\ writer[w].commit \in 0..canonical
      /\ writer[w].commit \in Nat
      /\ row \in Row /\ row.version \in Nat /\ faults \in Nat /\ writer[w].answer = "none"
  BY <1>1, FlightTypes
<1>3. UNCHANGED <<canonical, crashes>> /\ legacy' \in 0..canonical
  BY <1>2 DEF ProjectFails, IInv, TypeOK
<1>4. d \in Row /\ d.version = writer[w].base.version + 1 /\ d.state = "DEGRADED" /\ d.linked = FALSE
  BY DegradedType DEF IInv
<1> HIDE DEF d
<1>5. PICK persisted \in BOOLEAN, enqueued \in BOOLEAN, failed \in {faults, faults + 1} :
       /\ \/ persisted /\ Matches(writer[w].base) /\ failed = faults
          \/ ~persisted /\ ~Matches(writer[w].base) /\ failed = faults
          \/ ~persisted /\ CanFail /\ failed = faults + 1
       /\ row' = IF persisted THEN d ELSE row
       /\ Enqueue(failed, enqueued)
       /\ IF persisted /\ enqueued
          THEN Goto(w, "linking", d, writer[w].commit)
          ELSE Answer(w, "DEGRADED")
  BY DEF ProjectFails, d
<1>6. failed \in 0..MaxFaults /\ failed >= faults
  BY <1>2, <1>5, BoundsAssumption DEF CanFail, IInv, TypeOK
<1>7. /\ job' \in {"none", "open"} /\ (job = "open" => job' = "open")
      /\ faults' \in 0..MaxFaults /\ faults' >= failed
      /\ job' = "open" \/ faults' > 0
      /\ enqueued => job' = "open"
  BY <1>5, <1>6, EnqueueMoves DEF IInv
<1>8. faults' >= faults /\ faults' \in Nat
  BY <1>2, <1>6, <1>7, BoundsAssumption
<1>9. /\ row' \in Row /\ (row' = row \/ row'.version = row.version + 1)
      /\ persisted => row' = d /\ row'.version = row.version + 1
  BY <1>2, <1>4, <1>5 DEF Matches
<1>10. row'.linked => row'.state = "DEGRADED" /\ job' = "open"
  BY <1>4, <1>5, <1>7 DEF IInv, LinkInv, LinkedIsDegraded
<1>11. CASE persisted /\ enqueued
  <2>1. /\ writer' \in [Writer -> Execution]
        /\ writer'[w].pc = "linking" /\ writer'[w].answer = "none"
        /\ writer'[w].base = d /\ writer'[w].commit = writer[w].commit
        /\ \A v \in Writer : v # w => writer'[v] = writer[v]
    BY <1>2, <1>4, <1>5, <1>11, GotoMoves DEF IInv, Pc
  <2>2. TypeOK'
    BY <1>3, <1>7, <1>9, <2>1 DEF IInv, TypeOK
  <2>3. AnswerInv' /\ LinkInv'
    <3>1. canonical' \in Nat /\ canonical' >= canonical /\ writer'[w].commit <= canonical'
      BY <1>2, <1>3, <2>1
    <3> QED
      BY <1>4, <1>7, <1>8, <1>10, <1>11, <2>1, <3>1, OthersKeep
  <2>4. VersionInv'
    <3>1. row'.version >= row.version /\ row'.version = row.version + 1
          /\ writer'[w].base.version = row'.version
      BY <1>2, <1>9, <1>11, <2>1
    <3> QED
      BY <1>9, <2>1, <3>1, VersionsStay
  <2>5. DoomInv'
    BY <2>1 DEF DoomInv, SomeDoomed, Doomed, At
  <2> QED
    BY <2>2, <2>3, <2>4, <2>5 DEF IInv
<1>12. CASE ~(persisted /\ enqueued)
  <2>1. Answer(w, "DEGRADED")
    BY <1>5, <1>12
  <2> QED
    BY <1>1, <1>3, <1>7, <1>8, <1>9, <1>10, <2>1, DegradedAnswer
<1> QED
  BY <1>11, <1>12

\* The job's identifier is written to the record it belongs to, or nowhere.
LEMMA LinkKeeps ==
  ASSUME IInv, NEW w \in Writer, Link(w)
  PROVE  IInv'
<1> DEFINE b == writer[w].base
<1> DEFINE v == b.version + 1
<1> DEFINE r == [b EXCEPT !.linked = TRUE, !.version = v]
<1>1. writer[w].pc = "linking" /\ writer[w].pc \in Flying /\ b.state = "DEGRADED" /\ job = "open"
  BY DEF Link, At, Flying, IInv, LinkInv
<1>2. b \in Row /\ b.version \in Nat /\ row.version \in Nat /\ v \in Nat /\ faults \in Nat
  BY <1>1, FlightTypes
<1>3. Answer(w, "DEGRADED") /\ UNCHANGED <<canonical, legacy, job, crashes>>
  BY DEF Link
<1>4. PICK ok \in BOOLEAN : Persist(b, r, ok)
  BY DEF Link
<1> HIDE DEF b, v
<1>5. r \in Row
  BY <1>2 DEF Row
<1>6. r.state = b.state /\ r.version = v
  BY <1>2 DEF Row
<1> HIDE DEF r
<1>7. /\ row' \in Row /\ faults' \in 0..MaxFaults /\ faults' >= faults
      /\ ok => row' = r /\ Matches(b)
      /\ ~ok => row' = row
  BY <1>4, <1>5, PersistMoves DEF IInv
<1>8. row' = row \/ row'.version = row.version + 1
  BY <1>6, <1>7 DEF Matches, v
<1>9. row'.linked => row'.state = "DEGRADED" /\ job' = "open"
  BY <1>1, <1>3, <1>6, <1>7 DEF IInv, LinkInv, LinkedIsDegraded
<1>10. job' \in {"none", "open"} /\ job' = "open" /\ legacy' \in 0..canonical
  BY <1>1, <1>3 DEF IInv, TypeOK
<1> QED
  BY <1>1, <1>3, <1>7, <1>8, <1>9, <1>10, DegradedAnswer

\* The process dies.
LEMMA CrashKeeps ==
  ASSUME IInv, Crash
  PROVE  IInv'
<1>1. /\ crashes < MaxCrashes /\ crashes' = crashes + 1
      /\ UNCHANGED <<canonical, legacy, job, faults>>
  BY DEF Crash
<1>2. crashes \in Nat /\ crashes' # 0 /\ crashes' \in 0..MaxCrashes
  BY <1>1, BoundsAssumption DEF IInv, TypeOK
<1>3. row' \in Row /\ (row'.linked => row'.state = "DEGRADED" /\ job = "open")
  <2>1. CASE UNCHANGED row
    BY <2>1 DEF IInv, TypeOK, LinkInv, LinkedIsDegraded
  <2>2. CASE \E w \in Writer : row' = Degraded(w)
    BY <2>2, DegradedType DEF IInv
  <2> QED
    BY <2>1, <2>2 DEF Crash
<1>4. ASSUME NEW w \in Writer
      PROVE  /\ writer'[w] \in Execution /\ writer'[w].pc \notin Flying
             /\ writer'[w].answer = writer[w].answer /\ writer'[w].commit = writer[w].commit
             /\ writer[w].answer # "none" => writer'[w].pc = "returned"
  <2>1. writer[w] \in Execution
    BY DEF IInv, TypeOK
  <2>2. CASE w \in InFlight
    <3>1. writer'[w] = [writer[w] EXCEPT !.pc = "lost"]
      BY <2>2 DEF Crash
    <3>2. writer[w].answer = "none"
      BY <2>2 DEF IInv, AnswerInv, InFlight
    <3> QED
      BY <2>1, <3>1, <3>2 DEF Execution, Pc, Flying
  <2>3. CASE w \notin InFlight
    <3>1. writer'[w] = writer[w] /\ writer[w].pc \in {"ready", "returned", "lost"}
      BY <2>3 DEF Crash, InFlight
    <3> QED
      BY <2>1, <3>1 DEF IInv, AnswerInv, Flying
  <2> QED
    BY <2>2, <2>3
<1>5. writer' \in [Writer -> Execution]
  BY <1>4 DEF Crash
<1>6. TypeOK'
  BY <1>1, <1>2, <1>3, <1>5 DEF IInv, TypeOK
<1>7. AnswerInv'
  BY <1>1, <1>4 DEF IInv, AnswerInv
<1>8. VersionInv'
  BY <1>4 DEF VersionInv
<1>9. LinkInv'
  BY <1>1, <1>3, <1>4 DEF LinkInv, LinkedIsDegraded, At, Flying
<1>10. DoomInv'
  BY <1>2 DEF DoomInv
<1> QED
  BY <1>6, <1>7, <1>8, <1>9, <1>10 DEF IInv

\* IInv is inductive.
LEMMA NextIInv ==
  ASSUME IInv, [Next]_vars
  PROVE  IInv'
<1>1. CASE \E w \in Writer : WriterStep(w)
  BY <1>1, BeginKeeps, CommitKeeps, CommitFailsKeeps, ProjectKeeps, PersistCurrentKeeps,
    ProjectFailsKeeps, LinkKeeps DEF WriterStep
<1>2. CASE Crash
  BY <1>2, CrashKeeps
<1>3. CASE UNCHANGED vars
  BY <1>3 DEF vars, IInv, TypeOK, AnswerInv, VersionInv, LinkInv, LinkedIsDegraded, DoomInv,
    SomeDoomed, Doomed, Fixes, At, Matches
<1> QED
  BY <1>1, <1>2, <1>3 DEF Next

\* Once an execution is doomed, one is for good, and one is that asked for a job.
LEMMA DoomedForGood ==
  ASSUME IInv, NEW w \in Writer, WriterStep(w)
  PROVE  /\ SomeDoomed => SomeDoomed'
         /\ job' # job => SomeDoomed'
<1> DEFINE base == writer[w].base
<1>1. /\ writer[w] \in Execution /\ base \in Row /\ base.version \in Nat
      /\ row \in Row /\ row.version \in Nat /\ writer[w].commit \in Nat
      /\ writer[w].answer # "none" => writer[w].pc = "returned"
  BY DEF IInv, TypeOK, AnswerInv, Execution, Row
<1>2. IInv'
  BY NextIInv DEF Next
<1>3. row' \in Row /\ writer' \in [Writer -> Execution]
  BY <1>2 DEF IInv, TypeOK
<1>4. \A v \in Writer : v # w => writer'[v] = writer[v]
  BY DEF WriterStep, Begin, Commit, CommitFails, Project, PersistCurrent, ProjectFails, Link,
    Goto, Answer, IInv, TypeOK
<1>5. ASSUME NEW p \in Row, NEW r \in Row, NEW ok, r.version = p.version + 1, Persist(p, r, ok)
      PROVE  row'.version >= row.version
  BY <1>1, <1>5 DEF Persist, Matches, Row
<1>6. /\ row'.version >= row.version
      /\ Doomed(w) => Doomed(w)'
      /\ job' # job => Doomed(w)'
  <2>1. CASE Begin(w)
    BY <2>1, <1>1, <1>5, NextRecordType DEF Begin, Doomed, At, RowState
  <2>2. CASE Commit(w) \/ Project(w)
    <3>1. UNCHANGED <<row, job>>
      BY <2>2 DEF Commit, Project
    <3>2. CASE Commit(w)
      BY <1>1, <3>1, <3>2 DEF Commit, Doomed, At
    <3>3. CASE Project(w)
      <4>1. writer'[w].pc = "projected" /\ writer'[w].base = base /\ writer[w].pc = "projecting"
        BY <1>1, <3>3 DEF Project, At, Goto, IInv, TypeOK
      <4> QED
        BY <1>1, <3>1, <4>1 DEF Doomed, At, Matches
    <3> QED
      BY <2>2, <3>2, <3>3
  <2>3. CASE CommitFails(w)
    BY <2>3, <1>1, <1>5, NextRecordType DEF CommitFails, Doomed, At, RowState
  <2>4. CASE PersistCurrent(w)
    <3>1. writer[w].pc = "projected" /\ writer[w].answer = "none"
      BY <1>1, <2>4 DEF PersistCurrent, At
    <3>2. CASE Answer(w, "DEGRADED") /\ UNCHANGED row
      <4>1. writer'[w].answer = "DEGRADED"
        BY <3>2, AnswerMoves DEF IInv
      <4> QED
        BY <1>1, <3>2, <4>1 DEF Doomed
    <3>3. CASE /\ Matches(base) /\ UNCHANGED job
               /\ row' = [NextRecord(base, "CURRENT") EXCEPT
                            !.canonicalVersion = writer[w].commit,
                            !.legacyVersion = writer[w].commit]
      <4> DEFINE n == NextRecord(base, "CURRENT")
      <4>1. n \in Row /\ n.version = base.version + 1
        BY <1>1, NextRecordType DEF RowState
      <4>2. row' = [n EXCEPT !.canonicalVersion = writer[w].commit,
                             !.legacyVersion = writer[w].commit]
        BY <3>3
      <4> HIDE DEF n
      <4>3. row'.version = base.version + 1
        BY <4>1, <4>2 DEF Row
      <4> QED
        BY <1>1, <3>1, <3>3, <4>3 DEF Doomed, At, Matches
    <3> QED
      BY <2>4, <3>2, <3>3 DEF PersistCurrent
  <2>5. CASE ProjectFails(w)
    <3>1. writer[w].pc = "projecting" /\ writer[w].answer = "none"
      BY <1>1, <2>5 DEF ProjectFails, At
    <3>2. PICK persisted \in BOOLEAN :
            /\ persisted => Matches(base) /\ row' = Degraded(w)
            /\ ~persisted => row' = row
            /\ \/ Goto(w, "linking", Degraded(w), writer[w].commit)
               \/ Answer(w, "DEGRADED")
      BY <2>5 DEF ProjectFails
    <3>3. row'.version >= row.version
      <4>1. Degraded(w).version = base.version + 1
        BY DegradedType DEF IInv
      <4>2. CASE persisted
        BY <1>1, <3>2, <4>1, <4>2 DEF Matches
      <4>3. CASE ~persisted
        BY <1>1, <3>2, <4>3
      <4> QED
        BY <4>2, <4>3
    <3>4. writer'[w].pc = "linking" \/ writer'[w].answer = "DEGRADED"
      BY <3>2, AnswerMoves DEF Goto, IInv, TypeOK
    <3> QED
      BY <3>3, <3>4 DEF Doomed, At
  <2>6. CASE Link(w)
    <3>1. writer'[w].answer = "DEGRADED"
      BY <2>6, AnswerMoves DEF Link, IInv
    <3>2. row'.version >= row.version
      <4> DEFINE n == base.version + 1
                 linked == [base EXCEPT !.linked = TRUE, !.version = n]
      <4>1. n \in Nat
        BY <1>1
      <4>2. \E ok \in BOOLEAN : Persist(base, linked, ok)
        BY <2>6 DEF Link
      <4>3. linked.version = n
        BY <1>1 DEF Row
      <4> HIDE DEF n
      <4>4. linked \in Row
        BY <1>1, <4>1 DEF Row
      <4> HIDE DEF linked
      <4> QED
        BY <1>1, <1>5, <4>2, <4>3, <4>4 DEF n
    <3> QED
      BY <3>1, <3>2 DEF Doomed
  <2> QED
    BY <2>1, <2>2, <2>3, <2>4, <2>5, <2>6 DEF WriterStep
<1>7. SomeDoomed => SomeDoomed'
  BY <1>3, <1>4, <1>6, DoomStays
<1> QED
  BY <1>6, <1>7 DEF SomeDoomed
----------------------------------------------------------------------------
(* Theorems *)

\* The inductive invariant holds however executions overlap, fail and crash.
THEOREM Invariance == Spec => []IInv
<1>1. IInv /\ [Next]_vars => IInv'
  BY NextIInv
<1> QED
  BY <1>1, InitIInv, PTL DEF Spec

\* Every variable keeps its type.
THEOREM TypeCorrect == Spec => []TypeOK
<1>1. IInv => TypeOK
  BY DEF IInv
<1> QED
  BY <1>1, Invariance, PTL

\* The late link of a job never decorates the record of another execution.
THEOREM LinksAreDegraded == Spec => []LinkedIsDegraded
<1>1. IInv => LinkedIsDegraded
  BY DEF IInv, LinkInv
<1> QED
  BY <1>1, Invariance, PTL

\* When everything has settled and the stores differ, somebody was told so.
THEOREM NoDivergenceIsSilent == Spec => []NoSilentDivergence
<1>1. IInv => NoSilentDivergence
  <2> SUFFICES ASSUME IInv, Settled, canonical # legacy, crashes = 0
               PROVE  \E w \in Writer : writer[w].answer = "DEGRADED"
    BY DEF NoSilentDivergence, Diverged
  <2>1. \A w \in Writer : writer[w].pc \in {"ready", "returned", "lost"}
    BY DEF Settled, InFlight
  <2>2. PICK w \in Writer : Doomed(w)
    BY <2>1 DEF IInv, DoomInv, Fixes, At, SomeDoomed
  <2> QED
    BY <2>1, <2>2 DEF Doomed, At
<1> QED
  BY <1>1, Invariance, PTL

\* With working storage the divergence has an open job as well.
THEOREM DivergencesAreRequested == Spec => []DivergenceIsRequested
<1>1. IInv /\ NoSilentDivergence => DivergenceIsRequested
  BY DEF IInv, AnswerInv, NoSilentDivergence, DivergenceIsRequested
<1> QED
  BY <1>1, Invariance, NoDivergenceIsSilent, PTL
----------------------------------------------------------------------------
(* Executions one at a time *)

\* The commit of an execution that goes on to project, or has projected, is the last.
LastCommit(w) ==
  /\ At(w, "projecting") => writer[w].commit = canonical
  /\ At(w, "projected") => writer[w].commit = canonical /\ legacy = canonical

\* While an execution is in flight no record is CURRENT, and its commit is the last.
AloneInv ==
  /\ \A v, w \in InFlight : v = w
  /\ \A w \in InFlight : row.state # "CURRENT" /\ LastCommit(w)
  /\ CurrentIsExact

SerialInv == serial => AloneInv

\* Nothing is in flight at first.
LEMMA InitSerialInv == Init => SerialInv
  BY DEF Init, SerialInv, AloneInv, InFlight, CurrentIsExact, Settled, NoRow

\* What every step of one execution has in common: it is alone before and after,
\* so the other executions are not in flight.
LEMMA AloneStep ==
  ASSUME IInv, AloneInv, NEW w \in Writer, writer' \in [Writer -> Execution],
         \A v \in Writer : v # w => writer'[v] = writer[v],
         \A u, v \in InFlight' : u = v,
         w \in InFlight \/ w \in InFlight',
         w \in InFlight' => row'.state # "CURRENT" /\ LastCommit(w)',
         w \notin InFlight' => CurrentIsExact'
  PROVE  AloneInv'
<1>1. \A v \in InFlight' : v = w
  BY DEF AloneInv, InFlight
<1>2. w \in InFlight' => CurrentIsExact'
  BY DEF CurrentIsExact, Settled
<1> QED
  BY <1>1, <1>2 DEF AloneInv

\* The row a record that is persisted, or not, leaves is not CURRENT if neither was.
LEMMA RowStaysUnclaimed ==
  ASSUME TypeOK, NEW b, NEW r \in Row, NEW ok \in BOOLEAN, Persist(b, r, ok),
         r.state # "CURRENT", row.state # "CURRENT"
  PROVE  row'.state # "CURRENT"
  BY PersistMoves

\* execute() begins with a PENDING record, or nothing happens.
LEMMA BeginAlone ==
  ASSUME IInv, AloneInv, NEW w \in Writer, Begin(w), \A u, v \in InFlight' : u = v
  PROVE  AloneInv'
<1> DEFINE r == NextRecord(row, "PENDING")
<1>1. TypeOK /\ row \in Row /\ w \notin InFlight
  BY DEF IInv, TypeOK, Begin, At, InFlight
<1>2. r \in Row /\ r.state = "PENDING"
  BY <1>1, NextRecordType DEF RowState
<1>3. PICK ok \in BOOLEAN : /\ Persist(row, r, ok)
                            /\ IF ok THEN Goto(w, "committing", r, 0) ELSE Answer(w, "FAILED")
  BY DEF Begin
<1>4. UNCHANGED <<canonical, legacy>>
  BY DEF Begin
<1> HIDE DEF r
<1>5. (ok => row' = r) /\ (~ok => row' = row)
  BY <1>1, <1>2, <1>3, PersistMoves
<1>6. CASE ok
  <2>1. /\ writer' \in [Writer -> Execution] /\ writer'[w].pc = "committing"
        /\ \A v \in Writer : v # w => writer'[v] = writer[v]
    BY <1>1, <1>2, <1>3, <1>6, GotoMoves DEF Pc
  <2>2. w \in InFlight' /\ LastCommit(w)' /\ row'.state # "CURRENT"
    BY <1>2, <1>5, <1>6, <2>1 DEF InFlight, LastCommit, At
  <2> QED
    BY <2>1, <2>2, AloneStep
<1>7. CASE ~ok
  <2>1. /\ writer' \in [Writer -> Execution] /\ writer'[w].pc = "returned"
        /\ \A v \in Writer : v # w => writer'[v] = writer[v]
    BY <1>1, <1>3, <1>7, AnswerMoves
  <2>2. InFlight' = InFlight
    BY <1>1, <2>1 DEF InFlight
  <2>3. CurrentIsExact'
    BY <1>4, <1>5, <1>7, <2>2 DEF AloneInv, CurrentIsExact, Settled
  <2>4. \A v \in InFlight : v # w /\ writer'[v] = writer[v]
    BY <1>1, <2>1 DEF InFlight
  <2>5. \A v \in InFlight' : row'.state # "CURRENT" /\ LastCommit(v)'
    BY <1>4, <1>5, <1>7, <2>2, <2>4 DEF AloneInv, LastCommit, At
  <2> QED
    BY <2>3, <2>5 DEF AloneInv
<1> QED
  BY <1>6, <1>7

\* What an execution in flight finds while it is alone.
LEMMA AloneInFlight ==
  ASSUME IInv, AloneInv, NEW w \in Writer, writer[w].pc \in Flying
  PROVE  /\ w \in InFlight /\ row.state # "CURRENT" /\ LastCommit(w) /\ TypeOK /\ row \in Row
         /\ writer[w].base \in Row /\ writer[w].commit \in Nat /\ canonical \in Nat
  BY FlightTypes DEF IInv, AloneInv, InFlight, Flying

\* An execution that ends without a CURRENT record leaves none.
LEMMA EndAlone ==
  ASSUME IInv, AloneInv, NEW w \in Writer, writer[w].pc \in Flying,
         NEW s \in {"CURRENT", "DEGRADED", "FAILED"}, Answer(w, s), \A u, v \in InFlight' : u = v,
         CurrentIsExact' \/ row'.state # "CURRENT"
  PROVE  AloneInv'
<1>1. w \in InFlight
  BY AloneInFlight
<1>2. /\ writer' \in [Writer -> Execution] /\ writer'[w].pc = "returned"
      /\ \A v \in Writer : v # w => writer'[v] = writer[v]
  BY AnswerMoves DEF IInv
<1>3. w \notin InFlight' /\ CurrentIsExact'
  BY <1>2 DEF InFlight, CurrentIsExact
<1> QED
  BY <1>1, <1>2, <1>3, AloneStep

\* The commit of the execution is the last one.
LEMMA CommitAlone ==
  ASSUME IInv, AloneInv, NEW w \in Writer, Commit(w), \A u, v \in InFlight' : u = v
  PROVE  AloneInv'
<1> DEFINE c == canonical + 1
<1>1. writer[w].pc \in Flying
  BY DEF Commit, At, Flying
<1>2. w \in InFlight /\ row.state # "CURRENT" /\ writer[w].base \in Row /\ c \in Nat /\ TypeOK
  BY <1>1, AloneInFlight
<1>3. Goto(w, "projecting", writer[w].base, c) /\ canonical' = c /\ row' = row
  BY DEF Commit
<1> HIDE DEF c
<1>4. /\ writer' \in [Writer -> Execution] /\ writer'[w].pc = "projecting" /\ writer'[w].commit = c
      /\ \A v \in Writer : v # w => writer'[v] = writer[v]
  BY <1>2, <1>3, GotoMoves DEF Pc
<1>5. w \in InFlight' /\ row'.state # "CURRENT" /\ LastCommit(w)'
  BY <1>2, <1>3, <1>4 DEF InFlight, LastCommit, At
<1> QED
  BY <1>4, <1>5, AloneStep

\* A rejected command leaves a FAILED record, or the PENDING one.
LEMMA CommitFailsAlone ==
  ASSUME IInv, AloneInv, NEW w \in Writer, CommitFails(w), \A u, v \in InFlight' : u = v
  PROVE  AloneInv'
<1> DEFINE r == NextRecord(writer[w].base, "FAILED")
<1>1. writer[w].pc \in Flying
  BY DEF CommitFails, At, Flying
<1>2. row.state # "CURRENT" /\ TypeOK /\ r \in Row /\ r.state = "FAILED"
  BY <1>1, AloneInFlight, NextRecordType DEF RowState
<1>3. PICK ok \in BOOLEAN : Persist(writer[w].base, r, ok)
  BY DEF CommitFails
<1>4. Answer(w, "FAILED")
  BY DEF CommitFails
<1> HIDE DEF r
<1>5. row'.state # "CURRENT"
  BY <1>2, <1>3, RowStaysUnclaimed
<1> QED
  BY <1>1, <1>4, <1>5, EndAlone

\* The last commit is projected.
LEMMA ProjectAlone ==
  ASSUME IInv, AloneInv, NEW w \in Writer, Project(w), \A u, v \in InFlight' : u = v
  PROVE  AloneInv'
<1>1. writer[w].pc \in Flying /\ At(w, "projecting")
  BY DEF Project, At, Flying
<1>2. /\ w \in InFlight /\ row.state # "CURRENT" /\ writer[w].base \in Row /\ writer[w].commit \in Nat
      /\ TypeOK /\ writer[w].commit = canonical
  BY <1>1, AloneInFlight DEF LastCommit
<1>3. /\ Goto(w, "projected", writer[w].base, writer[w].commit)
      /\ legacy' = writer[w].commit /\ row' = row /\ canonical' = canonical
  BY DEF Project
<1>4. /\ writer' \in [Writer -> Execution] /\ writer'[w].pc = "projected"
      /\ writer'[w].commit = writer[w].commit
      /\ \A v \in Writer : v # w => writer'[v] = writer[v]
  BY <1>2, <1>3, GotoMoves DEF Pc
<1>5. w \in InFlight' /\ row'.state # "CURRENT" /\ LastCommit(w)'
  BY <1>2, <1>3, <1>4 DEF InFlight, LastCommit, At
<1> QED
  BY <1>4, <1>5, AloneStep

\* The CURRENT record names the versions both stores have.
LEMMA PersistCurrentAlone ==
  ASSUME IInv, AloneInv, NEW w \in Writer, PersistCurrent(w), \A u, v \in InFlight' : u = v
  PROVE  AloneInv'
<1> DEFINE n == NextRecord(writer[w].base, "CURRENT")
           r == [n EXCEPT !.canonicalVersion = writer[w].commit, !.legacyVersion = writer[w].commit]
<1>1. writer[w].pc \in Flying /\ At(w, "projected") /\ UNCHANGED <<canonical, legacy>>
  BY DEF PersistCurrent, At, Flying
<1>2. /\ row.state # "CURRENT" /\ writer[w].base \in Row
      /\ writer[w].commit = canonical /\ legacy = canonical
  BY <1>1, AloneInFlight DEF LastCommit
<1>3. n \in Row
  BY <1>2, NextRecordType DEF RowState
<1>4. \/ row' = r /\ Answer(w, "CURRENT")
      \/ row' = row /\ Answer(w, "DEGRADED")
  BY DEF PersistCurrent
<1> HIDE DEF n
<1>5. r.canonicalVersion = writer[w].commit /\ r.legacyVersion = writer[w].commit
  BY <1>3 DEF Row
<1> HIDE DEF r
<1>6. CurrentIsExact' \/ row'.state # "CURRENT"
  BY <1>1, <1>2, <1>4, <1>5 DEF CurrentIsExact
<1> QED
  BY <1>1, <1>4, <1>6, EndAlone

\* A failed projection leaves a DEGRADED record, or the PENDING one.
LEMMA ProjectFailsAlone ==
  ASSUME IInv, AloneInv, NEW w \in Writer, ProjectFails(w), \A u, v \in InFlight' : u = v
  PROVE  AloneInv'
<1>1. writer[w].pc \in Flying
  BY DEF ProjectFails, At, Flying
<1>2. /\ w \in InFlight /\ row.state # "CURRENT" /\ TypeOK /\ writer[w].commit \in Nat
      /\ Degraded(w) \in Row /\ Degraded(w).state = "DEGRADED"
  BY <1>1, AloneInFlight, DegradedType
<1>3. row' = Degraded(w) \/ row' = row
  BY DEF ProjectFails
<1>4. \/ Goto(w, "linking", Degraded(w), writer[w].commit)
      \/ Answer(w, "DEGRADED")
  BY DEF ProjectFails
<1>5. row'.state # "CURRENT"
  BY <1>2, <1>3
<1>6. CASE Goto(w, "linking", Degraded(w), writer[w].commit)
  <2>1. /\ writer' \in [Writer -> Execution] /\ writer'[w].pc = "linking"
        /\ \A v \in Writer : v # w => writer'[v] = writer[v]
    BY <1>2, <1>6, GotoMoves DEF Pc
  <2>2. w \in InFlight' /\ LastCommit(w)'
    BY <2>1 DEF InFlight, LastCommit, At
  <2> QED
    BY <1>2, <1>5, <2>1, <2>2, AloneStep
<1> QED
  BY <1>1, <1>4, <1>5, <1>6, EndAlone

\* The link decorates a DEGRADED record.
LEMMA LinkAlone ==
  ASSUME IInv, AloneInv, NEW w \in Writer, Link(w), \A u, v \in InFlight' : u = v
  PROVE  AloneInv'
<1> DEFINE b == writer[w].base
           v1 == b.version + 1
           r == [b EXCEPT !.linked = TRUE, !.version = v1]
<1>1. writer[w].pc \in Flying /\ At(w, "linking") /\ Answer(w, "DEGRADED")
  BY DEF Link, At, Flying
<1>2. row.state # "CURRENT" /\ TypeOK /\ b \in Row /\ b.state = "DEGRADED" /\ v1 \in Nat
  BY <1>1, AloneInFlight DEF IInv, LinkInv, Row
<1>3. PICK ok \in BOOLEAN : Persist(b, r, ok)
  BY DEF Link
<1> HIDE DEF b, v1
<1>4. r \in Row /\ r.state = "DEGRADED"
  BY <1>2 DEF Row
<1> HIDE DEF r
<1>5. row'.state # "CURRENT"
  BY <1>2, <1>3, <1>4, RowStaysUnclaimed
<1> QED
  BY <1>1, <1>5, EndAlone

\* A crash loses the execution: the row keeps what it said, or says DEGRADED.
LEMMA CrashAlone ==
  ASSUME IInv, AloneInv, Crash
  PROVE  AloneInv'
<1>1. InFlight' = {}
  <2> SUFFICES ASSUME NEW w \in Writer PROVE writer'[w].pc \in {"ready", "returned", "lost"}
    BY DEF InFlight
  <2>1. writer[w] \in Execution
    BY DEF IInv, TypeOK
  <2>2. CASE w \in InFlight
    BY <2>1, <2>2 DEF Crash, Execution
  <2>3. CASE w \notin InFlight
    BY <2>3 DEF Crash, InFlight
  <2> QED
    BY <2>2, <2>3
<1>2. UNCHANGED <<canonical, legacy>>
  BY DEF Crash
<1>3. row' = row \/ row'.state = "DEGRADED"
  BY DegradedType DEF Crash, IInv
<1>4. row'.state = "CURRENT" => row' = row /\ Settled
  BY <1>3 DEF AloneInv, Settled, Crash, At, InFlight
<1>5. CurrentIsExact'
  BY <1>2, <1>4 DEF AloneInv, CurrentIsExact
<1> QED
  BY <1>1, <1>5 DEF AloneInv

MixedNext == Next /\ Bounded /\ UNCHANGED serial

\* Executions that run one at a time keep the invariant.
LEMMA NextSerialInv ==
  ASSUME IInv, SerialInv, [MixedNext]_<<vars, serial>>
  PROVE  SerialInv'
<1> SUFFICES ASSUME serial' PROVE AloneInv'
  BY DEF SerialInv
<1>1. CASE MixedNext
  <2>1. serial /\ AloneInv /\ \A u, v \in InFlight' : u = v
    BY <1>1 DEF MixedNext, Bounded, SerialInv
  <2>2. ASSUME NEW w \in Writer, WriterStep(w) PROVE AloneInv'
    BY <2>1, <2>2, BeginAlone, CommitAlone, CommitFailsAlone, ProjectAlone, PersistCurrentAlone,
      ProjectFailsAlone, LinkAlone DEF WriterStep
  <2> QED
    BY <1>1, <2>1, <2>2, CrashAlone DEF MixedNext, Next
<1>2. CASE UNCHANGED <<vars, serial>>
  BY <1>2 DEF vars, SerialInv, AloneInv, InFlight, LastCommit, At, CurrentIsExact, Settled
<1> QED
  BY <1>1, <1>2

\* A behaviour that lets executions overlap, or runs them one at a time, is one
\* of CompatibilityWrite: what is proved above holds of both.
THEOREM MixedIsSpec == MixedSpec => Spec
<1>1. [Next /\ Bounded /\ UNCHANGED serial]_<<vars, serial>> => [Next]_vars
  BY DEF vars
<1> QED
  BY <1>1, PTL DEF MixedSpec, Spec

\* While executions run one at a time, a CURRENT record is the truth about both
\* stores, through any number of failing storage calls and of crashes.
THEOREM CurrentIsTheTruth == MixedSpec => []SerialCurrentIsExact
<1>1. MixedSpec => []IInv
  BY MixedIsSpec, Invariance, PTL
<1>2. IInv /\ SerialInv /\ [Next /\ Bounded /\ UNCHANGED serial]_<<vars, serial>> => SerialInv'
  BY NextSerialInv DEF MixedNext
<1>3. SerialInv => SerialCurrentIsExact
  BY DEF SerialInv, AloneInv, SerialCurrentIsExact
<1> QED
  BY <1>1, <1>2, <1>3, InitSerialInv, PTL DEF MixedSpec
=============================================================================
