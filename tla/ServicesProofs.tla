--------------------------- MODULE ServicesProofs ---------------------------
(***************************************************************************)
(* Proofs about the services that MCServices puts side by side: the scan   *)
(* coordinator for every set of entities, the guide for every set of       *)
(* channels and calls, an on-demand channel for every duration and number  *)
(* of events, and what the behaviours of the run inherit from them and     *)
(* from the worker pool.                                                   *)
(***************************************************************************)
EXTENDS MCServices, SequenceTheorems, TLAPS

-----------------------------------------------------------------------------
(***************************************************************************)
(* The scans.  LocksAreScans is inductive: what the three callbacks of a   *)
(* job give back is given back together, and a job that ends passes the    *)
(* turn on.  The lemmas say what the steps do to the set of the entities   *)
(* in the queue.                                                           *)
(***************************************************************************)
ScanInv == C!TypeOK /\ LocksAreScans

\* Nothing is locked, queued or running at first.
LEMMA InitScanInv == C!Init => ScanInv
BY DEF C!Init, ScanInv, C!TypeOK, LocksAreScans, Queued, Active, ToSet, IsInjective

-----------------------------------------------------------------------------
\* A scan that is not queued yet can be appended to the queue.
LEMMA AppendScan ==
  ASSUME NEW s \in Seq(Entity), IsInjective(s), NEW e \in Entity, e \notin ToSet(s)
  PROVE  /\ Append(s, e) \in Seq(Entity)
         /\ IsInjective(Append(s, e))
         /\ ToSet(Append(s, e)) = ToSet(s) \cup {e}
BY DEF IsInjective, ToSet

\* The first of the queue leaves it.
LEMMA TailScan ==
  ASSUME NEW s \in Seq(Entity), s # <<>>, IsInjective(s)
  PROVE  /\ Head(s) \in ToSet(s) /\ Head(s) \in Entity
         /\ Tail(s) \in Seq(Entity)
         /\ IsInjective(Tail(s))
         /\ ToSet(Tail(s)) = ToSet(s) \ {Head(s)}
<1> DEFINE n == Len(s)
<1>1. /\ n \in Nat \ {0} /\ DOMAIN s = 1..n
      /\ \A i \in 1..n : s[i] \in Entity
      /\ Head(s) = s[1]
  BY EmptySeq, HeadTailProperties
<1>2. /\ Tail(s) \in Seq(Entity) /\ Len(Tail(s)) = n - 1
      /\ \A i \in 1..Len(Tail(s)) : Tail(s)[i] = s[i + 1]
  BY HeadTailProperties
<1>3. DOMAIN Tail(s) = 1..n - 1 /\ \A i \in 1..n - 1 : Tail(s)[i] = s[i + 1] /\ i + 1 \in 1..n
  BY <1>1, <1>2
<1>4. \A i, j \in 1..n : s[i] = s[j] => i = j
  BY <1>1 DEF IsInjective
<1> HIDE DEF n
<1>5. Head(s) \in ToSet(s) /\ Head(s) \in Entity
  BY <1>1 DEF ToSet
<1>6. IsInjective(Tail(s))
  <2> SUFFICES ASSUME NEW i \in 1..n - 1, NEW j \in 1..n - 1, Tail(s)[i] = Tail(s)[j]
               PROVE  i = j
    BY <1>3 DEF IsInjective
  <2>1. i + 1 = j + 1
    BY <1>3, <1>4
  <2> QED BY <1>1, <2>1
<1>7. ToSet(Tail(s)) \subseteq ToSet(s) \ {Head(s)}
  <2> SUFFICES ASSUME NEW i \in 1..n - 1
               PROVE  Tail(s)[i] \in ToSet(s) /\ Tail(s)[i] # Head(s)
    BY <1>3 DEF ToSet
  <2>1. i + 1 # 1 /\ 1 \in 1..n
    BY <1>1
  <2> QED BY <1>1, <1>3, <1>4, <2>1 DEF ToSet
<1>8. ToSet(s) \ {Head(s)} \subseteq ToSet(Tail(s))
  <2> SUFFICES ASSUME NEW i \in 1..n, s[i] # Head(s) PROVE s[i] \in ToSet(Tail(s))
    BY <1>1 DEF ToSet
  <2>1. i - 1 \in 1..n - 1 /\ (i - 1) + 1 = i
    BY <1>1
  <2>2. Tail(s)[i - 1] = s[i]
    BY <1>3, <2>1
  <2> QED BY <1>3, <2>1, <2>2 DEF ToSet
<1> QED BY <1>2, <1>5, <1>6, <1>7, <1>8

-----------------------------------------------------------------------------
\* The scan that runs is the only one.
LEMMA RunningScan ==
  ASSUME ScanInv, NEW e \in Entity, NEW phase \in C!Phase, <<e, phase>> \in running
  PROVE  running = {<<e, phase>>} /\ Active = {e} /\ e \notin Queued
<1>1. running = {<<e, phase>>}
  BY DEF ScanInv, LocksAreScans
<1>2. Active = {e}
  BY <1>1 DEF Active
<1> QED BY <1>1, <1>2 DEF ScanInv, LocksAreScans

\* A job ends: its entity leaves the locks, the controllers and the active scans together.
LEMMA EndKeepsInv ==
  ASSUME ScanInv, NEW e \in Entity, NEW phase \in C!Phase, <<e, phase>> \in running,
         NEW scanner \in {"idle", "running", "canceled"}, C!End(e, scanner)
  PROVE  ScanInv'
<1>1. Active = {e} /\ e \notin Queued
  BY RunningScan
<1>2. signal = Queued \cup {e} /\ locked \ Unscannable = signal /\ aborted \subseteq signal
  BY <1>1 DEF ScanInv, LocksAreScans
<1>3. signal' = Queued /\ aborted' \subseteq signal' /\ locked' \ Unscannable = signal'
  BY <1>1, <1>2 DEF C!End
<1>4. signal' \in SUBSET Entity /\ aborted' \in SUBSET Entity /\ locked' \in SUBSET Entity
  BY DEF C!End, ScanInv, C!TypeOK
<1>5. CASE queue # <<>>
  <2> DEFINE h == Head(queue)
  <2>1. /\ queue \in Seq(Entity) /\ IsInjective(queue)
    BY DEF ScanInv, C!TypeOK, LocksAreScans
  <2>2. /\ h \in Queued /\ h \in Entity
        /\ Tail(queue) \in Seq(Entity) /\ IsInjective(Tail(queue))
        /\ ToSet(Tail(queue)) = Queued \ {h}
    BY <1>5, <2>1, TailScan DEF Queued
  <2>3. /\ running' = {<<h, "scan">>} /\ queue' = Tail(queue)
        /\ state' = [state EXCEPT ![e] = scanner, ![h] = "running"]
    BY <1>5 DEF C!End
  <2> HIDE DEF h
  <2>4. Active' = {h} /\ Queued' = Queued \ {h}
    BY <2>2, <2>3 DEF Active, Queued
  <2>5. C!TypeOK'
    <3>1. state' \in [Entity -> {"idle", "running", "canceled"}]
      BY <2>2, <2>3 DEF ScanInv, C!TypeOK
    <3>2. queue' \in Seq(Entity)
      BY <2>2, <2>3
    <3>3. running' \in SUBSET (Entity \X C!Phase)
      BY <2>2, <2>3 DEF C!Phase
    <3> QED BY <1>4, <3>1, <3>2, <3>3 DEF C!TypeOK
  <2>6. LocksAreScans'
    BY <1>3, <2>2, <2>3, <2>4 DEF LocksAreScans
  <2> QED BY <2>5, <2>6 DEF ScanInv
<1>6. CASE queue = <<>>
  <2>1. /\ running' = {} /\ queue' = <<>>
        /\ state' = [state EXCEPT ![e] = scanner]
    BY <1>6 DEF C!End
  <2>2. Active' = {} /\ Queued' = Queued /\ Queued = {}
    BY <1>6, <2>1 DEF Active, Queued, ToSet
  <2>3. C!TypeOK'
    BY <1>4, <1>6, <2>1 DEF ScanInv, C!TypeOK
  <2>4. LocksAreScans'
    BY <1>3, <1>6, <2>1, <2>2 DEF ScanInv, LocksAreScans
  <2> QED BY <2>3, <2>4 DEF ScanInv
<1> QED BY <1>5, <1>6

\* A scan is added: it runs if no other does, and is the last of the queue otherwise.
LEMMA AddKeepsInv ==
  ASSUME ScanInv, NEW e \in Entity, C!Add(e)
  PROVE  ScanInv'
<1>1. /\ e \notin Queued /\ e \notin Active /\ e \notin Unscannable
      /\ locked' = locked \cup {e} /\ signal' = signal \cup {e} /\ aborted' = aborted
  BY DEF C!Add, ScanInv, LocksAreScans
<1>2. /\ aborted' \subseteq signal' /\ locked' \ Unscannable = signal'
      /\ signal' = Queued \cup Active \cup {e}
      /\ signal' \in SUBSET Entity /\ aborted' \in SUBSET Entity /\ locked' \in SUBSET Entity
  BY <1>1 DEF ScanInv, LocksAreScans, C!TypeOK
<1>3. CASE running = {}
  <2>1. /\ running' = {<<e, "scan">>} /\ queue' = queue
        /\ state' = [state EXCEPT ![e] = "running"]
    BY <1>3 DEF C!Add, C!Begin
  <2>2. Active' = {e} /\ Queued' = Queued /\ Active = {}
    BY <1>3, <2>1 DEF Active, Queued
  <2>3. C!TypeOK'
    BY <1>2, <2>1 DEF ScanInv, C!TypeOK, C!Phase
  <2>4. LocksAreScans'
    BY <1>1, <1>2, <2>1, <2>2 DEF ScanInv, LocksAreScans
  <2> QED BY <2>3, <2>4 DEF ScanInv
<1>4. CASE running # {}
  <2>1. running' = running /\ state' = state /\ queue' = Append(queue, e)
    BY <1>4 DEF C!Add
  <2>2. /\ queue' \in Seq(Entity) /\ IsInjective(queue')
        /\ Queued' = Queued \cup {e}
    BY <1>1, <2>1, AppendScan DEF ScanInv, C!TypeOK, LocksAreScans, Queued
  <2>3. Active' = Active
    BY <2>1 DEF Active
  <2>4. C!TypeOK'
    BY <1>2, <2>1, <2>2 DEF ScanInv, C!TypeOK
  <2>5. LocksAreScans'
    BY <1>1, <1>2, <1>4, <2>1, <2>2, <2>3 DEF ScanInv, LocksAreScans
  <2> QED BY <2>4, <2>5 DEF ScanInv
<1> QED BY <1>3, <1>4

\* ScanInv is inductive.
LEMMA NextScanInv == ScanInv /\ [C!Next]_C!vars => ScanInv'
<1> SUFFICES ASSUME ScanInv, [C!Next]_C!vars PROVE ScanInv'
  OBVIOUS
<1>1. CASE UNCHANGED C!vars
  BY <1>1 DEF C!vars, ScanInv, C!TypeOK, LocksAreScans, Queued, Active
<1>2. ASSUME NEW e \in Entity, C!AddUnscannable(e) PROVE ScanInv'
  BY <1>2 DEF C!AddUnscannable, ScanInv, C!TypeOK, LocksAreScans, Queued, Active
<1>3. ASSUME NEW e \in Entity, C!Add(e) PROVE ScanInv'
  BY <1>3, AddKeepsInv
<1>4. \A e \in Entity : state[e] \in {"idle", "running", "canceled"}
  BY DEF ScanInv, C!TypeOK
<1>5. ASSUME NEW e \in Entity, C!Fail(e) PROVE ScanInv'
  BY <1>4, <1>5, EndKeepsInv DEF C!Fail, C!Phase
<1>6. ASSUME NEW e \in Entity, C!Scanned(e) PROVE ScanInv'
  <2>1. <<e, "scan">> \in running
    BY <1>6 DEF C!Scanned
  <2>2. ASSUME NEW scanner \in {"idle", "running", "canceled"}, C!End(e, scanner) PROVE ScanInv'
    BY <2>1, <2>2, EndKeepsInv DEF C!Phase
  <2>3. CASE /\ running' = {<<e, "collections">>} /\ state' = [state EXCEPT ![e] = "idle"]
             /\ UNCHANGED <<locked, queue, signal, aborted>>
    <3>1. Active = {e} /\ Active' = {e} /\ Queued' = Queued
      BY <2>1, <2>3, RunningScan DEF Active, Queued, C!Phase
    <3>2. C!TypeOK'
      BY <2>3 DEF ScanInv, C!TypeOK, C!Phase
    <3>3. LocksAreScans'
      BY <2>1, <2>3, <3>1 DEF ScanInv, LocksAreScans
    <3> QED BY <3>2, <3>3 DEF ScanInv
  <2> QED BY <1>4, <1>6, <2>2, <2>3 DEF C!Scanned
<1>7. ASSUME NEW e \in Entity, C!Collected(e) PROVE ScanInv'
  BY <1>4, <1>7, EndKeepsInv DEF C!Collected, C!Phase
<1>8. CASE C!CancelAll
  <2>1. state' \in [Entity -> {"idle", "running", "canceled"}]
    BY <1>4, <1>8 DEF C!CancelAll
  <2> QED BY <1>8, <2>1 DEF C!CancelAll, ScanInv, C!TypeOK, LocksAreScans, Queued, Active
<1> QED BY <1>1, <1>2, <1>3, <1>5, <1>6, <1>7, <1>8 DEF C!Next

\* The scans keep their types and their locks, whatever is added, fails, ends or is canceled.
THEOREM ScansKeepInv == C!Spec => []ScanInv
BY InitScanInv, NextScanInv, PTL DEF C!Spec

\* The locks and controllers are those of the scans that wait or run, one of which runs.
THEOREM LocksAreGivenBack == C!Spec => []LocksAreScans
BY ScansKeepInv, PTL DEF ScanInv

-----------------------------------------------------------------------------
(***************************************************************************)
(* The on-demand channel.  That the cursor never runs ahead of what was    *)
(* played has to hold of every snapshot a restart may bring back, and of a *)
(* snapshot that plays together with the stretch since it was resumed,     *)
(* which is what a pause adds, however late it comes: that no call is      *)
(* dated later than now is the rest of the invariant.                      *)
(***************************************************************************)

\* A snapshot that is the lineup, or may become it after a restart.
Accounted(l) ==
  /\ l.cursor <= played
  /\ l.state = "playing" => /\ clock - l.resumed <= played
                            /\ l.cursor + (clock - l.resumed) <= played

DemandInv ==
  /\ D!TypeOK
  /\ played <= clock
  /\ saving > 0 => calls # <<>>
  /\ \A i \in 1..Len(calls) : calls[i].at <= clock
  /\ Accounted(lineup) /\ Accounted(disk)
  /\ \A i \in 1..Len(unsaved) : Accounted(unsaved[i])

\* Nothing has been played, counted or asked for at first.
LEMMA InitDemandInv == D!Init => DemandInv
  BY DemandAssumption DEF D!Init, DemandInv, Accounted, D!TypeOK, D!Time, D!Lineup, D!Call

\* What the actions need of the types.
LEMMA DemandTypes ==
  ASSUME DemandInv
  PROVE  /\ clock \in Int /\ played \in Int /\ 0 <= played /\ clock \in D!Time
         /\ lineup \in D!Lineup /\ disk \in D!Lineup
         /\ \A l \in D!Lineup : l.cursor \in Int /\ l.resumed \in Int /\ l.updated \in Int
  BY DemandAssumption DEF DemandInv, D!TypeOK, D!Time, D!Lineup

\* The remainder of a division does not exceed the dividend, or zero.
LEMMA RemBound ==
  ASSUME NEW a \in Int
  PROVE  /\ D!Rem(a) \in Int
         /\ a >= 0 => D!Rem(a) <= a
         /\ a < 0 => D!Rem(a) <= 0
<1>1. CASE a >= 0
  BY <1>1, DemandAssumption DEF D!Rem
<1>2. CASE a < 0
  <2>1. -a \in Nat /\ (-a) % Duration \in Nat
    BY <1>2, DemandAssumption
  <2> QED
    BY <1>2, <2>1 DEF D!Rem
<1> QED
  BY <1>1, <1>2

\* The later of a number and zero.
LEMMA MaxZero ==
  ASSUME NEW a \in Int
  PROVE  D!Max({a, 0}) = IF a >= 0 THEN a ELSE 0
  BY DEF D!Max

\* A pause, as of now or of a time before, counts no more than was played.
LEMMA PausedAccounted ==
  ASSUME DemandInv, NEW at \in D!Time, at <= clock
  PROVE  D!Pause(lineup, at) \in D!Lineup /\ Accounted(D!Pause(lineup, at))
<1> DEFINE stretch == lineup.cursor + (at - lineup.resumed)
           cursor == IF lineup.updated > lineup.resumed THEN 0 ELSE D!Rem(stretch)
<1>1. /\ clock \in Int /\ played \in Int /\ 0 <= played /\ at \in Int /\ stretch \in Int
      /\ lineup \in D!Lineup /\ lineup.cursor \in Int /\ lineup.resumed \in Int /\ lineup.updated \in Int
  BY DemandTypes DEF D!Time
<1>2. CASE lineup.state = "playing"
  <2>1. stretch <= played
    BY <1>1, <1>2 DEF DemandInv, Accounted
  <2> HIDE DEF stretch
  <2>2. cursor \in Int /\ cursor <= played
    BY <1>1, <2>1, RemBound
  <2>3. D!Pause(lineup, at) = [lineup EXCEPT !.state = "paused", !.cursor = cursor]
    BY <1>1, <1>2 DEF D!Pause, D!Paused, stretch, D!Lineup
  <2> HIDE DEF cursor
  <2>4. /\ [lineup EXCEPT !.state = "paused", !.cursor = cursor] \in D!Lineup
        /\ [lineup EXCEPT !.state = "paused", !.cursor = cursor].cursor = cursor
        /\ [lineup EXCEPT !.state = "paused", !.cursor = cursor].state = "paused"
    BY <1>1, <2>2 DEF D!Lineup
  <2> QED
    BY <2>2, <2>3, <2>4 DEF Accounted
<1>3. CASE lineup.state # "playing"
  BY <1>1, <1>3 DEF D!Pause, DemandInv
<1> QED
  BY <1>2, <1>3

\* A channel that is resumed plays from now on.
LEMMA ResumedAccounted ==
  ASSUME DemandInv
  PROVE  D!Resume(lineup) \in D!Lineup /\ Accounted(D!Resume(lineup))
<1>1. /\ clock \in D!Time /\ clock \in Int /\ played \in Int /\ 0 <= played
      /\ lineup \in D!Lineup /\ lineup.cursor \in Int /\ lineup.cursor <= played
  BY DemandTypes DEF DemandInv, Accounted
<1>2. CASE lineup.state = "paused"
  <2> DEFINE l == [lineup EXCEPT !.state = "playing", !.resumed = clock]
  <2>1. l \in D!Lineup /\ l.cursor = lineup.cursor /\ l.resumed = clock
    BY <1>1 DEF D!Lineup
  <2>2. D!Resume(lineup) = l
    BY <1>2 DEF D!Resume
  <2> HIDE DEF l
  <2> QED
    BY <1>1, <2>1, <2>2 DEF Accounted
<1>3. CASE lineup.state # "paused"
  BY <1>1, <1>3 DEF D!Resume, DemandInv
<1> QED
  BY <1>2, <1>3

\* A snapshot that is accounted for may be put into the lineup and its file.
LEMMA ChangeAccounted ==
  ASSUME DemandInv, NEW l \in D!Lineup, Accounted(l), D!Change(l), UNCHANGED <<clock, played>>
  PROVE  /\ lineup' \in D!Lineup /\ disk' \in D!Lineup /\ unsaved' \in Seq(D!Lineup)
         /\ Len(unsaved') \in 1..2
         /\ Accounted(lineup)' /\ Accounted(disk)'
         /\ \A i \in 1..Len(unsaved') : Accounted(unsaved[i])'
<1>1. /\ unsaved \in Seq(D!Lineup) /\ Len(unsaved) \in Nat /\ Len(unsaved) <= 2
      /\ disk \in D!Lineup /\ Accounted(disk)
      /\ \A i \in 1..Len(unsaved) : Accounted(unsaved[i])
  BY DEF DemandInv, D!TypeOK
<1>2. /\ lineup' = l /\ disk' = disk
      /\ unsaved' = IF Len(unsaved) < 2 THEN Append(unsaved, l) ELSE <<unsaved[1], l>>
  BY DEF D!Change, D!Queued
<1> QED
  BY <1>1, <1>2 DEF Accounted

\* The rest of the types and bounds, where the lineup and its snapshots keep theirs.
DemandRest ==
  /\ clock \in D!Time /\ played \in D!Time /\ played <= clock
  /\ calls \in Seq(D!Call) /\ Len(calls) <= MaxCalls
  /\ \A i \in 1..Len(calls) : calls[i].at <= clock
  /\ saving \in 0..2 /\ (saving > 0 => calls # <<>>)
  /\ session \in {"none", "starting", "open"} /\ joined \in [Viewer -> D!Time]

\* A call that is appended is dated no later than now.
LEMMA AskKeeps ==
  ASSUME DemandInv, NEW op \in {"pause", "resume"}, NEW at \in D!Time, at <= clock, D!Ask(op, at)
  PROVE  /\ calls' \in Seq(D!Call) /\ Len(calls') <= MaxCalls /\ calls' # <<>>
         /\ \A i \in 1..Len(calls') : calls'[i].at <= clock
<1> DEFINE c == [op |-> op, at |-> at]
<1>1. calls \in Seq(D!Call) /\ Len(calls) \in Nat /\ MaxCalls \in Nat /\ c \in D!Call /\ c.at <= clock
  BY DemandAssumption DEF DemandInv, D!TypeOK, D!Call
<1>2. calls' = Append(calls, c) /\ Len(calls) < MaxCalls
  BY DEF D!Ask
<1> HIDE DEF c
<1> QED
  BY <1>1, <1>2 DEF DemandInv

\* So are the calls that remain when the first has been served.
LEMMA TailKeeps ==
  ASSUME DemandInv, calls # <<>>
  PROVE  /\ Tail(calls) \in Seq(D!Call) /\ Len(Tail(calls)) <= MaxCalls
         /\ \A i \in 1..Len(Tail(calls)) : Tail(calls)[i].at <= clock
         /\ Head(calls) \in D!Call /\ Head(calls).at <= clock
<1>1. calls \in Seq(D!Call) /\ Len(calls) <= MaxCalls /\ MaxCalls \in Nat
  BY DemandAssumption DEF DemandInv, D!TypeOK
<1>2. /\ Head(calls) = calls[1] /\ Head(calls) \in D!Call /\ Tail(calls) \in Seq(D!Call)
      /\ Len(Tail(calls)) = Len(calls) - 1 /\ Len(calls) \in Nat \ {0}
      /\ \A i \in 1..Len(Tail(calls)) : Tail(calls)[i] = calls[i + 1]
  BY <1>1, HeadTailProperties, EmptySeq
<1> QED
  BY <1>1, <1>2 DEF DemandInv

\* The same for the snapshots on their way to the file.
LEMMA WrittenAccounted ==
  ASSUME DemandInv, unsaved # <<>>
  PROVE  /\ Head(unsaved) \in D!Lineup /\ Accounted(Head(unsaved))
         /\ Tail(unsaved) \in Seq(D!Lineup) /\ Len(Tail(unsaved)) <= 2
         /\ \A i \in 1..Len(Tail(unsaved)) : Accounted(Tail(unsaved)[i])
<1>1. unsaved \in Seq(D!Lineup) /\ Len(unsaved) <= 2
  BY DEF DemandInv, D!TypeOK
<1>2. /\ Head(unsaved) = unsaved[1] /\ Head(unsaved) \in D!Lineup /\ Tail(unsaved) \in Seq(D!Lineup)
      /\ Len(Tail(unsaved)) = Len(unsaved) - 1 /\ Len(unsaved) \in Nat \ {0}
      /\ \A i \in 1..Len(Tail(unsaved)) : Tail(unsaved)[i] = unsaved[i + 1]
  BY <1>1, HeadTailProperties, EmptySeq
<1> QED
  BY <1>1, <1>2 DEF DemandInv

\* A step that changes the lineup and leaves time and the sessions alone.
LEMMA ChangeKeeps ==
  ASSUME DemandInv, NEW l \in D!Lineup, Accounted(l), D!Change(l), DemandRest',
         UNCHANGED <<clock, played>>
  PROVE  DemandInv'
<1>1. /\ lineup' \in D!Lineup /\ disk' \in D!Lineup /\ unsaved' \in Seq(D!Lineup)
      /\ Len(unsaved') \in 1..2
      /\ Accounted(lineup)' /\ Accounted(disk)'
      /\ \A i \in 1..Len(unsaved') : Accounted(unsaved[i])'
  BY ChangeAccounted
<1>2. Len(unsaved') <= 2
  BY <1>1
<1> QED
  BY <1>1, <1>2 DEF DemandInv, DemandRest, D!TypeOK

\* A step that leaves time and the lineup alone.
LEMMA LineupStays ==
  ASSUME DemandInv, DemandRest', UNCHANGED <<clock, played, lineup, unsaved, disk>>
  PROVE  DemandInv'
  BY DEF DemandInv, DemandRest, D!TypeOK, Accounted

\* The invariant has the rest as a part.
LEMMA InvHasRest == DemandInv => DemandRest
  BY DEF DemandInv, DemandRest, D!TypeOK

\* A write ends: the file has a snapshot that was accounted for.
LEMMA WriteEndsKeeps == ASSUME DemandInv, D!WriteEnds PROVE DemandInv'
<1>1. unsaved # <<>> /\ disk' = Head(unsaved) /\ unsaved' = Tail(unsaved)
  BY DEF D!WriteEnds
<1>2. UNCHANGED <<clock, lineup, session, joined, played>>
  BY DEF D!WriteEnds, D!sessionVars
<1>3. DemandRest'
  <2>1. CASE saving = 0
    BY <1>2, <2>1, InvHasRest DEF D!WriteEnds, D!lockVars, DemandRest
  <2>2. CASE saving # 0
    <3>1. /\ saving \in 1..2 /\ calls # <<>>
          /\ saving' = saving - 1 /\ calls' = IF saving = 1 THEN Tail(calls) ELSE calls
      BY <2>2 DEF D!WriteEnds, DemandInv, D!TypeOK
    <3>2. saving' \in 0..2 /\ (saving' > 0 => saving # 1)
      BY <3>1
    <3>3. saving' > 0 => calls' # <<>>
      BY <3>1, <3>2
    <3>4. /\ calls' \in Seq(D!Call) /\ Len(calls') <= MaxCalls
          /\ \A i \in 1..Len(calls') : calls'[i].at <= clock
      BY <3>1, TailKeeps, InvHasRest DEF DemandRest
    <3> QED
      BY <1>2, <3>2, <3>3, <3>4, InvHasRest DEF DemandRest
  <2> QED
    BY <2>1, <2>2
<1> QED
  BY <1>1, <1>2, <1>3, WrittenAccounted DEF DemandInv, DemandRest, D!TypeOK, Accounted

\* A call has the lock: it pauses or resumes the channel, or finds nothing to do.
LEMMA ServeKeeps == ASSUME DemandInv, D!Serve PROVE DemandInv'
<1> DEFINE c == Head(calls)
           l == IF c.op = "pause" THEN D!Pause(lineup, c.at) ELSE D!Resume(lineup)
<1>1. calls # <<>> /\ saving = 0
  BY DEF D!Serve, D!Turn, DemandInv, D!TypeOK
<1>2. UNCHANGED <<clock, session, joined, played>>
  BY DEF D!Serve, D!sessionVars
<1>3. c.at \in D!Time /\ c.at <= clock
  BY <1>1, TailKeeps DEF D!Call
<1>4. \/ calls' = Tail(calls) /\ UNCHANGED <<lineup, unsaved, disk, saving>>
      \/ D!Change(l) /\ saving' = Len(unsaved') /\ UNCHANGED calls
  BY DEF D!Serve, D!lineupVars
<1> HIDE DEF c
<1>5. l \in D!Lineup /\ Accounted(l)
  BY <1>3, PausedAccounted, ResumedAccounted
<1> HIDE DEF l
<1>6. CASE calls' = Tail(calls) /\ UNCHANGED <<lineup, unsaved, disk, saving>>
  BY <1>1, <1>2, <1>6, TailKeeps, InvHasRest, LineupStays DEF DemandRest
<1>7. CASE D!Change(l) /\ saving' = Len(unsaved') /\ UNCHANGED calls
  <2>1. saving' \in 0..2
    BY <1>2, <1>5, <1>7, ChangeAccounted
  <2> QED
    BY <1>1, <1>2, <1>5, <1>7, <2>1, InvHasRest, ChangeKeeps DEF DemandRest
<1> QED
  BY <1>4, <1>6, <1>7

\* The sessions and their viewers: they ask for a pause or a resume, dated now or before.
LEMMA CreateKeeps == ASSUME DemandInv, D!Create PROVE DemandInv'
<1>1. clock \in D!Time /\ clock <= clock
  BY DemandTypes
<1>2. /\ D!Ask("resume", clock) /\ session' = "starting"
      /\ UNCHANGED <<clock, played, lineup, unsaved, disk, saving, joined>>
  BY DEF D!Create, D!lineupVars
<1> QED
  BY <1>1, <1>2, AskKeeps, InvHasRest, LineupStays DEF DemandRest

\* A viewer joins a session that is there: nothing is asked for.
LEMMA JoinKeeps == ASSUME DemandInv, NEW v \in Viewer, D!Join(v) PROVE DemandInv'
<1>1. /\ session' = "open" /\ joined' = [joined EXCEPT ![v] = clock]
      /\ UNCHANGED <<clock, played, lineup, unsaved, disk, calls, saving>>
  BY DEF D!Join, D!lineupVars, D!lockVars
<1> QED
  BY <1>1, InvHasRest, LineupStays DEF DemandRest

\* A viewer leaves: with the last one a pause is queued, as of when it was heard of last.
LEMMA LeaveKeeps == ASSUME DemandInv, NEW v \in Viewer, D!Leave(v) PROVE DemandInv'
<1>1. /\ joined' = [joined EXCEPT ![v] = 0]
      /\ UNCHANGED <<clock, played, lineup, unsaved, disk, saving, session>>
  BY DEF D!Leave, D!lineupVars
<1>2. joined' \in [Viewer -> D!Time]
  BY <1>1, DemandAssumption, InvHasRest DEF DemandRest, D!Time
<1>3. CASE UNCHANGED calls
  BY <1>1, <1>2, <1>3, InvHasRest, LineupStays DEF DemandRest
<1>4. CASE \E heard \in joined[v]..clock : D!Ask("pause", heard)
  <2>1. PICK heard \in joined[v]..clock : D!Ask("pause", heard)
    BY <1>4
  <2>2. heard \in D!Time /\ heard <= clock
    BY DemandAssumption, InvHasRest DEF DemandRest, D!Time
  <2> QED
    BY <1>1, <1>2, <2>1, <2>2, AskKeeps, InvHasRest, LineupStays DEF DemandRest
<1> QED
  BY <1>3, <1>4 DEF D!Leave

\* The session stops: nothing is queued for the channel.
LEMMA StopKeeps == ASSUME DemandInv, D!Stop PROVE DemandInv'
<1>1. /\ session' = "none" /\ joined' = [v \in Viewer |-> 0]
      /\ UNCHANGED <<clock, played, lineup, unsaved, disk, calls, saving>>
  BY DEF D!Stop, D!lineupVars, D!lockVars
<1>2. joined' \in [Viewer -> D!Time]
  BY <1>1, DemandAssumption DEF D!Time
<1> QED
  BY <1>1, <1>2, InvHasRest, LineupStays DEF DemandRest

\* The task pauses the channel as of now.
LEMMA TaskKeeps == ASSUME DemandInv, D!Task PROVE DemandInv'
<1>1. clock \in D!Time /\ clock <= clock
  BY DemandTypes
<1>2. D!Pause(lineup, clock) \in D!Lineup /\ Accounted(D!Pause(lineup, clock))
  BY <1>1, PausedAccounted
<1>3. D!Change(D!Pause(lineup, clock)) /\ UNCHANGED <<clock, played, calls, saving, session, joined>>
  BY DEF D!Task, D!lockVars, D!sessionVars
<1> QED
  BY <1>2, <1>3, InvHasRest, ChangeKeeps DEF DemandRest

\* A request saves the lineup: the cursor stays, or begins anew.
LEMMA SaveKeeps == ASSUME DemandInv, D!Save PROVE DemandInv'
<1>1. PICK cursor \in {0, lineup.cursor} :
        D!Change([lineup EXCEPT !.cursor = cursor, !.updated = clock])
  BY DEF D!Save
<1>2. UNCHANGED <<clock, played, calls, saving, session, joined>>
  BY DEF D!Save, D!lockVars, D!sessionVars
<1> DEFINE l == [lineup EXCEPT !.cursor = cursor, !.updated = clock]
<1>3. /\ lineup \in D!Lineup /\ clock \in D!Time /\ cursor \in Int /\ clock \in Int /\ played \in Int
      /\ 0 <= played /\ lineup.resumed \in Int /\ lineup.cursor \in Int
  BY DemandTypes
<1>4. /\ l \in D!Lineup /\ l.cursor = cursor /\ l.state = lineup.state
      /\ l.resumed = lineup.resumed
  BY <1>3 DEF D!Lineup
<1> HIDE DEF l
<1>5. Accounted(l)
  BY <1>3, <1>4 DEF DemandInv, Accounted
<1> QED
  BY <1>1, <1>2, <1>4, <1>5, InvHasRest, ChangeKeeps DEF DemandRest, l

\* A request turns on-demand on or off: the channel does not play.
LEMMA ConfigureKeeps == ASSUME DemandInv, D!Configure PROVE DemandInv'
<1>1. PICK s \in {"off", "paused"} :
        D!Change([lineup EXCEPT !.state = s, !.cursor = 0, !.resumed = 0])
  BY DEF D!Configure
<1>2. UNCHANGED <<clock, played, calls, saving, session, joined>>
  BY DEF D!Configure, D!lockVars, D!sessionVars
<1> DEFINE l == [lineup EXCEPT !.state = s, !.cursor = 0, !.resumed = 0]
<1>3. lineup \in D!Lineup /\ 0 \in D!Time /\ 0 <= played
  BY DemandAssumption, DemandTypes DEF D!Time
<1>4. l \in D!Lineup /\ l.cursor = 0 /\ l.state # "playing"
  <2>1. s \in {"off", "paused", "playing"} /\ s # "playing" /\ 0 \in Int
    OBVIOUS
  <2>2. l \in D!Lineup
    BY <1>3, <2>1 DEF D!Lineup
  <2>3. l.cursor = 0 /\ l.state = s
    BY <1>3 DEF D!Lineup
  <2> QED
    BY <2>1, <2>2, <2>3
<1> HIDE DEF l
<1>5. Accounted(l)
  BY <1>3, <1>4 DEF Accounted
<1> QED
  BY <1>1, <1>2, <1>4, <1>5, InvHasRest, ChangeKeeps DEF DemandRest, l

\* A restart brings back the file, which was accounted for.
LEMMA CrashKeeps == ASSUME DemandInv, D!Crash PROVE DemandInv'
<1> DEFINE cursor == IF disk.cursor >= 0 THEN disk.cursor ELSE 0
           l == [disk EXCEPT !.cursor = cursor]
<1>1. /\ disk \in D!Lineup /\ disk.cursor \in Int /\ disk.resumed \in Int /\ cursor \in Int
      /\ clock \in Int /\ played \in Int /\ 0 <= played
  BY DemandTypes
<1>2. /\ lineup' = l /\ unsaved' = <<>> /\ calls' = <<>> /\ saving' = 0
      /\ session' = "none" /\ joined' = [v \in Viewer |-> 0]
      /\ UNCHANGED <<clock, disk, played>>
  BY <1>1, MaxZero DEF D!Crash, D!Lineup
<1>3. l \in D!Lineup /\ l.cursor = cursor /\ l.state = disk.state /\ l.resumed = disk.resumed
  BY <1>1 DEF D!Lineup
<1> HIDE DEF l
<1>4. Accounted(l)
  BY <1>1, <1>3 DEF DemandInv, Accounted
<1>5. DemandRest'
  BY <1>2, DemandAssumption, InvHasRest DEF DemandRest, D!Time
<1> QED
  BY <1>2, <1>3, <1>4, <1>5 DEF DemandInv, DemandRest, D!TypeOK, Accounted

\* Time passes: it is counted while a snapshot plays.
LEMMA TickKeeps == ASSUME DemandInv, D!Tick PROVE DemandInv'
<1>1. /\ clock < MaxClock /\ clock' = clock + 1
      /\ UNCHANGED <<lineup, unsaved, disk, calls, saving, session, joined>>
  BY DEF D!Tick, D!lineupVars, D!lockVars, D!sessionVars
<1>2. /\ clock \in Int /\ played \in Int /\ 0 <= played /\ played <= clock /\ MaxClock \in Nat
      /\ lineup \in D!Lineup /\ disk \in D!Lineup
  BY DemandAssumption, DemandTypes DEF DemandInv
<1>3. played' = played \/ played' = played + 1
  BY DEF D!Tick
<1>4. DemandRest'
  <2>1. clock' \in D!Time /\ played' \in D!Time /\ played' <= clock'
    BY <1>1, <1>2, <1>3, InvHasRest DEF DemandRest, D!Time
  <2>2. \A i \in 1..Len(calls) : calls[i].at <= clock'
    <3>1. \A i \in 1..Len(calls) : calls[i].at \in Int /\ calls[i].at <= clock
      <4>1. \A i \in 1..Len(calls) : calls[i] \in D!Call /\ calls[i].at <= clock
        BY InvHasRest DEF DemandRest
      <4> QED
        BY <4>1, DemandAssumption DEF D!Call, D!Time
    <3> QED
      BY <1>1, <1>2, <3>1
  <2> QED
    BY <1>1, <2>1, <2>2, InvHasRest DEF DemandRest
<1>5. ASSUME NEW l \in D!Lineup, Accounted(l), played' = played => l.state # "playing"
      PROVE  /\ l.cursor <= played'
             /\ l.state = "playing" => /\ clock' - l.resumed <= played'
                                       /\ l.cursor + (clock' - l.resumed) <= played'
  BY <1>1, <1>2, <1>3, <1>5, DemandTypes DEF Accounted
<1>6. ASSUME played' = played
      PROVE  /\ lineup.state # "playing" /\ disk.state # "playing"
             /\ \A i \in 1..Len(unsaved) : unsaved[i].state # "playing"
  <2>1. ~\E l \in {lineup, disk} \cup D!ToSet(unsaved) : l.state = "playing"
    BY <1>2, <1>6 DEF D!Tick
  <2>2. \A i \in 1..Len(unsaved) : unsaved[i] \in D!ToSet(unsaved)
    BY DEF DemandInv, D!TypeOK, D!ToSet
  <2> QED
    BY <2>1, <2>2
<1>7. \A i \in 1..Len(unsaved) : unsaved[i] \in D!Lineup
  BY DEF DemandInv, D!TypeOK
<1>8. Accounted(lineup)' /\ Accounted(disk)'
  BY <1>1, <1>2, <1>5, <1>6 DEF DemandInv, Accounted
<1>9. \A i \in 1..Len(unsaved) : Accounted(unsaved[i])'
  BY <1>1, <1>5, <1>6, <1>7 DEF DemandInv, Accounted
<1> QED
  BY <1>1, <1>4, <1>8, <1>9 DEF DemandInv, DemandRest, D!TypeOK

\* DemandInv is inductive.
LEMMA NextDemandInv == DemandInv /\ [D!Next]_D!vars => DemandInv'
<1> SUFFICES ASSUME DemandInv, [D!Next]_D!vars PROVE DemandInv'
  OBVIOUS
<1>1. CASE UNCHANGED D!vars
  BY <1>1, InvHasRest, LineupStays DEF D!vars, D!lineupVars, D!lockVars, D!sessionVars, DemandRest
<1>2. CASE D!Next
  BY <1>2, WriteEndsKeeps, ServeKeeps, CreateKeeps, StopKeeps, TaskKeeps, SaveKeeps,
    ConfigureKeeps, CrashKeeps, TickKeeps, JoinKeeps, LeaveKeeps DEF D!Next
<1> QED
  BY <1>1, <1>2

\* The cursor counts the time a channel played once, in any order of late pauses,
\* tasks, requests and restarts, for every duration of the cycle.
THEOREM PlayedTimeIsCountedOnce == D!Init /\ [][D!Next]_D!vars => []CountsPlayedTimeOnce
<1>1. DemandInv => CountsPlayedTimeOnce
  BY DEF DemandInv, Accounted, CountsPlayedTimeOnce
<1> QED
  BY <1>1, InitDemandInv, NextDemandInv, PTL

-----------------------------------------------------------------------------
(***************************************************************************)
(* The guide.  While calls run one at a time the context of a call is its  *)
(* own: what it read, when it began to build, is no older than the call,   *)
(* and nobody clears it before the call has built its channels, or met an  *)
(* error of its own with them, and no other call lets it pass.  A later    *)
(* call wants no less than an earlier one, so it does not undo what that   *)
(* one was promised.                                                       *)
(***************************************************************************)

Building(b) == build[b].pc = "building"

\* The lineups x are no older than the call b.
Recent(x, b) == \A c \in Channel : x[c] >= wanted[b][c]

\* A call that builds has its context and its locks; what it has built is recent.
BuildsRecent(b) ==
  /\ context # {} /\ \A x \in context : Recent(x, b)
  /\ Recent(read[b], b)
  /\ \A c \in build[b].scope \ (build[b].left \cup build[b].threw) : guide[c] >= wanted[b][c]
  /\ \A c \in Channel : lockQueue[c] = IF c \in build[b].left THEN <<b>> ELSE <<>>

AloneInv ==
  /\ \A v, w \in G!InFlight : v = w
  /\ \A b \in Build : Recent(version, b)
  /\ \A b \in G!InFlight, a \in Build : Recent(wanted[b], a)
  /\ \A b \in Build : build[b].pc = "loaded" => Recent(read[b], b)
  /\ \A b \in Build : Building(b) => BuildsRecent(b)
  /\ (\A b \in Build : ~Building(b)) => \A c \in Channel : lockQueue[c] = <<>>
  /\ G!ReturnedIsFresh

\* The guide is empty, no call is made.
LEMMA InitGuideType == G!Init => G!TypeOK
<1> SUFFICES ASSUME G!Init PROVE G!TypeOK
  OBVIOUS
<1>1. version \in G!Lineups
  BY GuideAssumption DEF G!Init, G!Lineups
<1>2. /\ guide \in G!Lineups /\ context \in SUBSET G!Lineups
      /\ read \in [Build -> G!Lineups] /\ wanted \in [Build -> G!Lineups]
  BY <1>1 DEF G!Init
<1>3. lockQueue \in [Channel -> Seq(Build)]
  BY DEF G!Init
<1> QED
  BY <1>1, <1>2, <1>3 DEF G!Init, G!TypeOK, G!Pc

\* The lineups and the guide are numbers per channel.
LEMMA GuideTypes ==
  ASSUME G!TypeOK
  PROVE  /\ \A c \in Channel : version[c] \in Nat /\ guide[c] \in Nat
         /\ \A b \in Build, c \in Channel : read[b][c] \in Nat /\ wanted[b][c] \in Nat
         /\ \A x \in context, c \in Channel : x[c] \in Nat
         /\ \A b \in Build : build[b].scope \subseteq Channel /\ build[b].left \subseteq Channel
<1>1. \A x \in G!Lineups, c \in Channel : x[c] \in Nat
  BY GuideAssumption DEF G!Lineups
<1> QED
  BY <1>1 DEF G!TypeOK

\* The types of the guide, whether calls overlap or not.
LEMMA NextGuideType == G!TypeOK /\ [G!Next]_G!vars => G!TypeOK'
<1> SUFFICES ASSUME G!TypeOK, [G!Next]_G!vars PROVE G!TypeOK'
  OBVIOUS
<1> USE DEF G!TypeOK
<1>1. CASE UNCHANGED G!vars
  BY <1>1 DEF G!vars
<1>2. ASSUME NEW c \in Channel, G!Update(c) PROVE G!TypeOK'
  <2>1. version' \in G!Lineups
    BY <1>2, GuideAssumption DEF G!Update, G!Lineups
  <2> QED
    BY <1>2, <2>1 DEF G!Update
<1>3. ASSUME NEW b \in Build, G!Call(b) PROVE G!TypeOK'
  <2>1. PICK scope \in {Channel} \cup {{c} : c \in Channel} :
          build' = [build EXCEPT ![b].pc = "loading", ![b].scope = scope]
    BY <1>3 DEF G!Call
  <2>2. scope \in SUBSET Channel
    OBVIOUS
  <2>3. build' \in [Build -> [pc : G!Pc, scope : SUBSET Channel, begun : SUBSET Channel,
                              left : SUBSET Channel, threw : SUBSET Channel]]
    BY <2>1, <2>2 DEF G!Pc
  <2>4. wanted' \in [Build -> G!Lineups]
    BY <1>3 DEF G!Call
  <2> QED
    BY <1>3, <2>3, <2>4 DEF G!Call
<1>4. ASSUME NEW b \in Build, G!Load(b) PROVE G!TypeOK'
  BY <1>4 DEF G!Load, G!Pc
<1>5. ASSUME NEW b \in Build, G!Open(b) PROVE G!TypeOK'
  <2>1. \A c \in Channel : Append(lockQueue[c], b) \in Seq(Build) /\ lockQueue[c] \in Seq(Build)
    BY AppendProperties
  <2>2. lockQueue' \in [Channel -> Seq(Build)]
    BY <1>5, <2>1 DEF G!Open
  <2>3. build' \in [Build -> [pc : G!Pc, scope : SUBSET Channel, begun : SUBSET Channel,
                              left : SUBSET Channel, threw : SUBSET Channel]]
    <3>1. build' = [build EXCEPT ![b].pc = "building", ![b].left = build[b].scope]
      BY <1>5 DEF G!Open
    <3> QED
      BY <3>1 DEF G!Pc
  <2>4. context' \in SUBSET G!Lineups /\ UNCHANGED <<version, guide, read, wanted>>
    BY <1>5 DEF G!Open
  <2> QED
    BY <2>2, <2>3, <2>4
<1>6. ASSUME NEW b \in Build, NEW c \in Channel, G!Begin(b, c) PROVE G!TypeOK'
  <2>1. PICK x \in context : read' = [read EXCEPT ![b][c] = x[c]]
    BY <1>6 DEF G!Begin
  <2>2. [read[b] EXCEPT ![c] = x[c]] \in G!Lineups
    BY DEF G!Lineups
  <2>3. read' \in [Build -> G!Lineups]
    BY <2>1, <2>2
  <2>4. build[b].begun \cup {c} \in SUBSET Channel
    OBVIOUS
  <2> DEFINE row == [build[b] EXCEPT !.begun = @ \cup {c}]
  <2>5. row \in [pc : G!Pc, scope : SUBSET Channel, begun : SUBSET Channel,
                left : SUBSET Channel, threw : SUBSET Channel]
    BY <2>4
  <2>6. build' = [build EXCEPT ![b] = row]
    BY <1>6 DEF G!Begin
  <2> HIDE DEF row
  <2>7. build' \in [Build -> [pc : G!Pc, scope : SUBSET Channel, begun : SUBSET Channel,
                              left : SUBSET Channel, threw : SUBSET Channel]]
    BY <2>5, <2>6
  <2> QED
    BY <1>6, <2>3, <2>7 DEF G!Begin
<1>7. ASSUME NEW b \in Build, NEW c \in Channel, NEW errors \in SUBSET Channel,
             G!Holds(b, c), G!Leave(b, c, errors)
      PROVE  /\ lockQueue' \in [Channel -> Seq(Build)]
             /\ build' \in [Build -> [pc : G!Pc, scope : SUBSET Channel, begun : SUBSET Channel,
                                      left : SUBSET Channel, threw : SUBSET Channel]]
  <2>1. Tail(lockQueue[c]) \in Seq(Build)
    BY <1>7, HeadTailProperties DEF G!Holds
  <2>2. lockQueue' \in [Channel -> Seq(Build)]
    BY <1>7, <2>1 DEF G!Leave
  <2>3. /\ build[b].begun \cup {c} \in SUBSET Channel /\ build[b].left \ {c} \in SUBSET Channel
        /\ build[b].threw \cup errors \in SUBSET Channel
    BY <1>7
  <2> DEFINE row == [build[b] EXCEPT !.begun = @ \cup {c}, !.left = @ \ {c}, !.threw = @ \cup errors]
  <2>4. row \in [pc : G!Pc, scope : SUBSET Channel, begun : SUBSET Channel,
                left : SUBSET Channel, threw : SUBSET Channel]
    BY <2>3
  <2>5. build' = [build EXCEPT ![b] = row]
    BY <1>7 DEF G!Leave
  <2> HIDE DEF row
  <2>6. build' \in [Build -> [pc : G!Pc, scope : SUBSET Channel, begun : SUBSET Channel,
                              left : SUBSET Channel, threw : SUBSET Channel]]
    BY <2>4, <2>5
  <2> QED
    BY <2>2, <2>6
<1>8. ASSUME NEW b \in Build, NEW c \in Channel, G!LoseContext(b, c) PROVE G!TypeOK'
  BY <1>7, <1>8 DEF G!LoseContext
<1>9. ASSUME NEW b \in Build, NEW c \in Channel, G!Finish(b, c) PROVE G!TypeOK'
  <2>1. guide' \in G!Lineups
    BY <1>9 DEF G!Finish, G!Lineups
  <2> QED
    BY <1>7, <1>9, <2>1 DEF G!Finish
<1>10. ASSUME NEW b \in Build, G!Close(b) PROVE G!TypeOK'
  BY <1>10 DEF G!Close, G!Pc
<1>11. ASSUME NEW b \in Build, G!LoadFails(b) PROVE G!TypeOK'
  BY <1>11 DEF G!LoadFails, G!Pc
<1>12. ASSUME NEW b \in Build, NEW c \in Channel, G!Skip(b, c) PROVE G!TypeOK'
  BY <1>7, <1>12 DEF G!Skip, G!Granted
<1>13. ASSUME NEW b \in Build, NEW c \in Channel, G!Throw(b, c) PROVE G!TypeOK'
  BY <1>7, <1>13 DEF G!Throw
<1> QED
  BY <1>1, <1>2, <1>3, <1>4, <1>5, <1>6, <1>8, <1>9, <1>10, <1>11, <1>12, <1>13
    DEF G!Next, G!Work, G!Stage, G!BuildChannel

\* No call is in flight at first.
LEMMA InitAlone == G!Init => AloneInv
  BY GuideAssumption DEF G!Init, AloneInv, G!InFlight, Recent, Building, G!ReturnedIsFresh

\* A call that is in flight is the only one.
LEMMA OneInFlight ==
  ASSUME G!TypeOK, AloneInv, NEW b \in Build, build[b].pc \in {"loading", "loaded", "building"}
  PROVE  /\ b \in G!InFlight
         /\ \A a \in Build : a # b => build[a].pc \in {"idle", "done"}
         /\ \A a \in Build : Recent(wanted[b], a)
  BY DEF AloneInv, G!InFlight, G!TypeOK, G!Pc

\* Who holds a lock builds, and has the channel still to build.
LEMMA HolderBuilds ==
  ASSUME G!TypeOK, AloneInv, NEW b \in Build, NEW c \in Channel, G!Holds(b, c)
  PROVE  /\ Building(b) /\ BuildsRecent(b) /\ c \in build[b].left
         /\ lockQueue[c] = <<b>>
<1>1. lockQueue[c] # <<>> /\ Head(lockQueue[c]) = b
  BY DEF G!Holds
<1>2. PICK a \in Build : Building(a)
  BY <1>1 DEF AloneInv
<1>3. BuildsRecent(a)
  BY <1>2 DEF AloneInv
<1>4. lockQueue[c] = <<a>> /\ c \in build[a].left
  BY <1>1, <1>3 DEF BuildsRecent
<1>5. a = b
  BY <1>1, <1>4
<1> QED
  BY <1>2, <1>3, <1>4, <1>5

\* The steps that set the stage: a lineup is saved, a call is made and reads.
LEMMA UpdateAlone ==
  ASSUME G!TypeOK, AloneInv, NEW c \in Channel, G!Update(c) PROVE AloneInv'
<1>1. UNCHANGED <<context, guide, lockQueue, build, read, wanted>>
  BY DEF G!Update
<1>2. \A d \in Channel : version'[d] \in Nat /\ version'[d] >= version[d]
  BY GuideTypes DEF G!Update, G!TypeOK, G!Lineups
<1>3. \A b \in Build : Recent(version, b)'
  BY <1>1, <1>2, GuideTypes DEF AloneInv, Recent
<1> QED
  BY <1>1, <1>3 DEF AloneInv, BuildsRecent, Building, Recent, G!InFlight, G!ReturnedIsFresh

\* A call begins while none is in flight.
LEMMA CallAlone ==
  ASSUME G!TypeOK, AloneInv, NEW b \in Build, G!Call(b), \A v, w \in G!InFlight' : v = w
  PROVE  AloneInv'
<1>1. /\ build[b].pc = "idle" /\ wanted' = [wanted EXCEPT ![b] = version]
      /\ UNCHANGED <<version, context, guide, lockQueue, read>>
  BY DEF G!Call
<1>2. /\ build'[b].pc = "loading" /\ \A a \in Build : a # b => build'[a] = build[a]
  BY DEF G!Call, G!TypeOK
<1>3. \A a \in Build : a # b => build[a].pc \in {"idle", "done"}
  BY <1>2 DEF G!InFlight, G!TypeOK, G!Pc
<1>4. /\ \A a \in Build : a # b => wanted'[a] = wanted[a]
      /\ wanted'[b] = version
  BY <1>1 DEF G!TypeOK
<1>5. G!InFlight' = {b}
  BY <1>2, <1>3 DEF G!InFlight
<1>6. \A a \in Build : Recent(version, a)' /\ Recent(wanted[b], a)'
  BY <1>1, <1>4, GuideTypes DEF AloneInv, Recent
<1>7. \A a \in Build : build'[a].pc # "loaded" /\ ~Building(a)' /\ ~Building(a)
  BY <1>1, <1>2, <1>3 DEF Building
<1>8. G!ReturnedIsFresh'
  BY <1>1, <1>2, <1>4 DEF AloneInv, G!ReturnedIsFresh
<1> QED
  BY <1>1, <1>5, <1>6, <1>7, <1>8 DEF AloneInv

\* The call loads lineups that are no older than those it was made for.
LEMMA LoadAlone ==
  ASSUME G!TypeOK, AloneInv, NEW b \in Build, G!Load(b) PROVE AloneInv'
<1>1. /\ build[b].pc = "loading" /\ read' = [read EXCEPT ![b] = version]
      /\ UNCHANGED <<version, context, guide, lockQueue, wanted>>
  BY DEF G!Load
<1>2. /\ build'[b].pc = "loaded" /\ \A a \in Build : a # b => build'[a] = build[a]
  BY DEF G!Load, G!TypeOK
<1>3. \A a \in Build : a # b => build[a].pc \in {"idle", "done"}
  BY <1>1, OneInFlight
<1>4. b \in G!InFlight /\ G!InFlight' = {b} /\ read'[b] = version
  BY <1>1, <1>2, <1>3, OneInFlight DEF G!InFlight, G!TypeOK
<1>5. \A a \in Build : ~Building(a)' /\ ~Building(a)
  BY <1>1, <1>2, <1>3 DEF Building
<1>6. G!ReturnedIsFresh'
  BY <1>1, <1>2 DEF AloneInv, G!ReturnedIsFresh
<1>7. \A a \in Build : build'[a].pc = "loaded" => a = b
  BY <1>2, <1>3
<1> QED
  BY <1>1, <1>4, <1>5, <1>6, <1>7 DEF AloneInv, Recent

\* A call whose lineups cannot be loaded leaves all its channels as they were.
LEMMA LoadFailsAlone ==
  ASSUME G!TypeOK, AloneInv, NEW b \in Build, G!LoadFails(b) PROVE AloneInv'
<1>1. /\ build[b].pc = "loading" /\ UNCHANGED <<version, guide, lockQueue, read, wanted>>
  BY DEF G!LoadFails
<1>2. /\ build'[b].pc = "done" /\ build'[b].scope \ build'[b].threw = {}
      /\ \A a \in Build : a # b => build'[a] = build[a]
  BY DEF G!LoadFails, G!TypeOK
<1>3. \A a \in Build : a # b => build[a].pc \in {"idle", "done"}
  BY <1>1, OneInFlight
<1>4. G!InFlight' = {}
  BY <1>2, <1>3 DEF G!InFlight
<1>5. \A a \in Build : ~Building(a)' /\ build'[a].pc # "loaded" /\ ~Building(a)
  BY <1>1, <1>2, <1>3 DEF Building
<1>6. G!ReturnedIsFresh'
  BY <1>1, <1>2 DEF AloneInv, G!ReturnedIsFresh
<1> QED
  BY <1>1, <1>4, <1>5, <1>6 DEF AloneInv, Recent

\* What the call has read becomes the context, and all its locks are its own.
LEMMA OpenAlone ==
  ASSUME G!TypeOK, AloneInv, NEW b \in Build, G!Open(b) PROVE AloneInv'
<1>1. /\ build[b].pc = "loaded" /\ context' = {read[b]}
      /\ UNCHANGED <<version, guide, read, wanted>>
  BY DEF G!Open
<1>2. /\ build'[b].pc = "building" /\ build'[b].scope = build[b].scope
      /\ build'[b].left = build[b].scope
      /\ \A a \in Build : a # b => build'[a] = build[a]
  BY DEF G!Open, G!TypeOK
<1>3. \A a \in Build : a # b => build[a].pc \in {"idle", "done"}
  BY <1>1, OneInFlight
<1>4. b \in G!InFlight /\ G!InFlight' = {b}
  BY <1>1, <1>2, <1>3, OneInFlight DEF G!InFlight
<1>5. \A c \in Channel : lockQueue[c] = <<>>
  BY <1>1, <1>3 DEF AloneInv, Building
<1>6. \A c \in Channel : lockQueue'[c] = IF c \in build'[b].left THEN <<b>> ELSE <<>>
  <2>1. Append(<<>>, b) = <<b>>
    OBVIOUS
  <2>2. \A c \in Channel : lockQueue'[c] = IF c \in build[b].scope THEN Append(lockQueue[c], b)
                                                                ELSE lockQueue[c]
    BY DEF G!Open
  <2> QED
    BY <1>2, <1>5, <2>1, <2>2
<1>7. BuildsRecent(b)'
  BY <1>1, <1>2, <1>6 DEF AloneInv, BuildsRecent, Recent
<1>8. \A a \in Build : a # b => ~Building(a)' /\ build'[a].pc # "loaded"
  BY <1>2, <1>3 DEF Building
<1>9. G!ReturnedIsFresh'
  BY <1>1, <1>2 DEF AloneInv, G!ReturnedIsFresh
<1> QED
  BY <1>1, <1>2, <1>4, <1>7, <1>8, <1>9 DEF AloneInv, Recent, Building

\* What the steps of a call that builds have in common.
LEMMA BuildStep ==
  ASSUME G!TypeOK, AloneInv, NEW b \in Build, Building(b),
         build'[b].pc = "building", \A a \in Build : a # b => build'[a] = build[a],
         UNCHANGED <<version, wanted>>, BuildsRecent(b)', G!ReturnedIsFresh'
  PROVE  AloneInv'
<1>1. /\ b \in G!InFlight /\ \A a \in Build : a # b => build[a].pc \in {"idle", "done"}
  BY OneInFlight DEF Building
<1>2. G!InFlight' = {b}
  BY <1>1 DEF G!InFlight
<1>3. \A a \in Build : a # b => ~Building(a)' /\ build'[a].pc # "loaded"
  BY <1>1 DEF Building
<1> QED
  BY <1>1, <1>2, <1>3 DEF AloneInv, Recent, Building

\* The build of a channel begins with its lineup in the context.
LEMMA BeginAlone ==
  ASSUME G!TypeOK, AloneInv, NEW b \in Build, NEW c \in Channel, G!Begin(b, c) PROVE AloneInv'
<1>1. Building(b) /\ BuildsRecent(b)
  BY HolderBuilds DEF G!Begin, G!Granted
<1>2. PICK x \in context : read' = [read EXCEPT ![b][c] = x[c]]
  BY DEF G!Begin
<1>3. UNCHANGED <<version, context, guide, lockQueue, wanted>>
  BY DEF G!Begin
<1>4. /\ build'[b].pc = "building" /\ build'[b].scope = build[b].scope
      /\ build'[b].left = build[b].left /\ build'[b].threw = build[b].threw
      /\ \A a \in Build : a # b => build'[a] = build[a]
  BY <1>1 DEF G!Begin, G!TypeOK, Building
<1>5. \A d \in Channel : read'[b][d] = IF d = c THEN x[c] ELSE read[b][d]
  BY <1>2 DEF G!TypeOK, G!Lineups
<1>6. Recent(read[b], b)'
  BY <1>1, <1>3, <1>5 DEF BuildsRecent, Recent
<1>7. BuildsRecent(b)'
  BY <1>1, <1>3, <1>4, <1>6 DEF BuildsRecent, Recent
<1>8. G!ReturnedIsFresh'
  BY <1>1, <1>3, <1>4 DEF AloneInv, G!ReturnedIsFresh, Building
<1> QED
  BY <1>1, <1>3, <1>4, <1>7, <1>8, BuildStep

\* The guide of a channel is built: it is as recent as every call that returned.
LEMMA FinishAlone ==
  ASSUME G!TypeOK, AloneInv, NEW b \in Build, NEW c \in Channel, G!Finish(b, c) PROVE AloneInv'
<1>1. Building(b) /\ BuildsRecent(b) /\ lockQueue[c] = <<b>> /\ c \in build[b].left
  BY HolderBuilds DEF G!Finish
<1>2. /\ guide' = [guide EXCEPT ![c] = read[b][c]]
      /\ UNCHANGED <<version, context, read, wanted>>
      /\ lockQueue' = [lockQueue EXCEPT ![c] = Tail(lockQueue[c])]
  BY DEF G!Finish, G!Leave
<1>3. /\ build'[b].pc = "building" /\ build'[b].scope = build[b].scope
      /\ build'[b].left = build[b].left \ {c} /\ build'[b].threw = build[b].threw
      /\ \A a \in Build : a # b => build'[a] = build[a]
  BY <1>1 DEF G!Finish, G!Leave, G!TypeOK, Building
<1>4. Tail(<<b>>) = <<>>
  OBVIOUS
<1>5. \A d \in Channel : lockQueue'[d] = IF d \in build'[b].left THEN <<b>> ELSE <<>>
  BY <1>1, <1>2, <1>3, <1>4 DEF BuildsRecent, G!TypeOK
<1>6. \A d \in Channel : guide'[d] = IF d = c THEN read[b][c] ELSE guide[d]
  BY <1>2 DEF G!TypeOK, G!Lineups
<1>7. read[b][c] >= wanted[b][c]
  BY <1>1 DEF BuildsRecent, Recent
<1>8. \A d \in build'[b].scope \ (build'[b].left \cup build'[b].threw) : guide'[d] >= wanted'[b][d]
  BY <1>1, <1>2, <1>3, <1>6, <1>7, GuideTypes DEF BuildsRecent
<1>9. BuildsRecent(b)'
  BY <1>1, <1>2, <1>5, <1>8 DEF BuildsRecent, Recent
<1>10. \A a \in Build : read[b][c] >= wanted[a][c]
  <2>1. \A a \in Build : wanted[b][c] >= wanted[a][c]
    BY <1>1, OneInFlight DEF Building, Recent
  <2> QED
    BY <1>7, <2>1, GuideTypes
<1>11. G!ReturnedIsFresh'
  <2> SUFFICES ASSUME NEW a \in Build, build'[a].pc = "done",
                      NEW d \in build'[a].scope \ build'[a].threw
               PROVE  guide'[d] >= wanted'[a][d]
    BY DEF G!ReturnedIsFresh
  <2>1. a # b /\ build'[a] = build[a] /\ d \in Channel
    BY <1>3, GuideTypes
  <2> QED
    BY <1>2, <1>6, <1>10, <2>1 DEF AloneInv, G!ReturnedIsFresh
<1> QED
  BY <1>1, <1>2, <1>3, <1>9, <1>11, BuildStep

\* The build of a channel throws: the guide stays, and so does what was promised of it.
LEMMA ThrowAlone ==
  ASSUME G!TypeOK, AloneInv, NEW b \in Build, NEW c \in Channel, G!Throw(b, c) PROVE AloneInv'
<1>1. Building(b) /\ BuildsRecent(b) /\ lockQueue[c] = <<b>> /\ c \in build[b].left
  BY HolderBuilds DEF G!Throw
<1>2. /\ UNCHANGED <<version, context, guide, read, wanted>>
      /\ lockQueue' = [lockQueue EXCEPT ![c] = Tail(lockQueue[c])]
  BY DEF G!Throw, G!Leave
<1>3. /\ build'[b].pc = "building" /\ build'[b].scope = build[b].scope
      /\ build'[b].left = build[b].left \ {c} /\ build'[b].threw = build[b].threw \cup {c}
      /\ \A a \in Build : a # b => build'[a] = build[a]
  BY <1>1 DEF G!Throw, G!Leave, G!TypeOK, Building
<1>4. Tail(<<b>>) = <<>>
  OBVIOUS
<1>5. \A d \in Channel : lockQueue'[d] = IF d \in build'[b].left THEN <<b>> ELSE <<>>
  BY <1>1, <1>2, <1>3, <1>4 DEF BuildsRecent, G!TypeOK
<1>6. BuildsRecent(b)'
  BY <1>1, <1>2, <1>3, <1>5 DEF BuildsRecent, Recent
<1>7. G!ReturnedIsFresh'
  BY <1>2, <1>3 DEF AloneInv, G!ReturnedIsFresh
<1> QED
  BY <1>1, <1>2, <1>3, <1>6, <1>7, BuildStep

\* A call returns with all its channels built, but for those that threw.
LEMMA CloseAlone ==
  ASSUME G!TypeOK, AloneInv, NEW b \in Build, G!Close(b) PROVE AloneInv'
<1>1. /\ Building(b) /\ build[b].left = {} /\ BuildsRecent(b)
      /\ UNCHANGED <<version, guide, lockQueue, read, wanted>>
  BY DEF G!Close, AloneInv, Building
<1>2. /\ build'[b].pc = "done" /\ build'[b].scope = build[b].scope
      /\ build'[b].threw = build[b].threw
      /\ \A a \in Build : a # b => build'[a] = build[a]
  BY DEF G!Close, G!TypeOK
<1>3. \A a \in Build : a # b => build[a].pc \in {"idle", "done"}
  BY <1>1, OneInFlight DEF Building
<1>4. G!InFlight' = {}
  BY <1>2, <1>3 DEF G!InFlight
<1>5. \A a \in Build : ~Building(a)' /\ build'[a].pc # "loaded"
  BY <1>2, <1>3 DEF Building
<1>6. \A c \in Channel : lockQueue'[c] = <<>>
  BY <1>1 DEF BuildsRecent
<1>7. G!ReturnedIsFresh'
  BY <1>1, <1>2 DEF AloneInv, BuildsRecent, G!ReturnedIsFresh
<1> QED
  BY <1>1, <1>4, <1>5, <1>6, <1>7 DEF AloneInv, Recent

\* The context of a call that is alone is there until the call closes it, and no
\* other call has built its channels.
LEMMA NobodyInterferes ==
  ASSUME G!TypeOK, AloneInv, NEW b \in Build, NEW c \in Channel
  PROVE  ~G!LoseContext(b, c) /\ ~G!Skip(b, c)
<1>1. ~G!LoseContext(b, c)
  BY HolderBuilds DEF G!LoseContext, BuildsRecent
<1>2. ASSUME G!Skip(b, c) PROVE FALSE
  <2>1. PICK a \in G!InFlight : a # b
    BY <1>2 DEF G!Skip
  <2>2. b \in G!InFlight
    BY <1>2, HolderBuilds, OneInFlight DEF G!Skip, G!Granted, Building
  <2> QED
    BY <2>1, <2>2 DEF AloneInv
<1> QED
  BY <1>1, <1>2

\* Calls that run one at a time keep the invariant.
LEMMA NextAlone ==
  ASSUME G!TypeOK, AloneInv, [G!Next]_G!vars, \A v, w \in G!InFlight' : v = w
  PROVE  AloneInv'
<1>1. CASE UNCHANGED G!vars
  BY <1>1 DEF G!vars, AloneInv, BuildsRecent, Building, Recent, G!InFlight, G!ReturnedIsFresh
<1>2. CASE G!Next
  BY <1>2, UpdateAlone, CallAlone, LoadAlone, OpenAlone, BeginAlone, FinishAlone, CloseAlone,
    LoadFailsAlone, ThrowAlone, NobodyInterferes DEF G!Next, G!Work, G!Stage, G!BuildChannel
<1> QED
  BY <1>1, <1>2

\* Whether calls overlap or not, the guide keeps its types.
THEOREM GuideKeepsTypes == G!Spec => []G!TypeOK
  BY InitGuideType, NextGuideType, PTL DEF G!Spec

\* While calls run one at a time, a call that has returned leaves a guide of its
\* channels that is no older than the call, whatever is saved meanwhile, but for
\* channels whose build threw.
THEOREM SerialCallsAreFresh ==
  G!Spec /\ [][\A v, w \in G!InFlight' : v = w]_G!vars => []G!ReturnedIsFresh
<1>1. AloneInv => G!ReturnedIsFresh
  BY DEF AloneInv
<1>2. G!TypeOK /\ AloneInv /\ [G!Next]_G!vars /\ [\A v, w \in G!InFlight' : v = w]_G!vars => AloneInv'
  <2> SUFFICES ASSUME G!TypeOK, AloneInv, [G!Next]_G!vars,
                      [\A v, w \in G!InFlight' : v = w]_G!vars
               PROVE  AloneInv'
    OBVIOUS
  <2>1. CASE \A v, w \in G!InFlight' : v = w
    BY <2>1, NextAlone
  <2>2. CASE UNCHANGED G!vars
    BY <2>2 DEF G!vars, AloneInv, BuildsRecent, Building, Recent, G!InFlight, G!ReturnedIsFresh
  <2> QED
    BY <2>1, <2>2
<1> QED
  BY <1>1, <1>2, InitAlone, GuideKeepsTypes, PTL DEF G!Spec

-----------------------------------------------------------------------------
(***************************************************************************)
(* The run: a behaviour of MCServices moves one of the services and is one *)
(* of each of them, with the others at rest; its bounds only leave         *)
(* behaviours out.                                                         *)
(***************************************************************************)

PoolProofs == INSTANCE WorkerPoolProofs

\* The pool of the run is the one WorkerPoolProofs is about.
LEMMA SameInit == P!Init <=> PoolProofs!Init
  BY DEF P!Init, PoolProofs!Init, P!Worker, PoolProofs!Worker, P!Index, PoolProofs!Index, P!None,
    PoolProofs!None, P!NewWorker, PoolProofs!NewWorker, P!NoWorker, PoolProofs!NoWorker

\* Its types are the same too.
LEMMA SameTypes == P!TypeOK <=> PoolProofs!TypeOK
  BY DEF P!TypeOK, PoolProofs!TypeOK, P!Worker, PoolProofs!Worker, P!Index, PoolProofs!Index,
    P!None, PoolProofs!None, P!Life, PoolProofs!Life, P!Setup, PoolProofs!Setup

\* So are the steps of a request.
LEMMA SameRequests == ASSUME NEW r \in Request
  PROVE /\ P!Post(r) => PoolProofs!Post(r)
        /\ P!Retry(r) => PoolProofs!Retry(r)
        /\ P!Reply(r) => PoolProofs!Reply(r)
  BY DEF P!Post, PoolProofs!Post, P!Retry, PoolProofs!Retry, P!Reply, PoolProofs!Reply,
    P!Advance, PoolProofs!Advance, P!Waiting, PoolProofs!Waiting

\* So is the room for another worker.
LEMMA SameRoom == P!Room <=> PoolProofs!Room
<1>1. P!Broken = PoolProofs!Broken
  BY DEF P!Broken, PoolProofs!Broken, P!Worker, PoolProofs!Worker
<1>2. P!Cardinality(P!Broken) = PoolProofs!Cardinality(P!Broken)
  BY DEF P!Cardinality, PoolProofs!Cardinality
<1> QED
  BY <1>1, <1>2 DEF P!Room, PoolProofs!Room

\* So is the replacement of a worker.
LEMMA SameReplace == ASSUME NEW w, NEW now, NEW n, NEW c
  PROVE P!Replace(w, now, n, c) => PoolProofs!Replace(w, now, n, c)
  BY DEF P!Replace, PoolProofs!Replace, P!Worker, PoolProofs!Worker, P!NewWorker, PoolProofs!NewWorker

\* So is what an exit does to the requests of the worker.
LEMMA SameExit == ASSUME NEW w, NEW now
  PROVE P!ExitWith(w, now) => PoolProofs!ExitWith(w, now)
  BY SameReplace DEF P!ExitWith, PoolProofs!ExitWith, P!RejectOutstanding, PoolProofs!RejectOutstanding,
    P!StartPromise, PoolProofs!StartPromise

\* So is what an event leaves of a worker.
LEMMA SameEnding == ASSUME NEW w, NEW l, NEW s
  PROVE P!Ending(w, l, s) = PoolProofs!Ending(w, l, s)
  BY DEF P!Ending, PoolProofs!Ending

\* So is a worker that has gone.
LEMMA SameGone == ASSUME NEW w
  PROVE P!Gone(w) = PoolProofs!Gone(w) /\ P!FailedStart(w) = PoolProofs!FailedStart(w)
  BY SameEnding DEF P!Gone, PoolProofs!Gone, P!FailedStart, PoolProofs!FailedStart

\* So are the events of a worker.
LEMMA SameEvents == ASSUME NEW w \in P!Worker
  PROVE /\ P!Started(w) => PoolProofs!Started(w)
        /\ P!Error(w) => PoolProofs!Error(w)
        /\ P!ExitBroken(w) => PoolProofs!ExitBroken(w)
        /\ P!ExitRunning(w) => PoolProofs!ExitRunning(w)
        /\ P!ExitEarly(w) => PoolProofs!ExitEarly(w)
        /\ P!ExitStopped(w) => PoolProofs!ExitStopped(w)
<1>1. P!Started(w) => PoolProofs!Started(w)
  BY DEF P!Started, PoolProofs!Started, P!StartPromise, PoolProofs!StartPromise, P!Index, PoolProofs!Index
<1>2. P!Error(w) => PoolProofs!Error(w)
  BY SameReplace, SameEnding, SameRoom DEF P!Error, PoolProofs!Error,
    P!RejectOutstanding, PoolProofs!RejectOutstanding
<1>3. P!ExitBroken(w) => PoolProofs!ExitBroken(w)
  BY SameExit, SameGone DEF P!ExitBroken, PoolProofs!ExitBroken
<1>4. P!ExitRunning(w) => PoolProofs!ExitRunning(w)
  BY SameExit, SameGone, SameRoom DEF P!ExitRunning, PoolProofs!ExitRunning
<1>5. P!ExitEarly(w) => PoolProofs!ExitEarly(w)
  BY SameExit, SameGone, SameRoom DEF P!ExitEarly, PoolProofs!ExitEarly
<1>6. P!ExitStopped(w) => PoolProofs!ExitStopped(w)
  BY SameExit, SameGone DEF P!ExitStopped, PoolProofs!ExitStopped
<1> QED
  BY <1>1, <1>2, <1>3, <1>4, <1>5, <1>6

\* So are all the steps of the pool.
LEMMA SameNext == P!Next => PoolProofs!Next
<1>1. P!Worker = PoolProofs!Worker
  BY DEF P!Worker, PoolProofs!Worker
<1>2. P!Shutdown => PoolProofs!Shutdown
  BY <1>1 DEF P!Shutdown, PoolProofs!Shutdown
<1>3. P!ShutdownEnds => PoolProofs!ShutdownEnds
  BY <1>1 DEF P!ShutdownEnds, PoolProofs!ShutdownEnds
<1> QED
  BY <1>1, <1>2, <1>3, SameEvents, SameRequests DEF P!Next, PoolProofs!Next
-----------------------------------------------------------------------------
\* What a behaviour of MCServices keeps of all its parts together.
ServicesInv ==
  /\ PoolProofs!IInv
  /\ ScanInv
  /\ G!TypeOK
  /\ Serial => AloneInv
  /\ DemandInv

\* All parts begin with their invariants.
LEMMA InitServicesInv == Init => ServicesInv
<1>1. P!Init => PoolProofs!IInv
  BY SameInit, PoolProofs!InitInv, PoolAssumption
<1> QED
  BY <1>1, InitScanInv, InitGuideType, InitAlone, InitDemandInv DEF Init, ServicesInv

\* A step of the run is a step or a stutter of each part, and does not change which of them moves.
LEMMA StepOfParts == [Next]_vars =>
  /\ UNCHANGED part
  /\ [PoolProofs!Next]_PoolProofs!vars
  /\ [C!Next]_C!vars
  /\ [G!Next]_G!vars
  /\ [D!Next]_D!vars
  /\ Serial => OneAtATime \/ UNCHANGED G!vars
<1> SUFFICES ASSUME [Next]_vars
             PROVE  /\ UNCHANGED part
                    /\ [P!Next]_poolVars /\ [C!Next]_scanVars
                    /\ [G!Next]_guideVars /\ [D!Next]_demandVars
                    /\ Serial => OneAtATime \/ UNCHANGED guideVars
  BY SameNext DEF PoolProofs!vars, C!vars, G!vars, D!vars, D!lineupVars, D!lockVars, D!sessionVars,
    poolVars, scanVars, guideVars, demandVars
<1>1. CASE Pool /\ P!Next /\ UNCHANGED <<part, scanVars, guideVars, demandVars>>
  BY <1>1
<1>2. CASE Scan /\ C!Next /\ UNCHANGED <<part, poolVars, guideVars, demandVars>>
  BY <1>2
<1>3. CASE /\ Guide /\ G!Next /\ (Serial => OneAtATime)
           /\ UNCHANGED <<part, poolVars, scanVars, demandVars>>
  BY <1>3
<1>4. CASE OnDemand /\ D!Next /\ UNCHANGED <<part, poolVars, scanVars, guideVars>>
  BY <1>4
<1>5. CASE UNCHANGED vars
  BY <1>5 DEF vars
<1> QED
  BY <1>1, <1>2, <1>3, <1>4, <1>5 DEF Next

\* Whichever part moves, it keeps its invariant, and so do those at rest.
LEMMA NextServicesInv == ServicesInv /\ [Next]_vars => ServicesInv'
<1> SUFFICES ASSUME ServicesInv, [Next]_vars PROVE ServicesInv'
  OBVIOUS
<1>1. PoolProofs!IInv'
  BY StepOfParts, PoolProofs!StepInv, PoolAssumption DEF ServicesInv
<1>2. ScanInv' /\ G!TypeOK' /\ DemandInv'
  BY StepOfParts, NextScanInv, NextGuideType, NextDemandInv DEF ServicesInv
<1>3. (Serial => AloneInv)'
  <2> SUFFICES ASSUME Serial' PROVE AloneInv'
    OBVIOUS
  <2>1. Serial /\ AloneInv /\ G!TypeOK
    BY StepOfParts DEF ServicesInv, Serial
  <2>2. CASE OneAtATime
    BY <2>1, <2>2, StepOfParts, NextAlone DEF OneAtATime
  <2>3. CASE UNCHANGED G!vars
    BY <2>1, <2>3 DEF G!vars, AloneInv, BuildsRecent, Building, Recent, G!InFlight, G!ReturnedIsFresh
  <2> QED
    BY <2>1, <2>2, <2>3, StepOfParts
<1> QED
  BY <1>1, <1>2, <1>3 DEF ServicesInv

\* The invariant of the parts holds of the run's behaviours.
THEOREM ServicesKeepInv == Spec => []ServicesInv
  BY InitServicesInv, NextServicesInv, PTL DEF Spec

\* Every variable of the four services keeps its type.
THEOREM TypesAreKept == Spec => []TypeOK
<1>1. ServicesInv => TypeOK
  BY SameTypes DEF ServicesInv, PoolProofs!IInv, ScanInv, DemandInv, TypeOK
<1> QED
  BY <1>1, ServicesKeepInv, PTL

\* No request of the pool waits for a worker that has exited.
THEOREM RequestsAreTracked == Spec => []WaitingIsTracked
<1>1. ServicesInv => WaitingIsTracked
  BY DEF ServicesInv, PoolProofs!IInv, WaitingIsTracked, PoolProofs!WaitingIsTracked,
    Waiting, PoolProofs!Waiting, Index, PoolProofs!Index
<1> QED
  BY <1>1, ServicesKeepInv, PTL

\* The locks and controllers are those of the scans that wait or run.
THEOREM ScansGiveBack == Spec => []LocksAreScans
<1>1. ServicesInv => LocksAreScans
  BY DEF ServicesInv, ScanInv
<1> QED
  BY <1>1, ServicesKeepInv, PTL

\* While the guide's calls run one at a time, one that has returned leaves a fresh guide.
THEOREM ReturnedGuideIsFresh == Spec => []ReturnedIsFresh
<1>1. ServicesInv => ReturnedIsFresh
  BY DEF ServicesInv, AloneInv, ReturnedIsFresh
<1> QED
  BY <1>1, ServicesKeepInv, PTL

\* The cursor of an on-demand channel counts no time twice and none that was not played.
THEOREM CursorCountsOnce == Spec => []CountsPlayedTimeOnce
<1>1. ServicesInv => CountsPlayedTimeOnce
  BY DEF ServicesInv, DemandInv, Accounted, CountsPlayedTimeOnce
<1> QED
  BY <1>1, ServicesKeepInv, PTL
=============================================================================
