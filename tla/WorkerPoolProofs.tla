-------------------------- MODULE WorkerPoolProofs --------------------------
(***************************************************************************)
(* Proofs about the worker pool, for every number of slots, bound of       *)
(* workers, set of requests and number of tries.                           *)
(*                                                                         *)
(* That no request hangs rests on who may be in a slot: until the pool is  *)
(* shut down, a slot whose first worker has settled its start holds a      *)
(* worker that has not exited, because every exit behind a settled start   *)
(* puts a fresh worker there, and a slot whose first worker has not is not *)
(* ready.  So a request is never posted to a worker whose exit is over.    *)
(***************************************************************************)
EXTENDS WorkerPool, TLAPS

WorkerRecord == [index : Index, life : Life, setup : Setup, caught : BOOLEAN]

Settled(i) == StartPromise(i) # "pending"

\* The workers created so far; the first of them keep their index.
Numbering ==
  /\ created \in Size..Limit
  /\ \A i \in Index : worker[i].index = i
  /\ \A w \in Worker : w > created => worker[w].life = "none"
  /\ \A i \in Index : slot[i].worker \in 1..created /\ worker[slot[i].worker].index = i

\* A later worker is set up behind the first start only.
ReplacedWhenSettled ==
  \A w \in 1..created : w \notin Index => Settled(worker[w].index)

PendingIsFirst == \A i \in Index : ~Settled(i) => slot[i].worker = i /\ ~slot[i].ready

SlotLives ==
  ~shut => ~terminating /\ \A i \in Index : Settled(i) => worker[slot[i].worker].life # "gone"

\* Requests that were posted went to a worker there is.
PostedWasCreated ==
  \A r \in Request :
    /\ Waiting(r) \/ r \in listener => call[r].to \in 1..created
    /\ call[r].future = "none" => call[r].tries < Attempts

IInv ==
  /\ TypeOK /\ Numbering /\ ReplacedWhenSettled /\ PendingIsFirst /\ SlotLives
  /\ PostedWasCreated /\ WaitingIsTracked

-----------------------------------------------------------------------------
\* There is a first index, and every index is the number of a worker.
LEMMA Bounds ==
  /\ Size \in Nat \ {0} /\ Limit \in Nat /\ Size <= Limit /\ Attempts \in Nat \ {0}
  /\ Index \subseteq Worker /\ 1 \in Index
BY PoolAssumption DEF Index, Worker

\* Every slot has a worker that starts, nothing is requested.
LEMMA InitInv == Init => IInv
<1> SUFFICES ASSUME Init PROVE IInv
  OBVIOUS
<1> USE Bounds DEF Init
<1>1. /\ \A i \in Index : worker[i] = NewWorker(i, FALSE) /\ slot[i] = [worker |-> i, ready |-> FALSE]
      /\ \A w \in Worker : w \notin Index => worker[w] = NoWorker
      /\ \A r \in Request : call[r] = [tries |-> 0, future |-> "none", to |-> None]
  OBVIOUS
<1>2. /\ \A i \in Index : NewWorker(i, FALSE) \in WorkerRecord
      /\ NoWorker \in WorkerRecord
  BY DEF NewWorker, NoWorker, WorkerRecord, Life, Setup
<1>3. created = Size /\ created \in Worker /\ (\A w : w \in 1..created <=> w \in Index)
  BY DEF Index, Worker
<1>4. TypeOK
  <2>1. worker \in [Worker -> WorkerRecord]
    BY <1>1, <1>2
  <2>2. slot \in [Index -> [worker : Worker, ready : BOOLEAN]]
    OBVIOUS
  <2>3. call \in [Request -> [tries : 0..Attempts, to : Worker \cup {None},
                              future : Setup \cup {"none", "refused"}]]
    BY DEF None
  <2> QED BY <1>3, <2>1, <2>2, <2>3 DEF TypeOK, WorkerRecord
<1>5. Numbering
  <2>1. \A w \in Worker : w > created => w \notin Index
    BY <1>3 DEF Index
  <2> QED BY <1>1, <1>3, <2>1 DEF Numbering, NewWorker, NoWorker
<1>6. ReplacedWhenSettled /\ PendingIsFirst /\ SlotLives
  BY <1>1, <1>3 DEF ReplacedWhenSettled, PendingIsFirst, SlotLives, NewWorker
<1>7. PostedWasCreated
  BY <1>1 DEF PostedWasCreated, Waiting
<1>8. WaitingIsTracked
  BY <1>1 DEF WaitingIsTracked, Waiting
<1> QED BY <1>4, <1>5, <1>6, <1>7, <1>8 DEF IInv

-----------------------------------------------------------------------------
\* What is in the slot of an index when w has become `now`: the same worker, or a fresh one.
Same(w, now) == worker' = [worker EXCEPT ![w] = now] /\ UNCHANGED <<created, slot>>
Fresh(w, now) ==
  /\ created' \in created + 1 .. Limit
  /\ worker' \in [Worker -> WorkerRecord]
  /\ worker'[w] = now
  /\ \A v \in Worker : v # w /\ ~(created < v /\ v <= created') => worker'[v] = worker[v]
  /\ \A v \in created + 1 .. created' : worker'[v].index = worker[w].index /\ worker'[v].life = "starting"
  /\ slot' = [slot EXCEPT ![worker[w].index] = [worker |-> created', ready |-> FALSE]]

\* Whether the start of its index has settled when w has become `now`.
StartAfter(w, now) == (IF w \in Index THEN now.setup ELSE StartPromise(now.index)) # "pending"

\* A replacement leaves the slot with the worker as it became, or with a fresh one.
LEMMA ReplaceEffect ==
  ASSUME IInv, NEW w \in 1..created, NEW now \in WorkerRecord, NEW n \in 0..2,
         NEW caught \in BOOLEAN, Replace(w, now, n, caught)
  PROVE  IF terminating \/ n = 0 THEN Same(w, now) ELSE Fresh(w, now)
<1>1. CASE terminating \/ n = 0
  BY <1>1 DEF Replace, Same
<1>2. CASE ~(terminating \/ n = 0)
  <2> DEFINE i == worker[w].index
  <2>1. /\ created \in Nat /\ created <= Limit /\ Limit \in Nat /\ w \in Worker /\ i \in Index
        /\ worker \in [Worker -> WorkerRecord]
    BY Bounds DEF IInv, TypeOK, Numbering, Worker, Index, WorkerRecord
  <2>2. /\ created' = created + n /\ created + n <= Limit
        /\ worker' = [v \in Worker |->
                        IF v = w THEN now
                        ELSE IF v \in created + 1 .. created + n
                             THEN NewWorker(i, caught /\ v = created + 1)
                        ELSE worker[v]]
        /\ slot' = [slot EXCEPT ![i] = [worker |-> created + n, ready |-> FALSE]]
    BY <1>2 DEF Replace
  <2>3. \A c \in BOOLEAN : NewWorker(i, c) \in WorkerRecord
    BY <2>1 DEF NewWorker, WorkerRecord, Life, Setup
  <2>4. worker' \in [Worker -> WorkerRecord]
    BY <2>1, <2>2, <2>3
  <2>5. created' \in created + 1 .. Limit
    BY <1>2, <2>1, <2>2
  <2>6. \A v \in created + 1 .. created' : v \in Worker /\ v # w
    BY <2>1, <2>5 DEF Worker
  <2>7. \A v \in created + 1 .. created' : worker'[v] = NewWorker(i, caught /\ v = created + 1)
    BY <2>2, <2>6
  <2>8. \A v \in Worker : v # w /\ ~(created < v /\ v <= created') => worker'[v] = worker[v]
    BY <2>1, <2>2 DEF Worker
  <2>9. \A c : NewWorker(i, c).index = i /\ NewWorker(i, c).life = "starting"
    BY DEF NewWorker
  <2>9a. \A v \in created + 1 .. created' : worker'[v].index = i /\ worker'[v].life = "starting"
    BY <2>7, <2>9
  <2>10. worker'[w] = now
    BY <2>1, <2>2
  <2>11. slot' = [slot EXCEPT ![i] = [worker |-> created', ready |-> FALSE]]
    BY <2>2
  <2>12. Fresh(w, now)
    BY <2>4, <2>5, <2>8, <2>9a, <2>10, <2>11 DEF Fresh
  <2> QED BY <1>2, <2>12
<1> QED BY <1>1, <1>2

\* The types after a step that rejects what is outstanding.
LEMMA RejectEffect ==
  ASSUME TypeOK, NEW i \in Index, RejectOutstanding(i)
  PROVE  /\ call' \in [Request -> [tries : 0..Attempts, to : Worker \cup {None},
                                   future : Setup \cup {"none", "refused"}]]
         /\ outstanding' \in [Index -> SUBSET Request]
         /\ outstanding'[i] = {}
         /\ \A j \in Index : j # i => outstanding'[j] = outstanding[j]
         /\ \A r \in Request : /\ call'[r].to = call[r].to /\ call'[r].tries = call[r].tries
                               /\ r \in outstanding[i] => call'[r].future = "rejected"
                               /\ r \notin outstanding[i] => call'[r] = call[r]
BY DEF TypeOK, RejectOutstanding, Setup

(***************************************************************************)
(* A worker w fails or exits: its setup, once settled, stays so; a fresh   *)
(* worker is set up only behind a settled start; and when w is gone behind *)
(* a settled start, there is a fresh one.                                  *)
(***************************************************************************)
LEMMA EndOfWorker ==
  ASSUME IInv, NEW w \in 1..created, NEW now \in WorkerRecord, NEW i \in Index,
         worker[w].index = i, now.index = i,
         now.life \in {"broken", "gone"},
         worker[w].setup # "pending" => now.setup # "pending",
         Same(w, now) \/ Fresh(w, now),
         Fresh(w, now) => StartAfter(w, now),
         ~terminating /\ now.life = "gone" /\ StartAfter(w, now) => Fresh(w, now),
         RejectOutstanding(i),
         UNCHANGED <<last, listener, terminating, shut>>
  PROVE  IInv'
<1> USE DEF IInv
<1>T. /\ created \in Nat /\ created <= Limit /\ Limit \in Nat /\ w \in Worker /\ i \in Index
      /\ Size \in Nat /\ Size <= created
      /\ worker \in [Worker -> WorkerRecord]
      /\ slot \in [Index -> [worker : Worker, ready : BOOLEAN]]
      /\ \A v \in 1..created : v \in Worker
      /\ \A j \in Index : j \in 1..created /\ worker[j].index = j
  BY Bounds DEF TypeOK, Numbering, Worker, Index, WorkerRecord
<1>W. w \in Index => i = w
  BY <1>T
<1>R. /\ call' \in [Request -> [tries : 0..Attempts, to : Worker \cup {None},
                                future : Setup \cup {"none", "refused"}]]
      /\ outstanding' \in [Index -> SUBSET Request]
      /\ outstanding'[i] = {}
      /\ \A j \in Index : j # i => outstanding'[j] = outstanding[j]
      /\ \A r \in Request : /\ call'[r].to = call[r].to /\ call'[r].tries = call[r].tries
                            /\ r \in outstanding[i] => call'[r].future = "rejected"
                            /\ r \notin outstanding[i] => call'[r] = call[r]
  BY <1>T, RejectEffect
<1>1. /\ worker' \in [Worker -> WorkerRecord] /\ worker'[w] = now
      /\ created' \in created..Limit
      /\ \A v \in 1..created : v # w => worker'[v] = worker[v]
      /\ \A v \in created + 1 .. created' : worker'[v].index = i /\ worker'[v].life = "starting"
      /\ \A v \in Worker : v > created' => worker'[v].life = "none"
  <2>1. CASE Same(w, now)
    BY <1>T, <2>1 DEF Same, Numbering
  <2>2. CASE Fresh(w, now)
    BY <1>T, <2>2 DEF Fresh, Numbering
  <2> QED BY <2>1, <2>2
<1>2. /\ slot' \in [Index -> [worker : Worker, ready : BOOLEAN]]
      /\ \A j \in Index : j # i => slot'[j] = slot[j]
      /\ \/ slot'[i] = slot[i] /\ Same(w, now)
         \/ slot'[i] = [worker |-> created', ready |-> FALSE] /\ created' > created /\ Fresh(w, now)
  <2>1. CASE Same(w, now)
    BY <1>T, <2>1 DEF Same
  <2>2. CASE Fresh(w, now)
    <3>1. created' \in Worker /\ created' > created
      BY <1>T, <2>2 DEF Fresh, Worker
    <3> QED BY <1>T, <2>2, <3>1 DEF Fresh
  <2> QED BY <2>1, <2>2
<1>3. TypeOK'
  <2>1. created' \in Worker
    BY <1>T, <1>1, Bounds DEF Worker
  <2> QED BY <1>R, <1>1, <1>2, <2>1 DEF TypeOK, WorkerRecord
<1>I. \A v \in 1..created : worker'[v].index = worker[v].index
  BY <1>1
<1>4. Numbering'
  <2>1. created' \in Size..Limit
    BY <1>T, <1>1
  <2>2. \A j \in Index : worker'[j].index = j
    BY <1>T, <1>I
  <2>3. \A j \in Index : slot'[j].worker \in 1..created' /\ worker'[slot'[j].worker].index = j
    <3> SUFFICES ASSUME NEW j \in Index
                 PROVE  slot'[j].worker \in 1..created' /\ worker'[slot'[j].worker].index = j
      OBVIOUS
    <3>1. CASE slot'[j] = slot[j]
      <4>1. slot[j].worker \in 1..created /\ worker[slot[j].worker].index = j
        BY DEF Numbering
      <4> QED BY <1>T, <1>1, <1>I, <3>1, <4>1
    <3>2. CASE slot'[j] # slot[j]
      <4>1. j = i /\ slot'[i].worker = created' /\ created' > created
        BY <1>2, <3>2
      <4>2. created' \in created + 1 .. created' /\ created' \in 1..created'
        BY <1>T, <1>1, <4>1
      <4> QED BY <1>1, <4>1, <4>2
    <3> QED BY <3>1, <3>2
  <2> QED BY <1>1, <2>1, <2>2, <2>3 DEF Numbering
<1>5. /\ \A j \in Index : j # i => (Settled(j)' <=> Settled(j))
      /\ Settled(i)' <=> StartAfter(w, now)
      /\ Settled(i) => Settled(i)'
  <2>1. \A j \in Index : j # w => (Settled(j)' <=> Settled(j))
    BY <1>T, <1>1 DEF Settled, StartPromise
  <2>2. w \in Index => (Settled(w)' <=> now.setup # "pending")
    BY <1>1 DEF Settled, StartPromise
  <2>3. CASE w \in Index
    BY <1>W, <2>1, <2>2, <2>3 DEF StartAfter, Settled, StartPromise
  <2>4. CASE w \notin Index
    BY <1>T, <2>1, <2>4 DEF StartAfter, Settled, StartPromise
  <2> QED BY <2>3, <2>4
<1>6. ReplacedWhenSettled'
  <2> SUFFICES ASSUME NEW v \in 1..created', v \notin Index
               PROVE  worker'[worker'[v].index].setup # "pending"
    BY DEF ReplacedWhenSettled, Settled, StartPromise
  <2>1. CASE v \in 1..created
    <3>1. worker'[v].index = worker[v].index /\ worker[v].index \in Index
      BY <1>T, <1>I, <2>1 DEF WorkerRecord
    <3>2. Settled(worker[v].index)
      BY <2>1 DEF ReplacedWhenSettled
    <3>3. \A j \in Index : Settled(j) => Settled(j)'
      BY <1>5
    <3> QED BY <3>1, <3>2, <3>3 DEF Settled, StartPromise
  <2>2. CASE v \notin 1..created
    <3>1. v \in created + 1 .. created'
      BY <1>T, <1>1, <2>2
    <3>2. Fresh(w, now)
      BY <1>2, <1>T, <3>1 DEF Same
    <3> QED BY <1>1, <1>5, <3>1, <3>2 DEF Settled, StartPromise
  <2> QED BY <2>1, <2>2
<1>7. PendingIsFirst'
  <2> SUFFICES ASSUME NEW j \in Index, ~Settled(j)' PROVE slot'[j].worker = j /\ ~slot'[j].ready
    BY DEF PendingIsFirst
  <2>1. ~Settled(j)
    BY <1>5
  <2>2. slot'[j] = slot[j]
    BY <1>2, <1>5
  <2> QED BY <2>1, <2>2 DEF PendingIsFirst
<1>8. SlotLives'
  <2> SUFFICES ASSUME ~shut
               PROVE  /\ ~terminating
                      /\ \A j \in Index : Settled(j)' => worker'[slot'[j].worker].life # "gone"
    BY DEF SlotLives
  <2>1. ~terminating
    BY DEF SlotLives
  <2>2. ASSUME NEW j \in Index, Settled(j)', j # i PROVE worker'[slot'[j].worker].life # "gone"
    <3>1. slot'[j] = slot[j] /\ Settled(j)
      BY <1>2, <1>5, <2>2
    <3>2. slot[j].worker \in 1..created /\ worker[slot[j].worker].index = j
      BY DEF Numbering
    <3>3. worker'[slot[j].worker] = worker[slot[j].worker]
      BY <1>1, <2>2, <3>2
    <3> QED BY <3>1, <3>3 DEF SlotLives
  <2>3. ASSUME Settled(i)' PROVE worker'[slot'[i].worker].life # "gone"
    <3>1. CASE Fresh(w, now)
      <4>1. slot'[i].worker = created' /\ created' \in created + 1 .. created'
        BY <1>T, <3>1 DEF Fresh
      <4> QED BY <1>1, <4>1
    <3>2. CASE ~Fresh(w, now)
      <4>1. slot'[i] = slot[i] /\ now.life # "gone"
        BY <1>2, <1>5, <2>1, <2>3, <3>2
      <4>2. slot[i].worker \in 1..created
        BY DEF Numbering
      <4>3. CASE slot[i].worker = w
        BY <1>1, <4>1, <4>3
      <4>4. CASE slot[i].worker # w
        <5>1. worker'[slot[i].worker] = worker[slot[i].worker]
          BY <1>1, <4>2, <4>4
        <5>2. Settled(i)
          <6>1. ASSUME ~Settled(i) PROVE FALSE
            <7>1. i # w
              BY <4>4, <6>1 DEF PendingIsFirst
            <7>2. worker'[i] = worker[i]
              BY <1>T, <1>1, <7>1
            <7> QED BY <2>3, <6>1, <7>2 DEF Settled, StartPromise
          <6> QED BY <6>1
        <5> QED BY <4>1, <5>1, <5>2 DEF SlotLives
      <4> QED BY <4>3, <4>4
    <3> QED BY <3>1, <3>2
  <2> QED BY <2>1, <2>2, <2>3
<1>9. PostedWasCreated'
  <2> SUFFICES ASSUME NEW r \in Request
               PROVE  /\ Waiting(r)' \/ r \in listener => call'[r].to \in 1..created'
                      /\ call'[r].future = "none" => call'[r].tries < Attempts
    BY DEF PostedWasCreated
  <2>1. Waiting(r)' => Waiting(r)
    BY <1>R DEF Waiting
  <2>2. call'[r].future = "none" => call[r].future = "none"
    BY <1>R
  <2>3. \A v : v \in 1..created => v \in 1..created'
    BY <1>T, <1>1
  <2> QED BY <1>R, <2>1, <2>2, <2>3 DEF PostedWasCreated
<1>10. WaitingIsTracked'
  <2> SUFFICES ASSUME NEW r \in Request, NEW j \in Index
               PROVE  /\ r \in outstanding'[j] =>
                           Waiting(r)' /\ worker'[call'[r].to].index = j /\ r \in listener
                      /\ Waiting(r)' /\ worker'[call'[r].to].index = j /\ ~shut =>
                           r \in outstanding'[j] /\ worker'[call'[r].to].life # "gone"
    BY DEF WaitingIsTracked
  <2>1. call'[r].to = call[r].to
    BY <1>R
  <2>2. CASE r \in outstanding[i]
    <3>1. ~Waiting(r)' /\ r \notin outstanding'[i]
      BY <1>R, <2>2 DEF Waiting
    <3>2. worker[call[r].to].index = i
      BY <2>2 DEF WaitingIsTracked
    <3>3. r \notin outstanding'[j]
      BY <1>R, <3>1, <3>2 DEF WaitingIsTracked
    <3> QED BY <3>1, <3>3
  <2>3. CASE r \notin outstanding[i]
    <3>1. call'[r] = call[r] /\ (Waiting(r)' <=> Waiting(r))
      BY <1>R, <2>3 DEF Waiting
    <3>2. r \in outstanding'[j] => j # i /\ r \in outstanding[j]
      BY <1>R
    <3>3. Waiting(r) => call[r].to \in 1..created
      BY DEF PostedWasCreated
    <3>4. Waiting(r) => worker'[call[r].to].index = worker[call[r].to].index
      BY <1>I, <3>3
    <3>5. r \in outstanding'[j] => Waiting(r) /\ worker[call[r].to].index = j /\ r \in listener
      BY <3>2 DEF WaitingIsTracked
    <3>6. ASSUME Waiting(r), worker[call[r].to].index = j, ~shut
          PROVE  r \in outstanding'[j] /\ worker'[call[r].to].life # "gone"
      <4>1. r \in outstanding[j] /\ worker[call[r].to].life # "gone"
        BY <3>6 DEF WaitingIsTracked
      <4>2. j # i
        BY <2>3, <4>1
      <4>3. worker'[call[r].to] = worker[call[r].to]
        BY <1>1, <3>3, <3>6, <4>2
      <4> QED BY <1>R, <4>1, <4>2, <4>3
    <3> QED BY <3>1, <3>4, <3>5, <3>6
  <2> QED BY <2>2, <2>3
<1> QED BY <1>3, <1>4, <1>6, <1>7, <1>8, <1>9, <1>10

-----------------------------------------------------------------------------
\* Where a worker is, and what is known of its index.
LEMMA AliveIsCreated ==
  ASSUME IInv, NEW w \in Worker, worker[w].life # "none"
  PROVE  /\ w \in 1..created /\ worker[w] \in WorkerRecord /\ worker[w].index \in Index
         /\ w \in Index => worker[w].index = w
         /\ w \notin Index => Settled(worker[w].index)
<1>1. created \in Nat /\ w \in Nat /\ w >= 1 /\ worker[w] \in WorkerRecord
  BY Bounds DEF IInv, TypeOK, Numbering, Worker, WorkerRecord
<1>2. w \in 1..created
  BY <1>1 DEF IInv, Numbering
<1> QED BY <1>1, <1>2 DEF IInv, Numbering, ReplacedWhenSettled, WorkerRecord

\* 'error' keeps the invariant.
LEMMA ErrorInv ==
  ASSUME IInv, NEW w \in Worker, Error(w)
  PROVE  IInv'
<1> DEFINE fails == worker[w].setup = "pending"
           now   == Ending(w, "broken", IF fails THEN "rejected" ELSE worker[w].setup)
           n     == IF fails /\ worker[w].caught THEN 1 ELSE 0
           i     == worker[w].index
<1>1. /\ w \in 1..created /\ worker[w] \in WorkerRecord /\ i \in Index
      /\ w \in Index => i = w
      /\ w \notin Index => Settled(i)
  BY AliveIsCreated DEF Error
<1>2. /\ now \in WorkerRecord /\ now.index = i /\ now.life = "broken" /\ n \in 0..2
      /\ now.setup # "pending"
  BY <1>1 DEF WorkerRecord, Life, Setup, Ending
<1>3. /\ Replace(w, now, n, FALSE) /\ RejectOutstanding(i)
      /\ UNCHANGED <<last, listener, terminating, shut>>
  BY DEF Error
<1>4. StartAfter(w, now)
  BY <1>1, <1>2 DEF StartAfter, Settled
<1> HIDE DEF now, n, i
<1>5. Same(w, now) \/ Fresh(w, now)
  BY <1>1, <1>2, <1>3, ReplaceEffect
<1> QED BY <1>1, <1>2, <1>3, <1>4, <1>5, EndOfWorker DEF i

\* 'exit' keeps the invariant, whatever becomes of a setup that was pending.
LEMMA ExitInv ==
  ASSUME IInv, NEW w \in Worker, worker[w].life # "none",
         NEW now, now \in {Gone(w), FailedStart(w)},
         ExitWith(w, now)
  PROVE  IInv'
<1> DEFINE i     == worker[w].index
           start == IF w = i THEN now.setup ELSE StartPromise(i)
           twice == worker[w].caught /\ now.setup = "rejected" /\ worker[w].setup = "pending"
           n     == IF start = "pending" THEN 0 ELSE IF twice THEN 2 ELSE 1
           c     == start = "fulfilled"
<1>1. /\ w \in 1..created /\ worker[w] \in WorkerRecord /\ i \in Index
      /\ w \in Index => i = w
      /\ w \notin Index => Settled(i)
  BY AliveIsCreated
<1>2. /\ now \in WorkerRecord /\ now.index = i /\ now.life = "gone"
      /\ worker[w].setup # "pending" => now.setup # "pending"
  BY <1>1 DEF WorkerRecord, Life, Setup, Gone, FailedStart, Ending
<1>3. Replace(w, now, n, c) /\ RejectOutstanding(i) /\ UNCHANGED <<last, listener, terminating, shut>>
  BY DEF ExitWith
<1>4. n \in 0..2 /\ c \in BOOLEAN /\ (n # 0 <=> StartAfter(w, now))
  BY <1>1, <1>2 DEF StartAfter
<1> HIDE DEF n, c, i
<1>5. IF terminating \/ n = 0 THEN Same(w, now) ELSE Fresh(w, now)
  BY <1>1, <1>2, <1>3, <1>4, ReplaceEffect
<1>6. created \in Nat /\ (Same(w, now) => ~Fresh(w, now))
  BY Bounds DEF Same, Fresh, IInv, TypeOK, Worker
<1> QED BY <1>1, <1>2, <1>3, <1>4, <1>5, <1>6, EndOfWorker DEF i

-----------------------------------------------------------------------------
Calls == [tries : 0..Attempts, to : Worker \cup {None}, future : Setup \cup {"none", "refused"}]

\* What is asked of one request.
IsPosted(r) ==
  /\ Waiting(r) \/ r \in listener => call[r].to \in 1..created
  /\ call[r].future = "none" => call[r].tries < Attempts

IsTracked(r) ==
  \A i \in Index :
    /\ r \in outstanding[i] => Waiting(r) /\ worker[call[r].to].index = i /\ r \in listener
    /\ Waiting(r) /\ worker[call[r].to].index = i /\ ~shut =>
         r \in outstanding[i] /\ worker[call[r].to].life # "gone"

\* A step of one request leaves the others as they are.
LEMMA OneRequest ==
  ASSUME IInv, NEW r \in Request, UNCHANGED <<worker, created, slot, terminating, shut>>,
         \A q \in Request : q # r =>
           /\ call'[q] = call[q]
           /\ q \in listener' <=> q \in listener
           /\ \A i \in Index : q \in outstanding'[i] <=> q \in outstanding[i],
         IsPosted(r)', IsTracked(r)', TypeOK'
  PROVE  IInv'
<1> USE DEF IInv
<1>1. Numbering' /\ ReplacedWhenSettled' /\ PendingIsFirst' /\ SlotLives'
  BY DEF Numbering, ReplacedWhenSettled, PendingIsFirst, SlotLives, Settled, StartPromise
<1>2. ASSUME NEW q \in Request, q # r PROVE IsPosted(q)' /\ IsTracked(q)'
  <2>1. IsPosted(q) /\ IsTracked(q)
    BY DEF PostedWasCreated, IsPosted, WaitingIsTracked, IsTracked
  <2>2. IsPosted(q)'
    BY <1>2, <2>1 DEF IsPosted, Waiting
  <2>3. IsTracked(q)'
    BY <1>2, <2>1 DEF IsTracked, Waiting
  <2> QED BY <2>2, <2>3
<1>3. PostedWasCreated'
  BY <1>2 DEF PostedWasCreated, IsPosted
<1>4. WaitingIsTracked'
  BY <1>2 DEF WaitingIsTracked, IsTracked
<1> QED BY <1>1, <1>3, <1>4

\* The round robin comes back to the first index.
LEMMA AdvanceType ==
  ASSUME last \in Index, Advance
  PROVE  last' \in Index
BY Bounds DEF Advance, Index

\* queueTask finds the slot ready.
LEMMA PostInv ==
  ASSUME IInv, NEW r \in Request, Post(r)
  PROVE  IInv'
<1> USE DEF IInv
<1>1. /\ last \in Index /\ last' \in Index
      /\ call \in [Request -> Calls] /\ outstanding \in [Index -> SUBSET Request]
      /\ listener \in SUBSET Request
  BY AdvanceType DEF TypeOK, Calls, Post
<1>P. /\ call[r].future = "none" /\ slot[last].ready
      /\ outstanding' = [outstanding EXCEPT ![last] = @ \cup {r}]
      /\ listener' = listener \cup {r}
      /\ UNCHANGED <<worker, created, slot, terminating, shut>>
  BY DEF Post
<1>2. /\ slot[last].worker \in 1..created /\ slot[last].worker \in Worker
      /\ worker[slot[last].worker].index = last
      /\ ~shut => worker[slot[last].worker].life # "gone"
  BY <1>1, <1>P DEF Numbering, TypeOK, PendingIsFirst, SlotLives
<1>5. /\ call'[r].future = "pending" /\ call'[r].to = slot[last].worker
      /\ \A q \in Request : q # r => call'[q] = call[q]
      /\ call' \in [Request -> Calls]
  BY <1>1, <1>2 DEF Post, Calls, Setup
<1>6. /\ outstanding' \in [Index -> SUBSET Request]
      /\ \A i \in Index : outstanding'[i] = IF i = last THEN outstanding[i] \cup {r} ELSE outstanding[i]
  BY <1>1, <1>P
<1>7. TypeOK'
  BY <1>1, <1>P, <1>5, <1>6 DEF TypeOK, Calls
<1>8. IsPosted(r)'
  BY <1>P, <1>2, <1>5 DEF IsPosted, Waiting
<1>9. \A i \in Index : r \notin outstanding[i]
  BY <1>P DEF WaitingIsTracked, Waiting
<1>10. IsTracked(r)'
  BY <1>1, <1>P, <1>2, <1>5, <1>6, <1>9 DEF IsTracked, Waiting
<1> QED BY <1>P, <1>5, <1>6, <1>7, <1>8, <1>10, OneRequest

\* queueTask does not.
LEMMA RetryInv ==
  ASSUME IInv, NEW r \in Request, Retry(r)
  PROVE  IInv'
<1> USE DEF IInv
<1> DEFINE future == IF call[r].tries + 1 = Attempts THEN "refused" ELSE "none"
<1>1. last' \in Index /\ call \in [Request -> Calls]
  BY AdvanceType DEF TypeOK, Calls, Retry
<1>P. /\ call[r].future = "none" /\ UNCHANGED <<worker, created, slot, outstanding, listener, terminating, shut>>
      /\ call' = [call EXCEPT ![r] = [tries |-> call[r].tries + 1, to |-> call[r].to, future |-> future]]
  BY DEF Retry
<1>2. call[r].tries \in Nat /\ call[r].tries < Attempts /\ Attempts \in Nat
  BY <1>1, <1>P, Bounds DEF Calls, PostedWasCreated
<1>5. /\ call'[r].future = future /\ call'[r].tries = call[r].tries + 1
      /\ call'[r].to = call[r].to
      /\ \A q \in Request : q # r => call'[q] = call[q]
      /\ call' \in [Request -> Calls]
  BY <1>1, <1>P, <1>2 DEF Calls
<1>6. TypeOK'
  BY <1>1, <1>P, <1>5 DEF TypeOK, Calls
<1>7. ~Waiting(r) /\ ~Waiting(r)'
  BY <1>P, <1>5 DEF Waiting
<1>8. IsPosted(r)'
  BY <1>P, <1>2, <1>5, <1>7 DEF PostedWasCreated, IsPosted
<1>9. \A i \in Index : r \notin outstanding[i]
  BY <1>7 DEF WaitingIsTracked
<1>10. IsTracked(r)'
  BY <1>P, <1>7, <1>9 DEF IsTracked
<1> QED BY <1>P, <1>5, <1>6, <1>8, <1>10, OneRequest

\* A worker replies.
LEMMA ReplyInv ==
  ASSUME IInv, NEW r \in Request, Reply(r)
  PROVE  IInv'
<1> USE DEF IInv
<1>1. /\ r \in listener /\ listener' = listener \ {r}
      /\ outstanding' = [outstanding EXCEPT ![worker[call[r].to].index] = @ \ {r}]
      /\ UNCHANGED <<worker, created, slot, last, terminating, shut>>
      /\ \/ \E answer \in {"fulfilled", "rejected"} : call' = [call EXCEPT ![r].future = answer]
         \/ ~Waiting(r) /\ UNCHANGED call
  BY DEF Reply
<1>2. /\ call \in [Request -> Calls] /\ outstanding \in [Index -> SUBSET Request]
      /\ listener \in SUBSET Request
  BY DEF TypeOK, Calls
<1>3. /\ call' \in [Request -> Calls] /\ ~Waiting(r)'
      /\ call'[r].future = "none" => call'[r].tries < Attempts
      /\ \A q \in Request : q # r => call'[q] = call[q]
  <2>1. CASE ~Waiting(r) /\ UNCHANGED call
    BY <1>2, <2>1 DEF Waiting, PostedWasCreated
  <2>2. ASSUME NEW answer \in {"fulfilled", "rejected"}, call' = [call EXCEPT ![r].future = answer]
        PROVE  /\ call' \in [Request -> Calls] /\ call'[r].future = answer
               /\ \A q \in Request : q # r => call'[q] = call[q]
    BY <1>2, <2>2 DEF Calls, Setup
  <2> QED BY <1>1, <2>1, <2>2 DEF Waiting
<1>5. \A i \in Index : r \in outstanding[i] => i = worker[call[r].to].index
  BY DEF WaitingIsTracked
<1>6. /\ outstanding' \in [Index -> SUBSET Request]
      /\ \A i \in Index : r \notin outstanding'[i]
      /\ \A i \in Index, q \in Request : q # r => (q \in outstanding'[i] <=> q \in outstanding[i])
  BY <1>1, <1>2, <1>5
<1>7. TypeOK'
  BY <1>1, <1>2, <1>3, <1>6 DEF TypeOK, Calls
<1>8. IsPosted(r)' /\ IsTracked(r)'
  BY <1>1, <1>3, <1>6 DEF IsPosted, IsTracked
<1> QED BY <1>1, <1>3, <1>6, <1>7, <1>8, OneRequest

\* A step that creates no worker, moves none to another index and unsettles no start.
LEMMA WorkersStay ==
  ASSUME IInv, created' = created, worker' \in [Worker -> WorkerRecord],
         \A i \in Index : slot'[i].worker = slot[i].worker,
         \A v \in Worker : /\ worker'[v].index = worker[v].index
                           /\ worker[v].life = "none" => worker'[v].life = "none"
                           /\ worker[v].setup # "pending" => worker'[v].setup # "pending"
  PROVE  /\ Numbering' /\ ReplacedWhenSettled'
         /\ \A v \in 1..created : v \in Worker
<1> USE DEF IInv
<1>1. \A v \in 1..created : v \in Worker
  BY Bounds DEF Numbering, Worker
<1>2. \A v \in Worker : worker[v].index \in Index
  BY DEF TypeOK
<1>3. Numbering'
  <2>1. \A i \in Index : worker'[i].index = i
    BY Bounds DEF Numbering
  <2>2. \A i \in Index : slot'[i].worker \in 1..created /\ worker'[slot'[i].worker].index = i
    BY <1>1 DEF Numbering
  <2>3. \A w \in Worker : w > created => worker'[w].life = "none"
    BY DEF Numbering
  <2> QED BY <2>1, <2>2, <2>3 DEF Numbering
<1>4. ReplacedWhenSettled'
  <2> SUFFICES ASSUME NEW v \in 1..created, v \notin Index
               PROVE  worker'[worker'[v].index].setup # "pending"
    BY DEF ReplacedWhenSettled, Settled, StartPromise
  <2>1. v \in Worker /\ worker'[v].index = worker[v].index
    BY <1>1
  <2>2. worker[v].index \in Worker /\ worker[worker[v].index].setup # "pending"
    BY <1>2, <2>1, Bounds DEF ReplacedWhenSettled, Settled, StartPromise
  <2> QED BY <2>1, <2>2
<1> QED BY <1>1, <1>3, <1>4

\* A worker has started.
LEMMA StartedInv ==
  ASSUME IInv, NEW w \in Worker, Started(w)
  PROVE  IInv'
<1> DEFINE i == worker[w].index
<1> USE DEF IInv
<1>1. /\ w \in 1..created /\ worker[w] \in WorkerRecord /\ i \in Index
      /\ w \in Index => i = w
      /\ w \notin Index => Settled(i)
  <2>1. worker[w].life # "none"
    BY DEF Started
  <2> QED BY <2>1, AliveIsCreated
<1>2. /\ worker[w].life \in {"starting", "stopping"} /\ worker[w].setup = "pending"
      /\ UNCHANGED <<created, last, outstanding, listener, call, shut>>
      /\ terminating' \in BOOLEAN /\ (~terminating => ~terminating')
  BY DEF Started, TypeOK
<1>3. /\ worker' \in [Worker -> WorkerRecord]
      /\ worker'[w].index = i /\ worker'[w].setup = "fulfilled"
      /\ worker'[w].life \in {"running", "stopping"}
      /\ \A v \in Worker : v # w => worker'[v] = worker[v]
  BY <1>1, <1>2 DEF Started, TypeOK, WorkerRecord, Life, Setup
<1>4. /\ slot' \in [Index -> [worker : Worker, ready : BOOLEAN]]
      /\ \A j \in Index : slot'[j].worker = slot[j].worker
      /\ \A j \in Index : j # i => slot'[j] = slot[j]
  BY <1>1 DEF Started, TypeOK
<1>5. \A v \in Worker : /\ worker'[v].index = worker[v].index
                        /\ worker'[v].life = "gone" => worker[v].life = "gone"
                        /\ worker[v].life = "none" => worker'[v].life = "none"
  BY <1>2, <1>3
<1>6. \A j \in Index : (Settled(j) => Settled(j)') /\ (j # w => (Settled(j)' <=> Settled(j)))
  BY <1>3, Bounds DEF Settled, StartPromise
<1>7. Settled(w)'
  BY <1>3 DEF Settled, StartPromise
<1>8. TypeOK'
  BY <1>2, <1>3, <1>4 DEF TypeOK, WorkerRecord
<1>9. Numbering' /\ ReplacedWhenSettled' /\ \A v \in 1..created : v \in Worker
  <2>1. \A v \in Worker : worker[v].setup # "pending" => worker'[v].setup # "pending"
    BY <1>3
  <2> QED BY <1>2, <1>3, <1>4, <1>5, <2>1, WorkersStay
<1>12. PendingIsFirst'
  <2> SUFFICES ASSUME NEW j \in Index, ~Settled(j)' PROVE slot'[j].worker = j /\ ~slot'[j].ready
    BY DEF PendingIsFirst
  <2>1. ~Settled(j) /\ j # w
    BY <1>6, <1>7
  <2>2. j # i
    BY <1>1, <2>1
  <2> QED BY <1>4, <2>1, <2>2 DEF PendingIsFirst
<1>13. SlotLives'
  <2> SUFFICES ASSUME ~shut, NEW j \in Index, Settled(j)'
               PROVE  ~terminating' /\ worker'[slot[j].worker].life # "gone"
    BY <1>2, <1>4 DEF SlotLives
  <2>1. slot[j].worker \in Worker
    BY DEF TypeOK
  <2>2. CASE Settled(j)
    BY <1>2, <1>5, <2>1, <2>2 DEF SlotLives
  <2>3. CASE ~Settled(j)
    <3>1. slot[j].worker = j /\ j = w
      BY <1>6, <2>3 DEF PendingIsFirst
    <3> QED BY <1>2, <1>3, <3>1 DEF SlotLives
  <2> QED BY <2>2, <2>3
<1>14. PostedWasCreated'
  BY <1>2 DEF PostedWasCreated, Waiting
<1>15. WaitingIsTracked'
  <2>1. \A r \in Request : r \in listener \/ Waiting(r) => call[r].to \in Worker
    BY <1>9 DEF PostedWasCreated
  <2>2. \A r \in Request, j \in Index : r \in outstanding[j] => Waiting(r)
    BY DEF WaitingIsTracked
  <2> QED BY <1>2, <1>5, <2>1, <2>2 DEF WaitingIsTracked, Waiting
<1> QED BY <1>8, <1>9, <1>12, <1>13, <1>14, <1>15

\* shutdown, and its end.
LEMMA ShutdownInv ==
  ASSUME IInv, Shutdown \/ ShutdownEnds
  PROVE  IInv'
<1> USE DEF IInv
<1>1. CASE Shutdown
  <2>1. /\ UNCHANGED <<created, slot, last, outstanding, listener, call>>
        /\ terminating' = TRUE /\ shut' = TRUE
    BY <1>1 DEF Shutdown
  <2>2. /\ worker' \in [Worker -> WorkerRecord]
        /\ \A w \in Worker : /\ worker'[w].index = worker[w].index
                             /\ worker'[w].setup = worker[w].setup
                             /\ worker[w].life = "none" => worker'[w].life = "none"
    <3>1. /\ worker \in [Worker -> WorkerRecord]
          /\ worker' = [w \in Worker |->
                          IF /\ worker[w].life \in {"starting", "running"}
                             /\ slot[worker[w].index].worker = w
                          THEN [worker[w] EXCEPT !.life = "stopping"] ELSE worker[w]]
      BY <1>1 DEF Shutdown, TypeOK, WorkerRecord
    <3>2. \A w \in Worker :
            \/ worker'[w] = worker[w]
            \/ worker'[w] = [worker[w] EXCEPT !.life = "stopping"] /\ worker[w].life # "none"
      BY <3>1
    <3>3. \A rec \in WorkerRecord :
            LET new == [rec EXCEPT !.life = "stopping"] IN
            new \in WorkerRecord /\ new.index = rec.index /\ new.setup = rec.setup
      BY DEF WorkerRecord, Life
    <3>4. \A w \in Worker : worker[w] \in WorkerRecord /\ worker'[w] \in WorkerRecord
      BY <3>1, <3>2, <3>3
    <3>5. worker' \in [Worker -> WorkerRecord]
      BY <3>1, <3>4
    <3>6. \A w \in Worker : /\ worker'[w].index = worker[w].index
                            /\ worker'[w].setup = worker[w].setup
      BY <3>2, <3>3, <3>4
    <3> QED BY <3>2, <3>5, <3>6
  <2>3. Numbering' /\ ReplacedWhenSettled' /\ \A w \in 1..created : w \in Worker
    <3>1. created' = created /\ \A i \in Index : slot'[i].worker = slot[i].worker
      BY <2>1
    <3> QED BY <2>2, <3>1, WorkersStay
  <2>4. PendingIsFirst'
    <3>1. \A i \in Index : worker'[i].setup = worker[i].setup
      BY <2>2, Bounds
    <3> QED BY <2>1, <3>1 DEF PendingIsFirst, Settled, StartPromise
  <2>5. TypeOK' /\ SlotLives' /\ PostedWasCreated'
    BY <2>1, <2>2 DEF TypeOK, WorkerRecord, SlotLives, PostedWasCreated, Waiting
  <2>8. WaitingIsTracked'
    <3>1. \A r \in Request : Waiting(r) => call[r].to \in Worker
      BY <2>3 DEF PostedWasCreated
    <3>2. \A r \in Request, i \in Index :
            r \in outstanding[i] => Waiting(r) /\ worker[call[r].to].index = i /\ r \in listener
      BY DEF WaitingIsTracked
    <3>3. \A r \in Request, i \in Index :
            r \in outstanding'[i] => Waiting(r)' /\ worker'[call'[r].to].index = i /\ r \in listener'
      BY <2>1, <2>2, <3>1, <3>2 DEF Waiting
    <3> QED BY <2>1, <3>3 DEF WaitingIsTracked
  <2> QED BY <2>3, <2>4, <2>5, <2>8
<1>2. CASE ShutdownEnds
  BY <1>2 DEF ShutdownEnds, TypeOK, Numbering, ReplacedWhenSettled, PendingIsFirst, SlotLives,
       PostedWasCreated, WaitingIsTracked, Waiting, Settled, StartPromise
<1> QED BY <1>1, <1>2

\* Every event, in every state of its worker, keeps the invariant.
LEMMA StepInv ==
  ASSUME IInv, [Next]_vars
  PROVE  IInv'
<1>1. ASSUME NEW w \in Worker, ExitBroken(w) \/ ExitRunning(w) \/ ExitEarly(w) \/ ExitStopped(w)
      PROVE  IInv'
  <2>1. worker[w].life \in {"broken", "running", "starting", "stopping"}
    BY <1>1 DEF ExitBroken, ExitRunning, ExitEarly, ExitStopped
  <2>2. ExitWith(w, Gone(w)) \/ ExitWith(w, FailedStart(w))
    BY <1>1 DEF ExitBroken, ExitRunning, ExitEarly, ExitStopped
  <2> QED BY <2>1, <2>2, ExitInv
<1>2. CASE UNCHANGED vars
  BY <1>2 DEF vars, IInv, TypeOK, Numbering, ReplacedWhenSettled, PendingIsFirst, SlotLives,
       PostedWasCreated, WaitingIsTracked, Waiting, Settled, StartPromise
<1> QED BY <1>1, <1>2, PostInv, RetryInv, ReplyInv, StartedInv, ErrorInv, ShutdownInv DEF Next

\* The invariant holds throughout.
LEMMA Invariance == Spec => []IInv
<1>1. IInv /\ [Next]_vars => IInv'
  BY StepInv
<1> QED BY <1>1, InitInv, PTL DEF Spec

-----------------------------------------------------------------------------
\* Every variable keeps its type.
THEOREM TypeCorrect == Spec => []TypeOK
BY Invariance, PTL DEF IInv

\* No request waits for a worker that has exited, however workers fail and are replaced.
THEOREM NoRequestHangs == Spec => []WaitingIsTracked
BY Invariance, PTL DEF IInv
=============================================================================
