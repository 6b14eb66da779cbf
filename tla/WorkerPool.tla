----------------------------- MODULE WorkerPool -----------------------------
(***************************************************************************)
(* TunarrWorkerPool after start(): one slot of the pool per index, filled  *)
(* by a worker thread that is replaced when it exits, and requests that    *)
(* wait for the replies of the worker they were posted to.                 *)
(*                                                                         *)
(* Every event of a worker (started, reply, error, exit) and every attempt *)
(* of queueTask runs to its end, with the promise continuations it sets    *)
(* off, before the next event: each is one action.  Workers are numbered   *)
(* in the order of their creation; 1..Size are those of start().  When a   *)
(* caller stops waiting (timeoutPromise) nothing in the pool changes.      *)
(***************************************************************************)
EXTENDS WorkerPoolState, FiniteSets

None == 0

vars == <<worker, created, slot, last, outstanding, listener, call, terminating, shut>>

Life  == {"none", "starting", "running", "broken", "stopping", "gone"}
Setup == {"pending", "fulfilled", "rejected"}

\* caught: its setup runs in a then() behind which a catch() sets up another worker.
NewWorker(i, caught) ==
  [index |-> i, life |-> "starting", setup |-> "pending", caught |-> caught]
NoWorker == [index |-> 1, life |-> "none", setup |-> "pending", caught |-> FALSE]

Broken == {w \in Worker : worker[w].life = "broken"}

\* #startPromises[i], which is never replaced.
StartPromise(i) == worker[i].setup

Init ==
  /\ worker = [w \in Worker |-> IF w \in Index THEN NewWorker(w, FALSE) ELSE NoWorker]
  /\ created = Size
  /\ slot = [i \in Index |-> [worker |-> i, ready |-> FALSE]]
  /\ last = 1
  /\ outstanding = [i \in Index |-> {}]
  /\ listener = {}
  /\ call = [r \in Request |-> [tries |-> 0, future |-> "none", to |-> None]]
  /\ terminating = FALSE /\ shut = FALSE

\* Mutant: one index too far.
AdvanceTooFar == last' = IF last > Size THEN 1 ELSE last + 1

\* The next attempt tries the next index.
Advance == last' = IF last = Size THEN 1 ELSE last + 1

\* An attempt of queueTask that finds its slot ready posts the request.
Post(r) ==
  /\ call[r].future = "none"
  /\ slot[last].ready
  /\ Advance
  /\ outstanding' = [outstanding EXCEPT ![last] = @ \cup {r}]
  /\ listener' = listener \cup {r}
  /\ call' = [call EXCEPT ![r] = [tries |-> call[r].tries, future |-> "pending",
                                   to |-> slot[last].worker]]
  /\ UNCHANGED <<worker, created, slot, terminating, shut>>

\* One that does not is retried at the next index; the last of them gives up.
Retry(r) ==
  /\ call[r].future = "none"
  /\ ~slot[last].ready
  /\ Advance
  /\ call' = [call EXCEPT ![r] =
                [tries |-> call[r].tries + 1, to |-> call[r].to,
                 future |-> IF call[r].tries + 1 = Attempts THEN "refused" ELSE "none"]]
  /\ UNCHANGED <<worker, created, slot, outstanding, listener, terminating, shut>>

(***************************************************************************)
(* The 'started' event, which a terminated worker may still have sent,     *)
(* marks whatever worker is in the slot now.  When all first workers have  *)
(* started, the state is 'started', whatever it was.                       *)
(***************************************************************************)
Started(w) ==
  /\ worker[w].life \in {"starting", "stopping"} /\ worker[w].setup = "pending"
  /\ worker' = [worker EXCEPT ![w].life = IF @ = "starting" THEN "running" ELSE @,
                              ![w].setup = "fulfilled"]
  /\ slot' = [slot EXCEPT ![worker[w].index].ready = TRUE]
  /\ terminating' = (terminating /\ ~(w \in Index /\ \A i \in Index \ {w} : StartPromise(i) = "fulfilled"))
  /\ UNCHANGED <<created, last, outstanding, listener, call, shut>>

(***************************************************************************)
(* A running worker replies to a request.  A future that is settled        *)
(* already throws; the listener is gone then, and the server only logs.    *)
(***************************************************************************)
Reply(r) ==
  LET w == call[r].to IN
  /\ r \in listener /\ worker[w].setup = "fulfilled" /\ worker[w].life \in {"running", "stopping"}
  /\ listener' = listener \ {r}
  /\ outstanding' = [outstanding EXCEPT ![worker[w].index] = @ \ {r}]
  /\ \/ /\ Waiting(r)
        /\ \E answer \in {"fulfilled", "rejected"} : call' = [call EXCEPT ![r].future = answer]
     \/ ~Waiting(r) /\ UNCHANGED call
  /\ UNCHANGED <<worker, created, slot, last, terminating, shut>>

\* What is outstanding at an index is rejected; the listeners stay.
RejectOutstanding(i) ==
  /\ call' = [r \in Request |->
                IF r \in outstanding[i] THEN [call[r] EXCEPT !.future = "rejected"] ELSE call[r]]
  /\ outstanding' = [outstanding EXCEPT ![i] = {}]

(***************************************************************************)
(* w changes to `now`, and setupWorker is called n times for its index     *)
(* (it does nothing once the pool is terminating); the first of the new    *)
(* workers is caught if `caught`, and the last one is in the slot.         *)
(***************************************************************************)
Replace(w, now, n, caught) ==
  LET i     == worker[w].index
      fresh == created + 1 .. created + n
  IN IF terminating \/ n = 0
     THEN worker' = [worker EXCEPT ![w] = now] /\ UNCHANGED <<created, slot>>
     ELSE /\ created + n <= Limit
          /\ created' = created + n
          /\ worker' = [v \in Worker |->
                          IF v = w THEN now
                          ELSE IF v \in fresh THEN NewWorker(i, caught /\ v = created + 1)
                          ELSE worker[v]]
          /\ slot' = [slot EXCEPT ![i] = [worker |-> created + n, ready |-> FALSE]]

\* Bound: another worker may break only while all that broke can still be replaced.
Room == created + 2 * Cardinality(Broken) + 2 <= Limit

Ending(w, life, setup) ==
  [index |-> worker[w].index, life |-> life, setup |-> setup, caught |-> worker[w].caught]

\* 'error', an exception nobody caught in the thread; 'exit' follows.
Error(w) ==
  LET fails == worker[w].setup = "pending" IN
  /\ worker[w].life \in {"starting", "running", "stopping"} /\ Room
  /\ RejectOutstanding(worker[w].index)
  /\ Replace(w, Ending(w, "broken", IF fails THEN "rejected" ELSE worker[w].setup),
             IF fails /\ worker[w].caught THEN 1 ELSE 0, FALSE)
  /\ UNCHANGED <<last, listener, terminating, shut>>

(***************************************************************************)
(* 'exit': what is outstanding at the index is rejected, and once          *)
(* startPromises[i] has settled a then() or a catch() behind it sets up    *)
(* another worker.  A caught worker whose own setup fails by this exit is  *)
(* replaced a second time.                                                 *)
(***************************************************************************)
ExitWith(w, now) ==
  LET i     == worker[w].index
      start == IF w = i THEN now.setup ELSE StartPromise(i)
      twice == worker[w].caught /\ now.setup = "rejected" /\ worker[w].setup = "pending"
  IN /\ RejectOutstanding(i)
     /\ Replace(w, now, IF start = "pending" THEN 0 ELSE IF twice THEN 2 ELSE 1,
                start = "fulfilled")
     /\ UNCHANGED <<last, listener, terminating, shut>>

Gone(w) == Ending(w, "gone", worker[w].setup)

FailedStart(w) == Ending(w, "gone", "rejected")

\* Mutant: only a worker that had started is replaced.
ExitReplacesStarted(w) ==
  /\ worker[w].life = "broken"
  /\ RejectOutstanding(worker[w].index)
  /\ Replace(w, Gone(w), IF worker[w].setup = "fulfilled" THEN 1 ELSE 0, TRUE)
  /\ UNCHANGED <<last, listener, terminating, shut>>

\* The exit after an error.
ExitBroken(w) == worker[w].life = "broken" /\ ExitWith(w, Gone(w))

\* Mutant: what is outstanding waits for the replacement.
ExitForgets(w) ==
  /\ worker[w].life = "running" /\ Room
  /\ Replace(w, Gone(w), 1, TRUE)
  /\ UNCHANGED <<last, outstanding, listener, call, terminating, shut>>

\* A running worker exits, as the 'restart' request makes it.
ExitRunning(w) == worker[w].life = "running" /\ Room /\ ExitWith(w, Gone(w))

\* One exits before it has started; code 0 leaves its setup pending for ever.
ExitEarly(w) ==
  /\ worker[w].life = "starting" /\ Room
  /\ ExitWith(w, FailedStart(w)) \/ ExitWith(w, Gone(w))

\* The exit of a worker that was terminated.
ExitStopped(w) ==
  /\ worker[w].life = "stopping"
  /\ ExitWith(w, IF worker[w].setup = "pending" THEN FailedStart(w) ELSE Gone(w))

\* shutdown: the worker in each slot is terminated.
Shutdown ==
  /\ ~terminating
  /\ terminating' = TRUE /\ shut' = TRUE
  /\ worker' = [w \in Worker |->
                  IF /\ worker[w].life \in {"starting", "running"}
                     /\ slot[worker[w].index].worker = w
                  THEN [worker[w] EXCEPT !.life = "stopping"] ELSE worker[w]]
  /\ UNCHANGED <<created, slot, last, outstanding, listener, call>>

\* They have all exited, within the time shutdown gives them: the state is 'pending' again.
ShutdownEnds ==
  /\ terminating /\ \A w \in Worker : worker[w].life # "stopping"
  /\ terminating' = FALSE
  /\ UNCHANGED <<worker, created, slot, last, outstanding, listener, call, shut>>

Next ==
  \/ \E r \in Request : Post(r) \/ Retry(r) \/ Reply(r)
  \/ \E w \in Worker : \/ Started(w) \/ Error(w) \/ ExitBroken(w) \/ ExitRunning(w)
                       \/ ExitEarly(w) \/ ExitStopped(w)
  \/ Shutdown \/ ShutdownEnds

Spec == Init /\ [][Next]_vars

\* Workers that live start and answer; one that broke exits.
Fairness ==
  /\ \A r \in Request : WF_vars(Reply(r))
  /\ \A w \in Worker : WF_vars(Started(w)) /\ WF_vars(ExitBroken(w))

FairSpec == Spec /\ Fairness

-----------------------------------------------------------------------------
\* Every variable keeps its type.
TypeOK ==
  /\ worker \in [Worker -> [index : Index, life : Life, setup : Setup, caught : BOOLEAN]]
  /\ created \in Worker
  /\ slot \in [Index -> [worker : Worker, ready : BOOLEAN]]
  /\ last \in Index
  /\ outstanding \in [Index -> SUBSET Request]
  /\ listener \in SUBSET Request
  /\ call \in [Request -> [tries : 0..Attempts, to : Worker \cup {None},
                           future : Setup \cup {"none", "refused"}]]
  /\ terminating \in BOOLEAN /\ shut \in BOOLEAN

(***************************************************************************)
(* An index whose worker died, started or not, is ready again; only a      *)
(* first worker that ends with code 0 before it has started leaves it      *)
(* without one.                                                            *)
(***************************************************************************)
IndexComesBack ==
  \A i \in Index :
    []<>(slot[i].ready \/ shut \/ (StartPromise(i) = "pending" /\ worker[i].life = "gone"))
=============================================================================
