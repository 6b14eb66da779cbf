--------------------------- MODULE WorkerPoolState ---------------------------
(***************************************************************************)
(* The slots, the workers and the requests of the worker pool, and what    *)
(* holds of them.                                                          *)
(***************************************************************************)
EXTENDS Naturals

CONSTANTS
  Size,      \* slots of the pool
  Limit,     \* bound: workers ever created
  Request,   \* calls of queueTask
  Attempts   \* tries of queueTask to find its slot ready

\* The pool has a slot, its first workers are within the bound, and a request tries once at least.
ASSUME PoolAssumption ==
  /\ Size \in Nat \ {0} /\ Limit \in Nat /\ Size <= Limit
  /\ Attempts \in Nat \ {0}

Index  == 1..Size
Worker == 1..Limit

VARIABLES
  worker,       \* per worker its index, life and the promise of its setup
  created,      \* how many there are
  slot,         \* #pool: the worker to post to, and whether it is ready
  last,         \* #last: the index the next attempt tries
  outstanding,  \* #outstandingByIndex
  listener,     \* keys of #listeners
  call,         \* per request its attempts, its future and the worker it went to
  terminating,  \* #state = 'terminating'
  shut          \* history: shutdown was called

Waiting(r) == call[r].future = "pending"

-----------------------------------------------------------------------------
(***************************************************************************)
(* Until the pool is shut down, the requests that wait are those that are  *)
(* outstanding at the index of their worker, with their listener, and that *)
(* worker has not exited: whatever ends it finds all of them, and the      *)
(* error handler, which rejects without a look at the state, meets pending *)
(* futures only.  So however workers fail and are replaced, also twice, no *)
(* request hangs.                                                          *)
(***************************************************************************)
WaitingIsTracked ==
  \A r \in Request, i \in Index :
    LET w == call[r].to
        tracked == Waiting(r) /\ worker[w].index = i
    IN /\ r \in outstanding[i] => tracked /\ r \in listener
       /\ tracked /\ ~shut => r \in outstanding[i] /\ worker[w].life # "gone"
==============================================================================
