------------------------ MODULE ScanCoordinatorState -------------------------
(***************************************************************************)
(* The scans of the media source scan coordinator, their locks and         *)
(* controllers, and what holds of them.                                    *)
(***************************************************************************)
EXTENDS SequencesExt

CONSTANTS
  Entity,       \* remote libraries and local media sources
  Local,        \* the latter: their scans have no collections to scan
  Unscannable   \* entities of a type no scanner, of them or their collections, can be made for

VARIABLES
  locked,    \* entities whose lock is taken
  queue,     \* scans that wait, the first of them next
  running,   \* the scan that runs, if any, and what it does
  signal,    \* keys of signalById
  aborted,   \* those whose controller was aborted
  state      \* the run state of an entity's scanner

Queued == ToSet(queue)
Active == {r[1] : r \in running}

-----------------------------------------------------------------------------
(***************************************************************************)
(* Whatever scans do, fail, or are told, one runs at a time, an entity has *)
(* one scan at most, and the locks and controllers are those of the scans  *)
(* that wait or run, so that an entity can be scanned again and a scan     *)
(* canceled.  A lock is kept without a scan for an entity no scanner can   *)
(* be made for, and then for ever.                                         *)
(***************************************************************************)
LocksAreScans ==
  /\ \A r, q \in running : r = q
  /\ IsInjective(queue)
  /\ Queued \cap Active = {}
  /\ signal = Queued \cup Active
  /\ aborted \subseteq signal
  /\ locked \ Unscannable = signal
  /\ queue # <<>> => running # {}
==============================================================================
