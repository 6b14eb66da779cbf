------------------------ MODULE OnDemandChannelState ------------------------
(***************************************************************************)
(* What OnDemandChannel keeps of one channel, of the file its lineup is    *)
(* written to and of its sessions, and what holds of the cursor.           *)
(***************************************************************************)
EXTENDS Integers, Sequences

CONSTANTS
  Viewer,
  Duration,      \* of one cycle of the lineup
  MaxClock,      \* bound: time
  MaxCalls,      \* bound: calls of the SessionManager that hold or wait for the lock
  MaxSessions,   \* bound: sessions opened
  MaxChanges,    \* bound: changes of the lineup by requests
  MaxCrashes     \* bound: restarts

\* A cycle lasts, and the time of a behaviour begins with 1.
ASSUME DemandAssumption ==
  /\ Duration \in Nat \ {0} /\ MaxClock \in Nat \ {0}
  /\ MaxCalls \in Nat /\ MaxSessions \in Nat /\ MaxChanges \in Nat /\ MaxCrashes \in Nat

VARIABLES
  clock,
  lineup,    \* onDemandConfig (its state "off" where there is none) and lastUpdated
  unsaved,   \* the snapshot on its way to the file, and the one to follow
  disk,      \* the file
  calls,     \* the queue of the SessionManager's lock
  saving,    \* how many writes the head of that queue awaits; 0: its turn has just come
  session,   \* in the map: none, one that starts, one that is open
  joined,    \* its connections: since when, 0 for none
  opened, changes, crashes,   \* counted for the bounds
  played     \* history: how long the channel was not paused for good

-----------------------------------------------------------------------------
\* The cursor counts time the channel played once and no other time: pauses of
\* the viewers who left last and of the task come in any order, late and for
\* the same stretch, around restarts (OnDemandChannelService.ts:63-83).
CountsPlayedTimeOnce == lineup.cursor <= played
=============================================================================
