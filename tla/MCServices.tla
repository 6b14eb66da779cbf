----------------------------- MODULE MCServices -----------------------------
(***************************************************************************)
(* TLC instance of four services of the server that work beside the        *)
(* streams: the worker pool, the media source scans, the guide and the     *)
(* on-demand channels.  They share no variable, so a behaviour moves one   *)
(* of them, chosen at its start; the guide's calls overlap or run one at a *)
(* time.                                                                   *)
(***************************************************************************)
EXTENDS WorkerPoolState, ScanCoordinatorState, TvGuideState, OnDemandChannelState

CONSTANT extra    \* the call of the guide that FewCalls is about

VARIABLE part     \* chosen once

poolVars  == <<worker, created, slot, last, outstanding, listener, call, terminating, shut>>
scanVars  == <<locked, queue, running, signal, aborted, state>>
guideVars == <<version, context, guide, lockQueue, build, read, wanted>>
demandVars == <<clock, lineup, unsaved, disk, calls, saving, session, joined, opened,
                changes, crashes, played>>

P == INSTANCE WorkerPool
C == INSTANCE ScanCoordinator
G == INSTANCE TvGuide
D == INSTANCE OnDemandChannel

Pool     == part = "pool"
Scan     == part = "scan"
Overlap  == part = "overlapping guide calls"
Serial   == part = "guide calls one at a time"
Guide    == Overlap \/ Serial
OnDemand == part = "on demand"

Init ==
  /\ Pool \/ Scan \/ Overlap \/ Serial \/ OnDemand
  /\ P!Init /\ C!Init /\ G!Init /\ D!Init

\* Bound: a pool that was shut down sets up one replacement at most and refuses no request.
FewAfterShutdown ==
  shut => /\ created' > created => created' = Size + 1
          /\ \A r \in Request : call'[r].tries = call[r].tries

\* Bound: one of the calls of the guide is made only if they overlap and no lineup is saved.
FewCalls == build'[extra].pc # "idle" => Overlap /\ \A c \in Channel : version'[c] = 0

\* Bound: calls that overlap meet an error if they are two, and no lineup is saved.
FewErrors ==
  Overlap /\ (\E b \in Build : build'[b].threw # {}) =>
    build'[extra].pc = "idle" /\ \A c \in Channel : version'[c] = 0

\* The calls of the guide overlap or not.
OneAtATime == \A v, w \in G!InFlight' : v = w

\* Bound: the channel's lineup is changed or the server restarts, not both.
FewFaults == changes' + crashes' <= 1

Next ==
  /\ UNCHANGED part
  /\ \/ Pool /\ P!Next /\ FewAfterShutdown /\ UNCHANGED <<scanVars, guideVars, demandVars>>
     \/ Scan /\ C!Next /\ UNCHANGED <<poolVars, guideVars, demandVars>>
     \/ Guide /\ G!Next /\ FewCalls /\ FewErrors /\ (Serial => OneAtATime)
              /\ UNCHANGED <<poolVars, scanVars, demandVars>>
     \/ OnDemand /\ D!Next /\ FewFaults /\ UNCHANGED <<poolVars, scanVars, guideVars>>

vars == <<part, poolVars, scanVars, guideVars, demandVars>>

\* The fairness of the parts, each where it moves.
Fairness ==
  /\ \A r \in Request : WF_poolVars(Pool /\ P!Reply(r))
  /\ \A w \in Worker : /\ WF_poolVars(Pool /\ P!Started(w))
                       /\ WF_poolVars(Pool /\ P!ExitBroken(w))
  /\ \A e \in Entity : /\ WF_scanVars(Scan /\ (C!Fail(e) \/ C!Scanned(e)))
                       /\ WF_scanVars(Scan /\ C!Collected(e))
  /\ \A b \in Build :
       /\ WF_guideVars(Guide /\ G!Stage(b))
       /\ \A c \in Channel : WF_guideVars(Guide /\ G!BuildChannel(b, c))
  /\ WF_demandVars(OnDemand /\ D!WriteEnds)
  /\ WF_demandVars(OnDemand /\ D!Serve)
  /\ WF_demandVars(OnDemand /\ D!Task)

Spec == Init /\ [][Next]_vars /\ Fairness

-----------------------------------------------------------------------------
\* The types of the parts.
TypeOK == P!TypeOK /\ C!TypeOK /\ G!TypeOK /\ D!TypeOK

\* A dead index comes back, where the pool moves.
IndexComesBack == Pool => P!IndexComesBack

\* A scan that was added ends, where the scans move.
AddedScansEnd == Scan => C!AddedScansEnd

\* A returned call leaves a fresh guide, where calls do not overlap.
ReturnedIsFresh == Serial => G!ReturnedIsFresh

\* Every build ends, where the guide moves.
EveryBuildEnds == Guide => G!EveryBuildEnds

\* A channel nobody watches is paused, where a channel moves.
UnwatchedIsPaused == OnDemand => D!UnwatchedIsPaused
=============================================================================
