---------------------------- MODULE TvGuideState ----------------------------
(***************************************************************************)
(* What TvGuide keeps: the lineups, the context, the guide, the locks of   *)
(* the channels and the calls.                                             *)
(***************************************************************************)
EXTENDS Naturals, Sequences

CONSTANTS
  Channel,
  Build,        \* calls
  MaxVersion    \* bound: changes of a lineup

\* Lineups change a number of times, or never.
ASSUME GuideAssumption == MaxVersion \in Nat

VARIABLES
  version,   \* per channel the lineup in the database
  context,   \* channelsById and accumulateTable: the lineups loaded, if there are any
  guide,     \* cachedGuide
  lockQueue, \* per channel the calls that hold (the first) or wait for its lock
  build,     \* per call where it is, the channels it has still to build, and (history)
             \* those that threw an error of their own
  read,      \* per call the lineups it builds from
  wanted     \* history: per call the lineups when it was made
=============================================================================
