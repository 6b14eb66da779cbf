--------------------------- MODULE OnDemandChannel ---------------------------
(***************************************************************************)
(* OnDemandChannelService for one channel, with what pauses and resumes    *)
(* it: the HLS sessions of SessionManager, OnDemandChannelStateTask, and   *)
(* requests that change the lineup.  The state of the channel is part of   *)
(* its lineup, an object in memory that is written to a file.              *)
(*                                                                         *)
(* The container makes a service, and with it a lock of the channel, for   *)
(* each that asks for one: the calls of the SessionManager wait for each   *)
(* other, those of the task for nobody.  A call that has the lock does     *)
(* only database and promise work before it changes the lineup, and holds  *)
(* the lock until the file is written.                                     *)
(***************************************************************************)
EXTENDS OnDemandChannelState, SequencesExt, FiniteSetsExt

lineupVars  == <<lineup, unsaved, disk>>
lockVars    == <<calls, saving>>
sessionVars == <<session, joined, opened>>
vars == <<clock, lineupVars, lockVars, sessionVars, changes, crashes, played>>

Time   == 0..MaxClock
Lineup == [state : {"off", "paused", "playing"}, cursor : Int, resumed : Time, updated : Time]
Call   == [op : {"pause", "resume"}, at : Time]

TypeOK ==
  /\ clock \in Time /\ played \in Time
  /\ lineup \in Lineup /\ disk \in Lineup /\ unsaved \in Seq(Lineup) /\ Len(unsaved) <= 2
  /\ calls \in Seq(Call) /\ Len(calls) <= MaxCalls
  /\ saving \in 0..2
  /\ session \in {"none", "starting", "open"}
  /\ joined \in [Viewer -> Time]

Unwatched == \A v \in Viewer : joined[v] = 0

Init ==
  /\ clock = 1 /\ played = 0
  /\ lineup = [state |-> "paused", cursor |-> 0, resumed |-> 0, updated |-> 0]
  /\ disk = lineup /\ unsaved = <<>>
  /\ calls = <<>> /\ saving = 0
  /\ session = "none" /\ joined = [v \in Viewer |-> 0]
  /\ opened = 0 /\ changes = 0 /\ crashes = 0

\* A call whose turn has come runs before any other event.
Turn == calls = <<>> \/ saving > 0

-----------------------------------------------------------------------------
\* The remainder of a division, with the sign of the dividend.
Rem(a) == IF a < 0 THEN -((-a) % Duration) ELSE a % Duration

Paused(l, at) ==
  [l EXCEPT !.state = "paused",
            !.cursor = IF l.updated > l.resumed THEN 0 ELSE Rem(@ + (at - l.resumed))]

\* Mutant: a channel that is paused already is paused again.
PauseAgain(l, at) == IF l.state = "off" THEN l ELSE Paused(l, at)

\* The lineup after pauseChannel, and after resumeChannel.
Pause(l, at) == IF l.state = "playing" THEN Paused(l, at) ELSE l
Resume(l) == IF l.state = "paused" THEN [l EXCEPT !.state = "playing", !.resumed = clock] ELSE l

\* Writes of the file: a later one waits, and takes the place of one that waits.
Queued(l) == IF Len(unsaved) < 2 THEN Append(unsaved, l) ELSE <<unsaved[1], l>>

Change(l) == lineup' = l /\ unsaved' = Queued(l) /\ disk' = disk

WriteEnds ==
  /\ unsaved # <<>> /\ Turn
  /\ disk' = Head(unsaved) /\ unsaved' = Tail(unsaved)
  /\ IF saving = 0 THEN UNCHANGED lockVars
     ELSE saving' = saving - 1 /\ calls' = IF saving = 1 THEN Tail(calls) ELSE calls
  /\ UNCHANGED <<clock, lineup, sessionVars, changes, crashes, played>>

\* A call of the SessionManager gets the lock: it changes the lineup and awaits
\* the file, or finds nothing to do.
Serve ==
  /\ ~Turn
  /\ LET c == Head(calls)
         l == IF c.op = "pause" THEN Pause(lineup, c.at) ELSE Resume(lineup)
     IN  IF l = lineup
           THEN calls' = Tail(calls) /\ UNCHANGED <<lineupVars, saving>>
           ELSE Change(l) /\ saving' = Len(unsaved') /\ UNCHANGED calls
  /\ UNCHANGED <<clock, sessionVars, changes, crashes, played>>

Ask(op, at) == Len(calls) < MaxCalls /\ calls' = Append(calls, [op |-> op, at |-> at])

-----------------------------------------------------------------------------
(* The sessions. *)

\* A request finds no session: it makes one, resumes the channel and starts it.
Create ==
  /\ session = "none" /\ opened < MaxSessions /\ Turn
  /\ session' = "starting" /\ opened' = opened + 1
  /\ Ask("resume", clock)
  /\ UNCHANGED <<clock, lineupVars, saving, joined, changes, crashes, played>>

\* A request is connected: the one that started the session, or one that found it.
Join(v) ==
  /\ session # "none" /\ joined[v] = 0 /\ Turn
  /\ session' = "open" /\ joined' = [joined EXCEPT ![v] = clock]
  /\ UNCHANGED <<clock, lineupVars, lockVars, opened, changes, crashes, played>>

\* A viewer leaves, or is removed as stale, last heard of at some time; with the
\* last one the channel is paused as of that time.
Leave(v) ==
  /\ joined[v] > 0 /\ Turn
  /\ joined' = [joined EXCEPT ![v] = 0]
  /\ IF Unwatched' THEN \E heard \in joined[v]..clock : Ask("pause", heard)
     ELSE UNCHANGED calls
  /\ UNCHANGED <<clock, lineupVars, saving, session, opened, changes, crashes, played>>

\* The session stops: it could not start, broke, idled too long, or a request
\* ends it.  An HLS session says so to nobody: the channel is left as it is.
Stop ==
  /\ session # "none" /\ Turn
  /\ session' = "none" /\ joined' = [v \in Viewer |-> 0]
  /\ UNCHANGED <<clock, lineupVars, lockVars, opened, changes, crashes, played>>

-----------------------------------------------------------------------------
\* Mutant: the task looks for sessions without connections.
TaskOfSessions ==
  /\ session # "none" /\ Unwatched /\ lineup.state = "playing" /\ Turn
  /\ Change(Pause(lineup, clock))
  /\ UNCHANGED <<clock, lockVars, sessionVars, changes, crashes, played>>

\* OnDemandChannelStateTask: a channel without connections is paused.
Task ==
  /\ Unwatched /\ lineup.state = "playing" /\ Turn
  /\ Change(Pause(lineup, clock))
  /\ UNCHANGED <<clock, lockVars, sessionVars, changes, crashes, played>>

\* A lineup is saved: by the editor, which puts the cursor back, or by a removal
\* of programs.
Save ==
  /\ \E cursor \in {0, lineup.cursor} :
       Change([lineup EXCEPT !.cursor = cursor, !.updated = clock])
  /\ changes < MaxChanges /\ Turn /\ changes' = changes + 1
  /\ UNCHANGED <<clock, lockVars, sessionVars, crashes, played>>

\* The channel is updated with on-demand enabled, or disabled.
Configure ==
  /\ \E state \in {"off", "paused"} :
       Change([lineup EXCEPT !.state = state, !.cursor = 0, !.resumed = 0])
  /\ changes < MaxChanges /\ Turn /\ changes' = changes + 1
  /\ UNCHANGED <<clock, lockVars, sessionVars, crashes, played>>

\* The server dies and starts again with what the file says, a cursor below
\* zero read as zero.
Crash ==
  /\ crashes < MaxCrashes /\ Turn
  /\ crashes' = crashes + 1
  /\ lineup' = [disk EXCEPT !.cursor = Max({@, 0})]
  /\ unsaved' = <<>> /\ calls' = <<>> /\ saving' = 0
  /\ session' = "none" /\ joined' = [v \in Viewer |-> 0]
  /\ UNCHANGED <<clock, disk, opened, changes, played>>

\* Time passes; it is paused for good once the file says so too.
Tick ==
  /\ clock < MaxClock /\ Turn
  /\ clock' = clock + 1
  /\ played' = IF \E l \in {lineup, disk} \cup ToSet(unsaved) : l.state = "playing"
                 THEN played + 1 ELSE played
  /\ UNCHANGED <<lineupVars, lockVars, sessionVars, changes, crashes>>

Next ==
  \/ WriteEnds \/ Serve \/ Create \/ Stop \/ Task \/ Save \/ Configure \/ Crash \/ Tick
  \/ \E v \in Viewer : Join(v) \/ Leave(v)

\* Files are written, a lock that is free is taken, and the task runs every minute.
Fairness == WF_vars(WriteEnds) /\ WF_vars(Serve) /\ WF_vars(Task)

Spec == Init /\ [][Next]_vars /\ Fairness

-----------------------------------------------------------------------------
\* A channel that nobody watches and no session is being started for does not
\* play on, whichever way its viewers and its sessions were lost: the task alone
\* pauses what no viewer left behind (OnDemandChannelStateTask.ts:39-55).
UnwatchedIsPaused == []<>(session = "starting" \/ ~Unwatched \/ lineup.state # "playing")

\* What getLiveTimestamp adds to the start of the channel.
LivePosition == lineup.cursor + (clock - lineup.resumed)

(***************************************************************************)
(* docs/configure/channels/properties.md: "watch states will only progress *)
(* while you're actively viewing the channel".  Read as: what a viewer is  *)
(* shown is not ahead of all the time the channel ever played.             *)
(***************************************************************************)
PositionIsPlayed ==
  ~Unwatched /\ calls = <<>> /\ lineup.state # "off" => LivePosition <= played
=============================================================================
