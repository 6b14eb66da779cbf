---------------------------- MODULE StreamSession ---------------------------
(***************************************************************************)
(* The HLS sessions of one channel: SessionManager (the map entry of one   *)
(* key and the channel lock), Session and ConnectionTracker (state, idle   *)
(* timer, viewers, session lock), HlsSession (the transcode loops).        *)
(*                                                                         *)
(* Both locks are FIFO promise queues.  A caller of start() or stop() is   *)
(* an entry of the session's queue; the entry at the head holds the lock.  *)
(* What promise continuations do is part of the step that settles them:    *)
(* they run before any file, process or timer event.  A session is named   *)
(* by the request that created it, a transcode loop by the request whose   *)
(* start() spawned it.                                                     *)
(***************************************************************************)
EXTENDS Naturals, Sequences

CONSTANTS
  Request,   \* calls of getOrCreateHlsSession; each has its own viewer
  Ender,     \* calls of endSession
  None,      \* no session, no loop, no caller
  Idle       \* caller of stop(): the cleanup event of the ConnectionTracker

ASSUME StreamAssumption ==
  /\ Request \cap Ender = {}
  /\ {None, Idle} \cap (Request \cup Ender) = {}
  /\ None # Idle

VARIABLES
  mapped,    \* #sessions[key]
  state,     \* Session.#state; "init" also before the session exists
  timer,     \* ConnectionTracker.#cleanupFunc is set
  viewers,   \* ConnectionTracker.#connections
  ops,       \* the queue of the session's lock
  phase,     \* what the head of that queue awaits
  chan,      \* the queue of the channel's lock
  pc,        \* progress of the requests and of the enders
  at,        \* the session a request has called start() on
  loop,      \* HlsSession.run(): it rests or sets up a transcode ("idle"), its
             \* transcode is #currentSession ("play") or not ("stray"), or ended
  screen     \* the loop's ProgramStream plays an error screen instead

sessionVars == <<state, timer, viewers, ops, phase>>
lockVars    == <<mapped, chan, pc, at>>
loopVars    == <<loop, screen>>
vars == <<sessionVars, lockVars, loopVars>>

Start(q) == [op |-> "start", by |-> q]
Stop(by) == [op |-> "stop", by |-> by]
Op == {Start(q) : q \in Request} \cup {Stop(by) : by \in Ender \cup {None, Idle}}

Live == {"starting", "started", "error"}

TypeOK ==
  /\ mapped \in Request \cup {None}
  /\ state \in [Request -> Live \cup {"init", "stopped"}]
  /\ timer \in [Request -> BOOLEAN]
  /\ viewers \in [Request -> SUBSET Request]
  /\ ops \in [Request -> Seq(Op)]
  /\ phase \in [Request -> {"queued", "init", "ready", "clean"}]
  /\ chan \in Seq(Request \cup Ender)
  /\ pc \in [Request \cup Ender ->
               {"idle", "waiting", "starting", "watching", "away", "failed", "ending", "done"}]
  /\ at \in [Request -> Request \cup {None}]
  /\ loop \in [Request -> {"none", "idle", "play", "stray", "ended"}]
  /\ screen \in [Request -> BOOLEAN]

Init ==
  /\ mapped = None
  /\ state = [i \in Request |-> "init"]
  /\ timer = [i \in Request |-> FALSE]
  /\ viewers = [i \in Request |-> {}]
  /\ ops = [i \in Request |-> <<>>]
  /\ phase = [i \in Request |-> "queued"]
  /\ chan = <<>>
  /\ pc = [c \in Request \cup Ender |-> "idle"]
  /\ at = [q \in Request |-> None]
  /\ loop = [q \in Request |-> "none"]
  /\ screen = [q \in Request |-> FALSE]

SetState(i, s) == state' = [state EXCEPT ![i] = s]
SetPhase(i, p) == phase' = [phase EXCEPT ![i] = p]
Queue(i, op)   == ops' = [ops EXCEPT ![i] = Append(@, op)]
Dequeue(i)     == ops' = [ops EXCEPT ![i] = Tail(@)]
NoTimer(i)     == timer' = [timer EXCEPT ![i] = FALSE]

\* Session.stop() up to its wait for the lock.  Right behind another such call
\* that still waits, a call nobody awaits would find the session stopped, and
\* is left out.
Stopped(s, by) ==
  IF by = None /\ s # <<>> /\ s[Len(s)] = Stop(None) THEN s ELSE Append(s, Stop(by))

CallStop(i, by) ==
  /\ NoTimer(i)
  /\ ops' = [ops EXCEPT ![i] =
       IF phase[i] = "queued" THEN Stopped(@, by) ELSE <<Head(@)>> \o Stopped(Tail(@), by)]
----------------------------------------------------------------------------
(* getOrCreateSession *)

Ask(c) ==
  /\ pc[c] = "idle"
  /\ pc' = [pc EXCEPT ![c] = "waiting"]
  /\ chan' = Append(chan, c)
  /\ UNCHANGED <<mapped, at, sessionVars, loopVars>>

\* A call leaves the channel lock.
Leave(c, result) ==
  /\ pc' = [pc EXCEPT ![c] = result]
  /\ chan' = Tail(chan)

\* The channel or its transcode configuration is missing.
Refuse(q) ==
  /\ pc[q] = "waiting"
  /\ mapped = None
  /\ Leave(q, "failed")
  /\ UNCHANGED <<mapped, at, sessionVars, loopVars>>

\* A new session is in the map and "starting" before anything else happens.
Create(q) ==
  /\ pc[q] = "waiting"
  /\ mapped = None
  /\ mapped' = q
  /\ at' = [at EXCEPT ![q] = q]
  /\ pc' = [pc EXCEPT ![q] = "starting"]
  /\ SetState(q, "starting")
  /\ Queue(q, Start(q))
  /\ SetPhase(q, "init")
  /\ UNCHANGED <<timer, viewers, chan, loopVars>>

\* Mutant: the session's key is recorded where the viewer's token belongs.
ConnectKey(i, q) ==
  /\ viewers' = [viewers EXCEPT ![i] = @ \cup {mapped}]
  /\ NoTimer(i)

\* addConnection: a new viewer also cancels the idle timer.
Connect(i, q) ==
  /\ viewers' = [viewers EXCEPT ![i] = @ \cup {q}]
  /\ NoTimer(i)

Join(q) ==
  /\ pc[q] = "waiting"
  /\ mapped # None /\ state[mapped] = "started"
  /\ Connect(mapped, q)
  /\ Leave(q, "watching")
  /\ UNCHANGED <<state, ops, phase, mapped, at, loopVars>>

AskStart(q) ==
  /\ pc[q] = "waiting"
  /\ mapped # None /\ state[mapped] # "started"
  /\ at' = [at EXCEPT ![q] = mapped]
  /\ pc' = [pc EXCEPT ![q] = "starting"]
  /\ Queue(mapped, Start(q))
  /\ UNCHANGED <<mapped, state, timer, viewers, phase, chan, loopVars>>
----------------------------------------------------------------------------
(* Session.start(), called by request Caller(i) *)

AtHead(i, op, p) == ops[i] # <<>> /\ Head(ops[i]).op = op /\ phase[i] = p

Caller(i) == Head(ops[i]).by

StartWaits(i) ==
  /\ AtHead(i, "start", "queued")
  /\ state[i] \notin {"started", "error"}
  /\ SetState(i, "starting")
  /\ SetPhase(i, "init")
  /\ UNCHANGED <<timer, viewers, ops, lockVars, loopVars>>

\* start() returns without starting; only an error makes the request fail.
StartReturns(i) ==
  /\ AtHead(i, "start", "queued")
  /\ \/ state[i] = "started" /\ Connect(i, Caller(i)) /\ Leave(Caller(i), "watching")
     \/ state[i] = "error" /\ Leave(Caller(i), "failed") /\ UNCHANGED <<timer, viewers>>
  /\ Dequeue(i)
  /\ UNCHANGED <<state, phase, mapped, at, loopVars>>

\* HlsSession.startInternal: directory wiped, "started" already, run() spawned.
InitDone(i) ==
  /\ AtHead(i, "start", "init")
  /\ SetState(i, "started")
  /\ SetPhase(i, "ready")
  /\ loop' = [loop EXCEPT ![Caller(i)] = "idle"]
  /\ UNCHANGED <<timer, viewers, ops, lockVars, screen>>

\* The manager's error handler calls stop() while start() still has the lock.
InitFails(i) ==
  /\ AtHead(i, "start", "init")
  /\ SetState(i, "error")
  /\ SetPhase(i, "queued")
  /\ ops' = [ops EXCEPT ![i] = Stopped(Tail(@), None)]
  /\ NoTimer(i)
  /\ Leave(Caller(i), "failed")
  /\ UNCHANGED <<viewers, mapped, at, loopVars>>

\* Enough segments; whoever wrote them, the session is started.
Ready(i) ==
  /\ AtHead(i, "start", "ready")
  /\ state[i] # "error"
  /\ SetState(i, "started")
  /\ SetPhase(i, "queued")
  /\ Dequeue(i)
  /\ Connect(i, Caller(i))
  /\ Leave(Caller(i), "watching")
  /\ UNCHANGED <<mapped, at, loopVars>>

\* Mutant: the caller is not answered.
NotReadyHangs(i) ==
  /\ AtHead(i, "start", "ready")
  /\ SetState(i, "error")
  /\ SetPhase(i, "queued")
  /\ ops' = [ops EXCEPT ![i] = Stopped(Tail(@), None)]
  /\ NoTimer(i)
  /\ UNCHANGED <<viewers, lockVars, loopVars>>

\* Retries used up, or an error seen: state "error", stop() by the error
\* handler, and then start() sets "started", so the request succeeds.
NotReady(i) ==
  /\ AtHead(i, "start", "ready")
  /\ SetState(i, "started")
  /\ SetPhase(i, "queued")
  /\ ops' = [ops EXCEPT ![i] = Stopped(Tail(@), None)]
  /\ Connect(i, Caller(i))
  /\ Leave(Caller(i), "watching")
  /\ UNCHANGED <<mapped, at, loopVars>>
----------------------------------------------------------------------------
(* Session.stop() *)

\* Mutant: whichever session is at the key is removed.
AfterStopAny(i) ==
  \/ Caller(i) = None /\ Dequeue(i) /\ UNCHANGED <<timer, lockVars>>
  \/ /\ Caller(i) = Idle /\ mapped # None
     /\ ops' = [ops EXCEPT ![i] = Stopped(Tail(@), None)]
     /\ NoTimer(i)
     /\ mapped' = None
     /\ UNCHANGED <<chan, pc, at>>
  \/ Caller(i) = Idle /\ mapped = None /\ Dequeue(i) /\ UNCHANGED <<timer, lockVars>>
  \/ /\ Caller(i) \in Ender
     /\ Dequeue(i)
     /\ mapped' = None
     /\ Leave(Caller(i), "done")
     /\ UNCHANGED <<timer, at>>

\* Mutant: the removed session is not stopped.
AfterStopKeeps(i) ==
  \/ Caller(i) \in {None, Idle} /\ Dequeue(i) /\ UNCHANGED <<timer, chan, pc, at>>
     /\ mapped' = IF Caller(i) = Idle /\ mapped = i THEN None ELSE mapped
  \/ /\ Caller(i) \in Ender
     /\ Dequeue(i)
     /\ mapped' = None
     /\ Leave(Caller(i), "done")
     /\ UNCHANGED <<timer, at>>

\* Mutant: the session is stopped but stays at its key.
AfterStopForgets(i) ==
  /\ Dequeue(i)
  /\ \/ Caller(i) \in {None, Idle} /\ UNCHANGED lockVars
     \/ Caller(i) \in Ender /\ mapped' = None /\ Leave(Caller(i), "done") /\ UNCHANGED at
  /\ UNCHANGED timer

\* What the caller of stop() does next: nothing, the cleanup event (deleteSession
\* calls stop() again), or the end of endSession.
AfterStop(i) ==
  \/ Caller(i) = None /\ Dequeue(i) /\ UNCHANGED <<timer, lockVars>>
  \/ /\ Caller(i) = Idle /\ mapped = i
     /\ ops' = [ops EXCEPT ![i] = Stopped(Tail(@), None)]
     /\ NoTimer(i)
     /\ mapped' = None
     /\ UNCHANGED <<chan, pc, at>>
  \/ Caller(i) = Idle /\ mapped # i /\ Dequeue(i) /\ UNCHANGED <<timer, lockVars>>
  \/ /\ Caller(i) \in Ender
     /\ Dequeue(i)
     /\ mapped' = None
     /\ Leave(Caller(i), "done")
     /\ UNCHANGED <<timer, at>>

\* The running #currentSession of session i is the transcode of loop q.
Current(i, q) == loop[q] = "play" /\ at[q] = i

\* stopStream: the current transcode is killed, then the directory is wiped.
StopWaits(i) ==
  /\ AtHead(i, "stop", "queued")
  /\ state[i] \in Live
  /\ SetPhase(i, "clean")
  /\ loop' = [q \in Request |-> IF Current(i, q) THEN "ended" ELSE loop[q]]
  /\ UNCHANGED <<state, timer, viewers, ops, lockVars, screen>>

StopReturns(i) ==
  /\ AtHead(i, "stop", "queued")
  /\ state[i] \notin Live
  /\ AfterStop(i)
  /\ UNCHANGED <<state, viewers, phase, loopVars>>

CleanDone(i) ==
  /\ AtHead(i, "stop", "clean")
  /\ SetState(i, "stopped")
  /\ SetPhase(i, "queued")
  /\ AfterStop(i)
  /\ UNCHANGED <<viewers, loopVars>>
----------------------------------------------------------------------------
(* endSession *)

EndNothing(e) ==
  /\ pc[e] = "waiting"
  /\ mapped = None
  /\ Leave(e, "done")
  /\ UNCHANGED <<mapped, at, sessionVars, loopVars>>

End(e) ==
  /\ pc[e] = "waiting"
  /\ mapped # None
  /\ pc' = [pc EXCEPT ![e] = "ending"]
  /\ CallStop(mapped, e)
  /\ UNCHANGED <<state, viewers, phase, mapped, chan, at, loopVars>>
----------------------------------------------------------------------------
(* HlsSession.run() and transcode() *)

Goto(q, p) == loop' = [loop EXCEPT ![q] = p]

\* Session.scheduleCleanup
ScheduleCleanup(i) ==
  \/ state[i] = "error" /\ CallStop(i, None)
  \/ state[i] # "error" /\ timer' = [timer EXCEPT ![i] = TRUE] /\ UNCHANGED ops

\* while (state = started), after a rest, an item that is not there, or a played
\* item; at its end run() schedules a cleanup.
LoopTurns(q) ==
  /\ loop[q] # "none"
  /\ \/ /\ state[at[q]] = "started"
        /\ Goto(q, "idle")
        /\ UNCHANGED <<timer, ops>>
     \/ /\ state[at[q]] \notin {"started", "stopped"}
        /\ Goto(q, "none")
        /\ ScheduleCleanup(at[q])
     \/ /\ state[at[q]] = "stopped"
        /\ Goto(q, "none")
        /\ UNCHANGED <<timer, ops>>
  /\ UNCHANGED <<state, viewers, phase, lockVars, screen>>

\* The transcode of the item, or of the error screen, becomes the current one;
\* that of another loop of the session plays on as a stray.
TranscodeStarts(q) ==
  /\ loop[q] = "idle"
  /\ loop' = [r \in Request |->
       IF r = q THEN "play" ELSE IF Current(at[q], r) THEN "stray" ELSE loop[r]]
  /\ UNCHANGED <<sessionVars, lockVars, screen>>

\* The process breaks: run() goes on when it has ended, and the ProgramStream
\* plays an error screen, which nobody but itself can end.
TranscodeBreaks(q) ==
  /\ loop[q] \in {"play", "stray"}
  /\ Goto(q, "ended")
  /\ screen' = [screen EXCEPT ![q] = TRUE]
  /\ UNCHANGED <<sessionVars, lockVars>>

NoScreen(q) == screen' = [screen EXCEPT ![q] = FALSE]

ScreenEnds(q) ==
  /\ screen[q]
  /\ NoScreen(q)
  /\ UNCHANGED <<sessionVars, lockVars, loop>>

\* The set-up of the item and that of its error screen fail, and run() ends; or
\* the error screen breaks, whatever run() does meanwhile.
LoseTranscode(q) ==
  \/ loop[q] = "idle" /\ Goto(q, "none") /\ UNCHANGED screen
  \/ screen[q] /\ NoScreen(q) /\ UNCHANGED loop

\* Mutant: the session is not told to stop.
SessionErrorIgnored(q) ==
  /\ LoseTranscode(q)
  /\ SetState(at[q], "error")
  /\ UNCHANGED <<timer, viewers, ops, phase, lockVars>>

SessionError(q) ==
  /\ LoseTranscode(q)
  /\ SetState(at[q], "error")
  /\ CallStop(at[q], None)
  /\ UNCHANGED <<viewers, phase, lockVars>>

\* A rejection in transcode() ends run() without a cleanup.
LoopDies(q) ==
  /\ loop[q] = "idle"
  /\ Goto(q, "none")
  /\ UNCHANGED <<sessionVars, lockVars, screen>>
----------------------------------------------------------------------------
(* Viewers, CleanupSessionsTask, the idle timer *)

GoAway(q) ==
  /\ pc[q] = "watching"
  /\ pc' = [pc EXCEPT ![q] = "away"]
  /\ UNCHANGED <<mapped, chan, at, sessionVars, loopVars>>

\* A segment request reconnects a viewer to whatever session is at the key.
RequestSegment(q) ==
  /\ pc[q] \in {"watching", "away"}
  /\ mapped # None
  /\ pc' = [pc EXCEPT ![q] = "watching"]
  /\ \/ q \in viewers[mapped] /\ UNCHANGED <<timer, viewers>>
     \/ q \notin viewers[mapped] /\ Connect(mapped, q)
  /\ UNCHANGED <<state, ops, phase, mapped, chan, at, loopVars>>

Present(i) == {q \in viewers[i] : pc[q] = "watching"}

CleanupTask ==
  /\ mapped # None /\ state[mapped] # "starting"
  /\ viewers' = [viewers EXCEPT ![mapped] = Present(mapped)]
  /\ \/ Present(mapped) = {} /\ ScheduleCleanup(mapped)
     \/ Present(mapped) # {} /\ UNCHANGED <<timer, ops>>
  /\ UNCHANGED <<state, phase, lockVars, loopVars>>

\* Bound: cleanup events waiting in a queue.
FewCleanups(i) == \A n \in 1..Len(ops[i]) : ops[i][n].by # Idle

TimerFires(i) ==
  /\ timer[i]
  /\ FewCleanups(i)
  /\ \/ viewers[i] = {} /\ CallStop(i, Idle)
     \/ viewers[i] # {} /\ NoTimer(i) /\ UNCHANGED ops
  /\ UNCHANGED <<state, viewers, phase, lockVars, loopVars>>
----------------------------------------------------------------------------
\* What the call at the head of the channel's queue does.
ChannelStep ==
  /\ chan # <<>>
  /\ LET c == Head(chan) IN
       \/ c \in Request /\ (Refuse(c) \/ Create(c) \/ Join(c) \/ AskStart(c))
       \/ c \in Ender /\ (EndNothing(c) \/ End(c))

StartStep(i) ==
  \/ StartWaits(i) \/ StartReturns(i)
  \/ InitDone(i) \/ InitFails(i) \/ Ready(i) \/ NotReady(i)

StopStep(i) == StopWaits(i) \/ StopReturns(i) \/ CleanDone(i)

LoopStep(q) ==
  \/ LoopTurns(q) \/ LoopDies(q) \/ SessionError(q)
  \/ TranscodeStarts(q) \/ TranscodeBreaks(q) \/ ScreenEnds(q)

ViewerStep(q) == GoAway(q) \/ RequestSegment(q)

LockStep(i) == StartStep(i) \/ StopStep(i)

Next ==
  \/ \E c \in Request \cup Ender : Ask(c)
  \/ ChannelStep
  \/ \E q \in Request : LoopStep(q) \/ ViewerStep(q)
  \/ \E i \in Request : LockStep(i) \/ TimerFires(i)
  \/ CleanupTask

Spec == Init /\ [][Next]_vars

\* Promises settle, retries end, the task and the timers run.  Nothing is
\* assumed of viewers, enders or transcodes.
Fairness ==
  /\ WF_vars(ChannelStep)
  /\ \A i \in Request : WF_vars(LockStep(i)) /\ WF_vars(TimerFires(i))
  /\ WF_vars(CleanupTask)

FairSpec == Spec /\ Fairness
----------------------------------------------------------------------------
HasStop(i) == \E n \in 1..Len(ops[i]) : ops[i][n].op = "stop"

\* A session that is starting, running or broken can be reached through the
\* map, or a stop() of it is on its way: deleteSession, endSession and the
\* cleanup event never leave a transcode nobody can end.
NoOrphan == \A i \in Request : state[i] \in Live => mapped = i \/ HasStop(i)

\* An error never stays: whoever set it, a stop() is queued that takes the
\* session to "stopped", from where the next request restarts it.
ErrorIsShutDown == \A i \in Request : state[i] = "error" => HasStop(i)

\* Only a session's own cleanup event or an endSession of it takes it off the
\* map: a late timer of a replaced session never removes its replacement.
LeavesByOwnStop ==
  [][\A i \in Request : mapped = i /\ mapped' # i =>
       /\ ops[i] # <<>>
       /\ Head(ops[i]).op = "stop" /\ Head(ops[i]).by # None]_vars

\* Every getOrCreateSession and every endSession call ends, whatever fails: the
\* channel lock and the session lock never wait for each other.
EveryRequestIsAnswered ==
  []<>(\A c \in Request \cup Ender : pc[c] \notin {"waiting", "starting", "ending"})

Quiet == \A q \in Request : pc[q] \notin {"waiting", "starting", "watching"}

\* Once all viewers have gone for good the session leaves the map.
AbandonedIsRemoved == []<>(Quiet => mapped = None)

\* Session.ts: "End this shared session.  This will stop the stream for all
\* participants."  Read: a stopped session transcodes nothing.
StoppedTranscodesNothing ==
  \A q \in Request : loop[q] \in {"play", "stray"} \/ screen[q] => state[at[q]] # "stopped"
=============================================================================
