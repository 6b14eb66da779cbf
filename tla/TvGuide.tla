------------------------------ MODULE TvGuide ------------------------------
(***************************************************************************)
(* TVGuideService: calls of buildAllChannels and refreshGuide, each of     *)
(* which loads all lineups into the service's fields (the context), builds *)
(* the guide of its channels, one call at a time per channel, writes the   *)
(* XMLTV file and clears the context.  Calls overlap at every await: the   *)
(* scheduled task, the commands that change a channel, and the API do not  *)
(* wait for each other.                                                    *)
(*                                                                         *)
(* A lineup is its version, and so is the guide built from it: a build     *)
(* that mixes the programs of one version with the offsets of a newer      *)
(* context is not told from one of the older.  The clock of a server does  *)
(* not go back, and a call takes a millisecond at least.  Deleted channels *)
(* and the times of the guide are left out, and the assertions that only a *)
(* development build makes.                                                *)
(***************************************************************************)
EXTENDS TvGuideState

vars == <<version, context, guide, lockQueue, build, read, wanted>>

Lineups == [Channel -> 0..MaxVersion]
Pc      == {"idle", "loading", "loaded", "building", "done"}

InFlight == {b \in Build : build[b].pc \notin {"idle", "done"}}

Init ==
  /\ version = [c \in Channel |-> 0]
  /\ context = {}
  /\ guide = version
  /\ lockQueue = [c \in Channel |-> <<>>]
  /\ build = [b \in Build |-> [pc |-> "idle", scope |-> {}, begun |-> {}, left |-> {},
                            threw |-> {}]]
  /\ read = [b \in Build |-> version]
  /\ wanted = [b \in Build |-> version]

Holds(b, c) == lockQueue[c] # <<>> /\ Head(lockQueue[c]) = b

\* The continuation of a lock that was granted runs before any other event.
Granted(b, c) == Holds(b, c) /\ c \notin build[b].begun
Turn == \A b \in Build, c \in Channel : ~Granted(b, c)

\* A lineup is saved.
Update(c) ==
  /\ version[c] < MaxVersion /\ Turn
  /\ version' = [version EXCEPT ![c] = @ + 1]
  /\ UNCHANGED <<context, guide, lockQueue, build, read, wanted>>

\* A call for all channels or for one; withGuideContext awaits loadAllLineups.
Call(b) ==
  /\ build[b].pc = "idle" /\ Turn
  /\ \E scope \in {Channel} \cup {{c} : c \in Channel} :
       build' = [build EXCEPT ![b].pc = "loading", ![b].scope = scope]
  /\ wanted' = [wanted EXCEPT ![b] = version]
  /\ UNCHANGED <<version, context, guide, lockQueue, read>>

\* The lineups are read...
Load(b) ==
  /\ build[b].pc = "loading" /\ Turn
  /\ build' = [build EXCEPT ![b].pc = "loaded"]
  /\ read' = [read EXCEPT ![b] = version]
  /\ UNCHANGED <<version, context, guide, lockQueue, wanted>>

\* ... or cannot be: the call rejects, and clears the context all the same.
LoadFails(b) ==
  /\ build[b].pc = "loading" /\ Turn
  /\ context' = {}
  /\ build' = [build EXCEPT ![b].pc = "done", ![b].threw = build[b].scope]
  /\ UNCHANGED <<version, guide, lockQueue, read, wanted>>

\* ... and become the context; every channel of the call asks for its lock.
Open(b) ==
  /\ build[b].pc = "loaded" /\ Turn
  /\ context' = {read[b]}
  /\ build' = [build EXCEPT ![b].pc = "building", ![b].left = build[b].scope]
  /\ lockQueue' = [c \in Channel |-> IF c \in build[b].scope THEN Append(lockQueue[c], b) ELSE lockQueue[c]]
  /\ UNCHANGED <<version, guide, read, wanted>>

\* The lock's holder finds the lineup of its channel in the context.
Begin(b, c) ==
  /\ Granted(b, c)
  /\ \E lineups \in context : read' = [read EXCEPT ![b][c] = lineups[c]]
  /\ build' = [build EXCEPT ![b].begun = @ \cup {c}]
  /\ UNCHANGED <<version, context, guide, lockQueue, wanted>>

\* The call is done with the channel, and releases its lock.
Leave(b, c, errors) ==
  /\ c \in build[b].left
  /\ build' = [build EXCEPT ![b].begun = @ \cup {c}, ![b].left = @ \ {c}, ![b].threw = @ \cup errors]
  /\ lockQueue' = [lockQueue EXCEPT ![c] = Tail(@)]

(***************************************************************************)
(* Unless it is forced, a call passes over a channel whose last update is  *)
(* not before this millisecond (TvGuideService.ts:446).  That update was   *)
(* made by a call of this millisecond, which is therefore in flight yet.   *)
(***************************************************************************)
Skip(b, c) ==
  /\ Granted(b, c)
  /\ \E a \in InFlight \ {b} : build[a].pc = "building" /\ c \in build[a].scope \ build[a].left
  /\ Leave(b, c, {})
  /\ UNCHANGED <<version, context, guide, read, wanted>>

\* Mutant: the error leaves the lock taken.
LoseContextLocked(b, c) ==
  /\ Holds(b, c) /\ context = {}
  /\ Granted(b, c) \/ Turn
  /\ build' = [build EXCEPT ![b].begun = @ \cup {c}, ![b].left = @ \ {c}]
  /\ UNCHANGED <<version, context, guide, lockQueue, read, wanted>>

(***************************************************************************)
(* The context is gone, at the start or later, when the current program is *)
(* looked up (line 485): the error is caught inside the retry, so the      *)
(* build is over, and counted as an update, with the old guide.  A         *)
(* redirect that finds no context is only logged: the build goes on to     *)
(* Finish.                                                                 *)
(***************************************************************************)
LoseContext(b, c) ==
  /\ Holds(b, c) /\ context = {}
  /\ Granted(b, c) \/ Turn
  /\ Leave(b, c, {})
  /\ UNCHANGED <<version, context, guide, read, wanted>>

\* The build meets an error of its own, a lineup it cannot place or a query that
\* fails: caught and logged like a lost context, with the old guide.
Throw(b, c) ==
  /\ Holds(b, c) /\ Turn
  /\ Leave(b, c, {c})
  /\ UNCHANGED <<version, context, guide, read, wanted>>

\* Mutant: the context is cleared with the first channel that is built.
FinishClears(b, c) ==
  /\ Holds(b, c) /\ Turn
  /\ guide' = [guide EXCEPT ![c] = read[b][c]]
  /\ context' = {}
  /\ Leave(b, c, {})
  /\ UNCHANGED <<version, read, wanted>>

\* The guide of the channel is built and its lock released.
Finish(b, c) ==
  /\ Holds(b, c) /\ Turn
  /\ guide' = [guide EXCEPT ![c] = read[b][c]]
  /\ Leave(b, c, {})
  /\ UNCHANGED <<version, context, read, wanted>>

\* The file is written, or cannot be; the context is cleared, whoever has set it.
Close(b) ==
  /\ build[b].pc = "building" /\ build[b].left = {} /\ Turn
  /\ context' = {}
  /\ build' = [build EXCEPT ![b].pc = "done"]
  /\ UNCHANGED <<version, guide, lockQueue, read, wanted>>

\* What withGuideContext does, and what a call does with the lock of a channel.
Stage(b) == Load(b) \/ LoadFails(b) \/ Open(b) \/ Close(b)
BuildChannel(b, c) ==
  Begin(b, c) \/ Skip(b, c) \/ LoseContext(b, c) \/ Throw(b, c) \/ Finish(b, c)

Work(b) == Stage(b) \/ \E c \in Channel : BuildChannel(b, c)

Next ==
  \/ \E c \in Channel : Update(c)
  \/ \E b \in Build : Call(b) \/ Work(b)

Spec == Init /\ [][Next]_vars

\* Whatever a call awaits comes.
Fairness ==
  \A b \in Build :
    /\ WF_vars(Stage(b))
    /\ \A c \in Channel : WF_vars(BuildChannel(b, c))

FairSpec == Spec /\ Fairness

-----------------------------------------------------------------------------
\* Every variable keeps its type.
TypeOK ==
  /\ version \in Lineups /\ guide \in Lineups
  /\ context \in SUBSET Lineups
  /\ lockQueue \in [Channel -> Seq(Build)]
  /\ build \in [Build -> [pc : Pc, scope : SUBSET Channel, begun : SUBSET Channel,
                          left : SUBSET Channel, threw : SUBSET Channel]]
  /\ read \in [Build -> Lineups] /\ wanted \in [Build -> Lineups]

(***************************************************************************)
(* RegenerateChannelLineupCommand and the tasks rely on it: when a call    *)
(* has returned, the guide of its channels is built from lineups no older  *)
(* than the call, but for channels whose build threw an error of its own.  *)
(* Nothing tells the caller of those (TvGuideService.ts:1010-1016).        *)
(***************************************************************************)
ReturnedIsFresh ==
  \A b \in Build : build[b].pc = "done" =>
    \A c \in build[b].scope \ build[b].threw : guide[c] >= wanted[b][c]

\* Every call returns, whatever others do to the context it works with and
\* whatever its builds throw.
EveryBuildEnds == \A b \in Build : build[b].pc = "loading" ~> build[b].pc = "done"
=============================================================================
