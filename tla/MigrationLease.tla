--------------------------- MODULE MigrationLease ---------------------------
(***************************************************************************)
(* SqliteMigrationLeaseCoordinator (the row of cf_migration_lease) and the *)
(* sessions ChannelForgeMigrationPreflightCoordinator builds on it:        *)
(*   prepare() acquires the lease, awaits the verified backup, and returns *)
(*   a session, or releases the lease when the backup fails;               *)
(*   release() ends the session; renew() is left to its owner.             *)
(*                                                                         *)
(* Sessions run in several processes that share one clock.  Every lease    *)
(* operation is one SQLite transaction, so one action.  Instead of a clock *)
(* and a date the model keeps the time a lease has left: only whether      *)
(* expires_at is later than now matters.                                   *)
(***************************************************************************)
EXTENDS MigrationLeaseState

vars == <<row, session>>

Pc == {"idle", "backup", "open", "ended", "dead"}

NoRow == [owner |-> Nobody, left |-> 0]

Init == row = NoRow /\ session = [s \in Session |-> [pc |-> "idle", left |-> 0]]

Minus1(n) == IF n = 0 THEN 0 ELSE n - 1

\* Time passes for the row and for every lease object.
Tick ==
  /\ row' = [row EXCEPT !.left = Minus1(@)]
  /\ session' = [s \in Session |-> [session[s] EXCEPT !.left = Minus1(@)]]

Enter(s, pc, left) ==
  session' = [session EXCEPT ![s] = [pc |-> pc, left |-> left]]

\* Mutant: another owner's lease may be taken in its last moment.
PrepareEarly(s) ==
  /\ session[s].pc = "idle"
  /\ row.owner = Nobody \/ row.left <= 1
  /\ \E ttl \in Ttl : /\ row' = [owner |-> TokenOf[s], left |-> ttl]
                      /\ Enter(s, "backup", ttl)

\* Mutant: a lease that was never released stays taken.
PrepareNeverSteals(s) ==
  /\ session[s].pc = "idle"
  /\ row.owner = Nobody
  /\ \E ttl \in Ttl : /\ row' = [owner |-> TokenOf[s], left |-> ttl]
                      /\ Enter(s, "backup", ttl)

(***************************************************************************)
(* prepare: acquire.  No row, or an expired one, is replaced; the caller's *)
(* own unexpired lease is returned as it is; another owner's unexpired     *)
(* lease makes acquire throw, which changes nothing.                       *)
(***************************************************************************)
Prepare(s) ==
  /\ session[s].pc = "idle"
  /\ \/ /\ row.owner = Nobody \/ Expired
        /\ \E ttl \in Ttl : /\ row' = [owner |-> TokenOf[s], left |-> ttl]
                            /\ Enter(s, "backup", ttl)
     \/ /\ Held(s) /\ ~Expired
        /\ Enter(s, "backup", row.left)
        /\ UNCHANGED row

\* The verified backup is there: prepare() returns the session.
BackupSucceeds(s) ==
  /\ session[s].pc = "backup"
  /\ Enter(s, "open", session[s].left)
  /\ UNCHANGED row

\* Mutant: the lease is deleted by its name alone.
DropAny(s) == row' = NoRow

\* release: DELETE by owner token, expired or not; it throws when no row matches.
Drop(s) == row' = IF Held(s) THEN NoRow ELSE row

\* The backup fails: release, whose own error is swallowed, and rethrow.
BackupFails(s) ==
  /\ session[s].pc = "backup"
  /\ Drop(s)
  /\ Enter(s, "ended", 0)

\* The session is released by its owner.
Release(s) ==
  /\ session[s].pc = "open"
  /\ Drop(s)
  /\ Enter(s, "ended", 0)

\* Mutant: the new expiry is counted from the old one.
RenewAccumulates(s) ==
  /\ session[s].pc = "open" /\ Held(s) /\ ~Expired
  /\ \E ttl \in Ttl : /\ row' = [row EXCEPT !.left = @ + ttl]
                      /\ Enter(s, "open", row.left + ttl)

\* renew: only the owner, only before expiry; otherwise it throws.
Renew(s) ==
  /\ session[s].pc = "open" /\ Held(s) /\ ~Expired
  /\ \E ttl \in Ttl : /\ row' = [row EXCEPT !.left = ttl]
                      /\ Enter(s, "open", ttl)

\* The process of the session dies; the row stays until it expires.
Die(s) ==
  /\ Holding(s)
  /\ Enter(s, "dead", 0)
  /\ UNCHANGED row

Next ==
  \/ Tick
  \/ \E s \in Session : \/ Prepare(s) \/ BackupSucceeds(s) \/ BackupFails(s)
                        \/ Renew(s) \/ Release(s) \/ Die(s)

Spec == Init /\ [][Next]_vars

\* Time passes, a waiting caller tries again, a backup ends, a session is released.
Fairness ==
  /\ WF_vars(Tick)
  /\ \A s \in Session : /\ WF_vars(Prepare(s))
                        /\ WF_vars(BackupSucceeds(s) \/ BackupFails(s))
                        /\ WF_vars(Release(s))

FairSpec == Spec /\ Fairness

-----------------------------------------------------------------------------
\* Every variable keeps its type.
TypeOK ==
  /\ row \in [owner : Token \cup {Nobody}, left : 0..MaxTtl]
  /\ session \in [Session -> [pc : Pc, left : 0..MaxTtl]]

\* A process that dies with the lease does not block migration for ever.
WaiterGetsLease ==
  \A s \in Session : session[s].pc = "idle" ~> session[s].pc # "idle"
=============================================================================
