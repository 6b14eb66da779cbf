------------------------ MODULE MigrationLeaseState -------------------------
(***************************************************************************)
(* The migration lease: the sessions that ask for it, the row, and what    *)
(* holds of them whatever the sessions do.                                 *)
(***************************************************************************)
EXTENDS Naturals

CONSTANTS
  Session,   \* prepare() calls, one per migration attempt
  Token,     \* owner tokens
  TokenOf,   \* the token a session acquires with (a random one by default)
  Ttl,       \* requested times to live
  MaxTtl,    \* bound: the longest of them
  Nobody     \* the table has no row

ASSUME LeaseAssumption ==
  /\ TokenOf \in [Session -> Token]
  /\ MaxTtl \in Nat
  /\ Ttl \subseteq 1..MaxTtl
  /\ Nobody \notin Token

VARIABLES
  row,      \* the owner and the time left; Nobody: no row
  session   \* per session its progress and the time its lease object has left

OwnToken(s) == \A t \in Session : TokenOf[t] = TokenOf[s] => t = s

Held(s)    == row.owner = TokenOf[s]
Expired    == row.left = 0
Holding(s) == session[s].pc \in {"backup", "open"}

-----------------------------------------------------------------------------
(***************************************************************************)
(* migration-preflight.md, "An unexpired lease blocks another owner" and   *)
(* "The prior owner can no longer renew or release the lease": a session   *)
(* whose lease object has time left still owns the row, for at least that  *)
(* long, whatever expired predecessors do late.  Its token must be its     *)
(* own, as the random one prepare() acquires with by default is.           *)
(***************************************************************************)
UnexpiredLeaseIsHonoured ==
  \A s \in Session : (OwnToken(s) /\ Holding(s) /\ session[s].left > 0) =>
                       Held(s) /\ row.left >= session[s].left

(***************************************************************************)
(* An unexpired lease ends only by the hand of a session that has its      *)
(* token, or because its time is up.                                       *)
(***************************************************************************)
OnlyOwnerEndsLease ==
  [][(~Expired /\ row'.owner # row.owner) =>
       \E s \in Session : Held(s) /\ Holding(s) /\ session'[s].pc = "ended"]_<<row, session>>

\* The row implements the lease, by token.
Lease == INSTANCE ExclusiveLease WITH
           holder <- IF Expired THEN Nobody ELSE row.owner

ImplementsExclusiveLease == Lease!Spec
=============================================================================
