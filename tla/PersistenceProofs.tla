------------------------- MODULE PersistenceProofs -------------------------
(***************************************************************************)
(* Proofs about what ChannelForge keeps in its own tables: the migration   *)
(* lease for every set of sessions, tokens and times to live, the identity *)
(* mapping for every set of identifiers and readers, and what behaviours   *)
(* of MCPersistence, where the lease, the runner and the identities are    *)
(* side by side, inherit from the proofs about each.                       *)
(***************************************************************************)
EXTENDS MCPersistence, TLAPS

\* A row without an owner has no time left.
NobodyHasNoTime == row.owner = Nobody => row.left = 0

LeaseInv == L!TypeOK /\ NobodyHasNoTime

\* Ticking down a number of the bounded range stays in the range.
LEMMA MinusType ==
  \A n \in 0..MaxTtl : /\ L!Minus1(n) \in 0..MaxTtl
                       /\ n = 0 => L!Minus1(n) = 0
                       /\ n # 0 => L!Minus1(n) = n - 1
BY LeaseAssumption DEF L!Minus1

\* A time to live is a positive number of the range.
LEMMA TtlType == \A ttl \in Ttl : ttl \in 0..MaxTtl /\ ttl # 0
BY LeaseAssumption

\* A session's progress replaced by a well-typed one is well typed.
LEMMA EnterType ==
  ASSUME L!TypeOK, NEW s \in Session, NEW pc \in L!Pc, NEW left \in 0..MaxTtl, L!Enter(s, pc, left)
  PROVE  session' \in [Session -> [pc : L!Pc, left : 0..MaxTtl]]
BY DEF L!TypeOK, L!Enter

\* Deleting the row, or not, keeps it well typed.
LEMMA DropType ==
  ASSUME LeaseInv, NEW s \in Session, L!Drop(s)
  PROVE  /\ row' \in [owner : Token \cup {Nobody}, left : 0..MaxTtl]
         /\ NobodyHasNoTime'
BY LeaseAssumption DEF LeaseInv, L!TypeOK, NobodyHasNoTime, L!Drop, L!NoRow

\* The initial state satisfies the invariant.
LEMMA InitLeaseInv == L!Init => LeaseInv
BY LeaseAssumption DEF L!Init, LeaseInv, L!TypeOK, NobodyHasNoTime, L!NoRow, L!Pc

\* Every step preserves it.
LEMMA LeaseStep == LeaseInv /\ [L!Next]_L!vars => LeaseInv'
<1> SUFFICES ASSUME LeaseInv, [L!Next]_L!vars PROVE LeaseInv'
  OBVIOUS
<1> USE DEF LeaseInv
<1>0. 0 \in 0..MaxTtl /\ TokenOf \in [Session -> Token]
  BY LeaseAssumption
<1>1. CASE L!Tick
  <2>1. row' = [row EXCEPT !.left = L!Minus1(@)]
    BY <1>1 DEF L!Tick
  <2>2. row.left \in 0..MaxTtl /\ row.owner \in Token \cup {Nobody}
    BY DEF L!TypeOK
  <2>3. L!Minus1(row.left) \in 0..MaxTtl /\ (row.left = 0 => L!Minus1(row.left) = 0)
    BY <2>2, MinusType
  <2>4. row' \in [owner : Token \cup {Nobody}, left : 0..MaxTtl] /\ NobodyHasNoTime'
    BY <2>1, <2>2, <2>3 DEF L!TypeOK, NobodyHasNoTime
  <2>5. session' = [s \in Session |-> [session[s] EXCEPT !.left = L!Minus1(@)]]
    BY <1>1 DEF L!Tick
  <2>6. \A s \in Session : [session[s] EXCEPT !.left = L!Minus1(@)] \in [pc : L!Pc, left : 0..MaxTtl]
    BY MinusType DEF L!TypeOK
  <2>7. session' \in [Session -> [pc : L!Pc, left : 0..MaxTtl]]
    BY <2>5, <2>6
  <2> QED BY <2>4, <2>7 DEF L!TypeOK
<1>2. ASSUME NEW s \in Session, L!Prepare(s) PROVE LeaseInv'
  <2>1. CASE \E ttl \in Ttl : row' = [owner |-> TokenOf[s], left |-> ttl] /\ L!Enter(s, "backup", ttl)
    <3>1. PICK ttl \in Ttl : row' = [owner |-> TokenOf[s], left |-> ttl] /\ L!Enter(s, "backup", ttl)
      BY <2>1
    <3>2. session' \in [Session -> [pc : L!Pc, left : 0..MaxTtl]]
      BY <3>1, TtlType, EnterType DEF L!Pc
    <3> QED BY <3>1, <3>2, <1>0, TtlType, LeaseAssumption DEF L!TypeOK, NobodyHasNoTime
  <2>2. CASE L!Enter(s, "backup", row.left) /\ UNCHANGED row
    <3>1. session' \in [Session -> [pc : L!Pc, left : 0..MaxTtl]]
      BY <2>2, EnterType DEF L!Pc, L!TypeOK
    <3> QED BY <2>2, <3>1 DEF L!TypeOK, NobodyHasNoTime
  <2> QED BY <1>2, <2>1, <2>2 DEF L!Prepare
<1>3. ASSUME NEW s \in Session, L!BackupSucceeds(s) PROVE LeaseInv'
  <2>1. session' \in [Session -> [pc : L!Pc, left : 0..MaxTtl]]
    BY <1>3, EnterType DEF L!BackupSucceeds, L!Pc, L!TypeOK
  <2> QED BY <1>3, <2>1 DEF L!BackupSucceeds, L!TypeOK, NobodyHasNoTime
<1>4. ASSUME NEW s \in Session, L!BackupFails(s) \/ L!Release(s) PROVE LeaseInv'
  <2>1. L!Drop(s) /\ L!Enter(s, "ended", 0)
    BY <1>4 DEF L!BackupFails, L!Release
  <2>2. session' \in [Session -> [pc : L!Pc, left : 0..MaxTtl]]
    BY <1>0, <2>1, EnterType DEF L!Pc
  <2> QED BY <2>1, <2>2, DropType DEF L!TypeOK
<1>5. ASSUME NEW s \in Session, L!Renew(s) PROVE LeaseInv'
  <2>1. PICK ttl \in Ttl : row' = [row EXCEPT !.left = ttl] /\ L!Enter(s, "open", ttl)
    BY <1>5 DEF L!Renew
  <2>2. session' \in [Session -> [pc : L!Pc, left : 0..MaxTtl]]
    BY <2>1, TtlType, EnterType DEF L!Pc
  <2>3. row.owner = TokenOf[s]
    BY <1>5 DEF L!Renew, Held, L!Held
  <2> QED BY <2>1, <2>2, <2>3, <1>0, TtlType, LeaseAssumption DEF L!TypeOK, NobodyHasNoTime
<1>6. ASSUME NEW s \in Session, L!Die(s) PROVE LeaseInv'
  <2>1. session' \in [Session -> [pc : L!Pc, left : 0..MaxTtl]]
    BY <1>0, <1>6, EnterType DEF L!Die, L!Pc
  <2> QED BY <1>6, <2>1 DEF L!Die, L!TypeOK, NobodyHasNoTime
<1>7. CASE UNCHANGED L!vars
  BY <1>7 DEF L!vars, L!TypeOK, NobodyHasNoTime
<1> QED BY <1>1, <1>2, <1>3, <1>4, <1>5, <1>6, <1>7 DEF L!Next

\* The row and the sessions are well typed, and a free row has no time left.
THEOREM LeaseKeepsInv == L!Spec => []LeaseInv
BY InitLeaseInv, LeaseStep, PTL DEF L!Spec

\* TypeOK of MigrationLease, whatever the constants.
THEOREM LeaseKeepsTypes == L!Spec => []L!TypeOK
BY LeaseKeepsInv, PTL DEF LeaseInv

-----------------------------------------------------------------------------
\* One step cannot take an unexpired lease from its session.
LEMMA HonouredStep ==
  ASSUME LeaseInv, UnexpiredLeaseIsHonoured, [L!Next]_L!vars
  PROVE  UnexpiredLeaseIsHonoured'
<1> USE DEF LeaseInv
<1>0. TokenOf \in [Session -> Token] /\ Nobody \notin Token
  BY LeaseAssumption
<1> SUFFICES ASSUME NEW t \in Session, OwnToken(t), Holding(t)', (session[t].left > 0)'
             PROVE  Held(t)' /\ (row.left >= session[t].left)'
  BY DEF UnexpiredLeaseIsHonoured, OwnToken
<1>T. /\ row.left \in 0..MaxTtl
      /\ \A s \in Session : session[s].left \in 0..MaxTtl
  BY DEF L!TypeOK
<1>H. (Holding(t) /\ session[t].left > 0) => row.owner = TokenOf[t] /\ row.left >= session[t].left
  BY DEF UnexpiredLeaseIsHonoured, Held, L!Held
<1>K. \A s \in Session : s # t => TokenOf[s] # TokenOf[t]
  BY DEF OwnToken
\* A step that leaves the row and this session alone.
<1>S. ASSUME UNCHANGED row, session'[t] = session[t] PROVE Held(t)' /\ (row.left >= session[t].left)'
  BY <1>S, <1>H DEF Holding, L!Holding, Held, L!Held
<1>1. CASE L!Tick
  <2>1. session'[t] = [session[t] EXCEPT !.left = L!Minus1(@)] /\ row' = [row EXCEPT !.left = L!Minus1(@)]
    BY <1>1 DEF L!Tick
  <2>2. session'[t].pc = session[t].pc /\ session'[t].left = L!Minus1(session[t].left)
    BY <2>1 DEF L!TypeOK
  <2>3. row'.owner = row.owner /\ row'.left = L!Minus1(row.left)
    BY <2>1 DEF L!TypeOK
  <2>4. session[t].left # 0 /\ session'[t].left = session[t].left - 1
    BY <2>2, <1>T, MinusType
  <2>5. row.owner = TokenOf[t] /\ row.left >= session[t].left
    BY <1>H, <1>T, <2>2, <2>4 DEF Holding, L!Holding
  <2>6. row'.left = row.left - 1
    BY <2>3, <2>4, <2>5, <1>T, MinusType
  <2> QED BY <2>3, <2>4, <2>5, <2>6, <1>T DEF Held, L!Held
<1>2. ASSUME NEW s \in Session, L!Prepare(s) PROVE Held(t)' /\ (row.left >= session[t].left)'
  <2>1. CASE s = t
    <3>1. CASE \E ttl \in Ttl : row' = [owner |-> TokenOf[s], left |-> ttl] /\ L!Enter(s, "backup", ttl)
      <4>1. PICK ttl \in Ttl : row' = [owner |-> TokenOf[s], left |-> ttl] /\ L!Enter(s, "backup", ttl)
        BY <3>1
      <4>2. session'[t].left = ttl
        BY <2>1, <4>1 DEF L!Enter, L!TypeOK
      <4> QED BY <2>1, <4>1, <4>2, TtlType DEF Held, L!Held
    <3>2. CASE Held(s) /\ L!Enter(s, "backup", row.left) /\ UNCHANGED row
      <4>1. session'[t].left = row.left
        BY <2>1, <3>2 DEF L!Enter, L!TypeOK
      <4> QED BY <2>1, <3>2, <4>1, <1>T DEF Held, L!Held
    <3> QED BY <1>2, <3>1, <3>2 DEF L!Prepare, Held, L!Held
  <2>2. CASE s # t
    <3>1. session'[t] = session[t]
      BY <1>2, <2>2 DEF L!Prepare, L!Enter, L!TypeOK
    <3>2. row.owner = TokenOf[t] /\ row.left # 0
      BY <3>1, <1>H, <1>T DEF Holding, L!Holding
    <3>3. UNCHANGED row
      BY <1>0, <1>2, <3>2 DEF L!Prepare, Expired, L!Expired
    <3> QED BY <3>1, <3>3, <1>S
  <2> QED BY <2>1, <2>2
<1>3. ASSUME NEW s \in Session, L!BackupSucceeds(s) PROVE Held(t)' /\ (row.left >= session[t].left)'
  <2>1. session'[t].left = session[t].left /\ Holding(t)
    BY <1>3 DEF L!BackupSucceeds, L!Enter, Holding, L!Holding, L!TypeOK
  <2> QED BY <1>3, <2>1, <1>H DEF L!BackupSucceeds, Held, L!Held
<1>4. ASSUME NEW s \in Session, L!BackupFails(s) \/ L!Release(s)
      PROVE  Held(t)' /\ (row.left >= session[t].left)'
  <2>1. L!Drop(s) /\ L!Enter(s, "ended", 0)
    BY <1>4 DEF L!BackupFails, L!Release
  <2>2. s # t
    BY <2>1 DEF L!Enter, Holding, L!Holding, L!TypeOK
  <2>3. session'[t] = session[t]
    BY <2>1, <2>2 DEF L!Enter, L!TypeOK
  <2>4. row.owner = TokenOf[t]
    BY <2>3, <1>H DEF Holding, L!Holding
  <2>5. UNCHANGED row
    BY <2>1, <2>2, <2>4, <1>K DEF L!Drop, Held, L!Held
  <2> QED BY <2>3, <2>5, <1>S
<1>5. ASSUME NEW s \in Session, L!Renew(s) PROVE Held(t)' /\ (row.left >= session[t].left)'
  <2>1. PICK ttl \in Ttl : row' = [row EXCEPT !.left = ttl] /\ L!Enter(s, "open", ttl)
    BY <1>5 DEF L!Renew
  <2>2. row.owner = TokenOf[s] /\ row'.owner = row.owner /\ row'.left = ttl
    BY <1>5, <2>1 DEF L!Renew, Held, L!Held, L!TypeOK
  <2>3. CASE s = t
    <3>1. session'[t].left = ttl
      BY <2>1, <2>3 DEF L!Enter, L!TypeOK
    <3> QED BY <2>2, <2>3, <3>1, TtlType DEF Held, L!Held
  <2>4. CASE s # t
    <3>1. session'[t] = session[t]
      BY <2>1, <2>4 DEF L!Enter, L!TypeOK
    <3>2. row.owner = TokenOf[t]
      BY <3>1, <1>H DEF Holding, L!Holding
    <3> QED BY <2>2, <2>4, <3>2, <1>K
  <2> QED BY <2>3, <2>4
<1>6. ASSUME NEW s \in Session, L!Die(s) PROVE Held(t)' /\ (row.left >= session[t].left)'
  <2>1. s # t
    BY <1>6 DEF L!Die, L!Enter, Holding, L!Holding, L!TypeOK
  <2> QED BY <1>6, <2>1, <1>S DEF L!Die, L!Enter, L!TypeOK
<1>7. CASE UNCHANGED L!vars
  BY <1>7, <1>S DEF L!vars
<1> QED BY <1>1, <1>2, <1>3, <1>4, <1>5, <1>6, <1>7 DEF L!Next

(***************************************************************************)
(* The theorem of the lease: a session with a token of its own and time    *)
(* left on its lease object owns the row for at least that long.           *)
(***************************************************************************)
THEOREM LeasesAreHonoured == L!Spec => []UnexpiredLeaseIsHonoured
<1>1. L!Init => UnexpiredLeaseIsHonoured
  BY DEF L!Init, UnexpiredLeaseIsHonoured, Holding, L!Holding
<1>2. LeaseInv /\ UnexpiredLeaseIsHonoured /\ [L!Next]_L!vars => UnexpiredLeaseIsHonoured'
  BY HonouredStep
<1> QED BY <1>1, <1>2, LeaseKeepsInv, PTL DEF L!Spec

-----------------------------------------------------------------------------
\* Only its owner ends an unexpired lease.
THEOREM LeasesAreEndedByOwners == L!Spec => OnlyOwnerEndsLease
<1>1. ASSUME LeaseInv, [L!Next]_L!vars, ~Expired, row'.owner # row.owner
      PROVE  \E s \in Session : Held(s) /\ Holding(s) /\ session'[s].pc = "ended"
  <2> USE <1>1 DEF LeaseInv
  <2>1. row.owner # Nobody
    BY DEF NobodyHasNoTime, Expired, L!Expired
  <2>2. ~L!Tick
    BY DEF L!Tick, L!TypeOK
  <2>3. ASSUME NEW s \in Session, L!Prepare(s) \/ L!BackupSucceeds(s) \/ L!Renew(s) \/ L!Die(s) PROVE FALSE
    BY <2>1, <2>3 DEF L!Prepare, L!BackupSucceeds, L!Renew, L!Die, Expired, L!Expired, L!TypeOK
  <2>4. PICK s \in Session : L!BackupFails(s) \/ L!Release(s)
    BY <2>2, <2>3 DEF L!Next, L!vars
  <2>5. L!Drop(s) /\ L!Enter(s, "ended", 0) /\ Holding(s)
    BY <2>4 DEF L!BackupFails, L!Release, Holding, L!Holding
  <2>6. Held(s)
    BY <2>5 DEF L!Drop, Held, L!Held
  <2>7. session'[s].pc = "ended"
    BY <2>5 DEF L!Enter, L!TypeOK
  <2> QED BY <2>5, <2>6, <2>7
<1>2. LeaseInv /\ [L!Next]_L!vars =>
        [(~Expired /\ row'.owner # row.owner) =>
           \E s \in Session : Held(s) /\ Holding(s) /\ session'[s].pc = "ended"]_<<row, session>>
  BY <1>1 DEF L!vars
<1> QED BY <1>2, LeaseKeepsInv, PTL DEF L!Spec, OnlyOwnerEndsLease

-----------------------------------------------------------------------------
\* Who holds the lease, as ExclusiveLease sees it.
Holder == IF Expired THEN Nobody ELSE row.owner

\* A step of the lease.
HolderStep ==
  \/ Holder # Nobody /\ Holder' = Nobody
  \/ \E t \in Token : Holder = Nobody /\ Holder' = t
  \/ Holder' = Holder

\* Every step takes the free lease, frees it, or leaves it alone.
LEMMA StepOfHolder ==
  ASSUME LeaseInv, [L!Next]_L!vars
  PROVE  HolderStep
<1> USE DEF LeaseInv
<1>0. TokenOf \in [Session -> Token] /\ row.left \in 0..MaxTtl
  BY LeaseAssumption DEF L!TypeOK
<1>1. CASE L!Tick
  <2>1. row'.owner = row.owner /\ row'.left = L!Minus1(row.left)
    BY <1>1 DEF L!Tick, L!TypeOK
  <2> QED BY <1>0, <2>1, MinusType DEF HolderStep, Holder, Expired, L!Expired
<1>2. ASSUME NEW s \in Session, L!Prepare(s) PROVE HolderStep
  <2>1. CASE UNCHANGED row
    BY <2>1 DEF HolderStep, Holder, Expired, L!Expired
  <2>2. CASE /\ row.owner = Nobody \/ Expired
             /\ \E ttl \in Ttl : row' = [owner |-> TokenOf[s], left |-> ttl]
    <3>1. Holder = Nobody
      BY <2>2 DEF Holder
    <3>2. row'.owner = TokenOf[s] /\ row'.left # 0
      BY <2>2, TtlType
    <3>3. Holder' = TokenOf[s]
      BY <3>2 DEF Holder, Expired, L!Expired
    <3> QED BY <1>0, <3>1, <3>3 DEF HolderStep
  <2> QED BY <1>2, <2>1, <2>2 DEF L!Prepare, Expired, L!Expired
<1>3. ASSUME NEW s \in Session, L!BackupSucceeds(s) \/ L!Die(s) PROVE HolderStep
  BY <1>3 DEF L!BackupSucceeds, L!Die, HolderStep, Holder, Expired, L!Expired
<1>4. ASSUME NEW s \in Session, L!BackupFails(s) \/ L!Release(s) PROVE HolderStep
  BY <1>4 DEF L!BackupFails, L!Release, L!Drop, L!NoRow, HolderStep, Holder, Expired, L!Expired
<1>5. ASSUME NEW s \in Session, L!Renew(s) PROVE HolderStep
  <2>1. row'.owner = row.owner /\ row'.left # 0 /\ ~Expired
    BY <1>5, TtlType DEF L!Renew, L!TypeOK, Expired, L!Expired
  <2> QED BY <2>1 DEF HolderStep, Holder, Expired, L!Expired
<1>6. CASE UNCHANGED L!vars
  BY <1>6 DEF L!vars, HolderStep, Holder, Expired, L!Expired
<1> QED BY <1>1, <1>2, <1>3, <1>4, <1>5, <1>6 DEF L!Next

(***************************************************************************)
(* The row implements the exclusive lease, whether or not sessions share   *)
(* tokens.                                                                 *)
(***************************************************************************)
THEOREM RowImplementsLease == L!Spec => ImplementsExclusiveLease
<1>1. L!Init => Lease!Init
  BY DEF L!Init, L!NoRow, Lease!Init, Expired, L!Expired
<1>2. LeaseInv /\ [L!Next]_L!vars => [Lease!Next]_Holder
  BY StepOfHolder DEF HolderStep, Holder, Lease!Next, Lease!Free, Lease!Take
<1> QED BY <1>1, <1>2, LeaseKeepsInv, PTL DEF L!Spec, ImplementsExclusiveLease, Lease!Spec, Holder

-----------------------------------------------------------------------------
(***************************************************************************)
(* The identities.  The invariant follows a read through its statements:   *)
(* what it has found out before another process comes in between stays     *)
(* true, because the instance, once there, never changes, a verified       *)
(* mapping is never undone, and a tombstone is never removed.              *)
(***************************************************************************)

\* A read that has begun knows the instance of the database.
KnowsInstance ==
  \A r \in Reader : read[r].pc \in {"tombstone", "mapping", "lazy", "canonical"} =>
    instance # None /\ read[r].instance = instance

\* What was retired before the read is still retired, and a read past its first lookup is not late.
TombstonesStay == \A r \in Reader : read[r].late => read[r].legacy \in retired
NotLate        == \A r \in Reader : read[r].pc \in {"mapping", "lazy", "canonical"} => ~read[r].late

\* Mapped targets are instances, and no two identifiers share one.
MapsToInstances == \A l \in Legacy : I!Mapped(l) => mapping[l].target \in Instance
OneToOne ==
  \A l, k \in Legacy : I!Mapped(l) /\ I!Mapped(k) /\ mapping[l].target = mapping[k].target => l = k

\* A canonical answer has its mapping.
AnswersAreMapped == \A r \in Reader : read[r].pc = "canonical" => Exact(read[r].legacy, read[r].instance)

IdentityInv ==
  /\ I!TypeOK /\ KnowsInstance /\ TombstonesStay /\ NotLate
  /\ MapsToInstances /\ OneToOne /\ AnswersAreMapped /\ RecordsHaveMappings

\* What a step leaves true of the rows: mappings and tombstones stay, the instance is set once.
RowsGrow ==
  /\ instance # None => instance' = instance
  /\ retired \subseteq retired'
  /\ \A l \in Legacy : \A i \in I!Known : Exact(l, i) => Exact(l, i)'

\* What a step may do to the map: add one verified entry for what has none, or nothing.
Maps(l, i) ==
  /\ l \in Legacy /\ i \in Instance /\ ~I!Mapped(l) /\ ~I!Target(i)
  /\ \E status \in {"MAPPED", "VERIFIED"} :
       mapping' = [mapping EXCEPT ![l] = [target |-> i, status |-> status]]

-----------------------------------------------------------------------------
\* The tables are empty and no read has begun.
LEMMA InitIdentityInv == I!Init => IdentityInv
BY DEF I!Init, IdentityInv, I!TypeOK, I!Known, I!Reads, I!NoRow, I!Mapped, Exact, I!Exact,
  KnowsInstance, TombstonesStay,
       NotLate, MapsToInstances, OneToOne, AnswersAreMapped, RecordsHaveMappings

\* A step of a read changes the records of its reader only.
LEMMA GotoEffect ==
  ASSUME I!TypeOK, NEW r \in Reader,
         NEW pc \in {"tombstone", "mapping", "lazy", "canonical", "legacy"}, I!Goto(r, pc)
  PROVE  /\ read' \in [Reader -> I!Reads]
         /\ read'[r].pc = pc
         /\ read'[r].legacy = read[r].legacy
         /\ read'[r].instance = read[r].instance
         /\ read'[r].late = read[r].late
         /\ \A q \in Reader : q # r => read'[q] = read[q]
BY DEF I!Goto, I!TypeOK, I!Reads

\* A new mapping keeps the types, the others, and that the map is one to one.
LEMMA MapsEffect ==
  ASSUME IdentityInv, NEW l, NEW i, Maps(l, i)
  PROVE  /\ mapping' \in [Legacy -> [target : I!Known, status : {"NONE", "MAPPED", "VERIFIED"}]]
         /\ \A k \in Legacy : k # l => mapping'[k] = mapping[k]
         /\ mapping'[l].target = i
         /\ MapsToInstances' /\ OneToOne'
         /\ \A k \in Legacy : \A j \in I!Known : Exact(k, j) => Exact(k, j)'
<1> USE DEF IdentityInv
<1>1. l \in Legacy /\ i \in Instance /\ i \in I!Known /\ ~I!Mapped(l) /\ ~I!Target(i)
  BY DEF Maps, I!Known
<1>2. PICK status \in {"MAPPED", "VERIFIED"} :
        mapping' = [mapping EXCEPT ![l] = [target |-> i, status |-> status]]
  BY DEF Maps
<1>3. mapping' \in [Legacy -> [target : I!Known, status : {"NONE", "MAPPED", "VERIFIED"}]]
  BY <1>1, <1>2 DEF I!TypeOK
<1>4. /\ mapping'[l] = [target |-> i, status |-> status]
      /\ \A k \in Legacy : k # l => mapping'[k] = mapping[k]
  BY <1>1, <1>2 DEF I!TypeOK
<1>5. MapsToInstances'
  BY <1>1, <1>4 DEF MapsToInstances, I!Mapped
<1>6. OneToOne'
  BY <1>1, <1>4 DEF OneToOne, I!Mapped, I!Target
<1>7. \A k \in Legacy : \A j \in I!Known : Exact(k, j) => Exact(k, j)'
  BY <1>1, <1>4 DEF Exact, I!Exact, I!Mapped
<1> QED BY <1>3, <1>4, <1>5, <1>6, <1>7

\* What a read has found out survives a step that lets the rows grow and leaves the read alone.
LEMMA OtherReads ==
  ASSUME IdentityInv, RowsGrow, read' \in [Reader -> I!Reads], NEW q \in Reader, read'[q] = read[q]
  PROVE  /\ read'[q].pc \in {"tombstone", "mapping", "lazy", "canonical"} =>
              instance' # None /\ read'[q].instance = instance'
         /\ read'[q].late => read'[q].legacy \in retired'
         /\ read'[q].pc \in {"mapping", "lazy", "canonical"} => ~read'[q].late
         /\ read'[q].pc = "canonical" => Exact(read[q].legacy, read[q].instance)'
<1>1. read[q].legacy \in Legacy /\ read[q].instance \in I!Known
  BY DEF IdentityInv, I!TypeOK, I!Reads
<1>2. ASSUME read'[q].pc = "canonical" PROVE Exact(read[q].legacy, read[q].instance)'
  <2> DEFINE l == read[q].legacy
             i == read[q].instance
  <2>1. mapping[l] = [target |-> i, status |-> "VERIFIED"]
    BY <1>2 DEF IdentityInv, AnswersAreMapped, Exact, I!Exact
  <2>2. mapping'[l] = [target |-> i, status |-> "VERIFIED"]
    BY <1>1, <2>1 DEF RowsGrow, Exact, I!Exact
  <2> QED BY <2>2 DEF Exact, I!Exact
<1> QED BY <1>2 DEF IdentityInv, KnowsInstance, TombstonesStay, NotLate, RowsGrow

\* A step of a read that leaves the rows alone, its new state being justified.
LEMMA ReadStep ==
  ASSUME IdentityInv, NEW r \in Reader,
         NEW pc \in {"tombstone", "mapping", "lazy", "canonical", "legacy"}, I!Goto(r, pc),
         UNCHANGED <<instance, mapping, retired, record>>,
         pc # "legacy" => read[r].pc \in {"tombstone", "mapping", "lazy"},
         pc \in {"mapping", "lazy", "canonical"} => ~read[r].late,
         pc = "canonical" => Exact(read[r].legacy, read[r].instance)
  PROVE  IdentityInv'
<1>1. /\ read' \in [Reader -> I!Reads]
      /\ read'[r].pc = pc
      /\ read'[r].legacy = read[r].legacy
      /\ read'[r].instance = read[r].instance
      /\ read'[r].late = read[r].late
      /\ \A q \in Reader : q # r => read'[q] = read[q]
  BY GotoEffect DEF IdentityInv
<1>2. RowsGrow
  BY DEF RowsGrow, Exact, I!Exact
<1>3. I!TypeOK' /\ MapsToInstances' /\ OneToOne' /\ RecordsHaveMappings'
  BY <1>1 DEF IdentityInv, I!TypeOK, MapsToInstances, OneToOne, RecordsHaveMappings, I!Mapped, Exact, I!Exact
<1>4. KnowsInstance'
  BY <1>1, <1>2, OtherReads DEF KnowsInstance, IdentityInv
<1>5. TombstonesStay'
  BY <1>1 DEF IdentityInv, TombstonesStay
<1>6. NotLate'
  BY <1>1 DEF IdentityInv, NotLate
<1>7. AnswersAreMapped'
  BY <1>1 DEF IdentityInv, AnswersAreMapped, Exact, I!Exact
<1> QED BY <1>3, <1>4, <1>5, <1>6, <1>7 DEF IdentityInv

\* A step that leaves the reads alone and lets the rows grow.
LEMMA RowStep ==
  ASSUME IdentityInv, RowsGrow, UNCHANGED read,
         instance' \in I!Known, retired' \subseteq Legacy, record' = record,
         mapping' \in [Legacy -> [target : I!Known, status : {"NONE", "MAPPED", "VERIFIED"}]],
         MapsToInstances', OneToOne'
  PROVE  IdentityInv'
<1>1. I!TypeOK'
  BY DEF IdentityInv, I!TypeOK
<1>2. read' \in [Reader -> I!Reads]
  BY DEF IdentityInv, I!TypeOK
<1>3. RecordsHaveMappings'
  <2> SUFFICES ASSUME NEW l \in Legacy, record'[l] # None
               PROVE  mapping'[l] = [target |-> record'[l], status |-> "VERIFIED"]
    BY DEF RecordsHaveMappings, Exact, I!Exact
  <2>1. record[l] \in I!Known /\ mapping[l] = [target |-> record[l], status |-> "VERIFIED"]
    BY DEF IdentityInv, I!TypeOK, RecordsHaveMappings, Exact, I!Exact
  <2> QED BY <2>1 DEF RowsGrow, Exact, I!Exact
<1>4. KnowsInstance' /\ TombstonesStay' /\ NotLate'
  BY <1>2, OtherReads DEF KnowsInstance, TombstonesStay, NotLate
<1>5. AnswersAreMapped'
  BY <1>2, OtherReads DEF AnswersAreMapped, Exact, I!Exact
<1> QED BY <1>1, <1>3, <1>4, <1>5 DEF IdentityInv

-----------------------------------------------------------------------------
\* The steps of a read.
LEMMA ReadInv ==
  ASSUME IdentityInv, NEW r \in Reader, I!Read(r)
  PROVE  IdentityInv'
<1> USE DEF IdentityInv
<1>T. /\ read[r].legacy \in Legacy /\ read[r].instance \in I!Known
      /\ read[r].pc \in {"tombstone", "mapping", "lazy"} =>
           instance # None /\ read[r].instance = instance
      /\ read[r].pc \in {"mapping", "lazy"} => ~read[r].late
  BY DEF I!TypeOK, I!Reads, KnowsInstance, NotLate
<1>1. CASE I!Begin(r)
  <2>1. PICK l \in Legacy :
          read' = [read EXCEPT ![r] = [pc |-> IF instance = None THEN "legacy" ELSE "tombstone",
                                       legacy |-> l, instance |-> instance, late |-> l \in retired]]
    BY <1>1 DEF I!Begin
  <2>2. /\ read' \in [Reader -> I!Reads]
        /\ read'[r].pc = (IF instance = None THEN "legacy" ELSE "tombstone")
        /\ read'[r].instance = instance /\ read'[r].legacy = l /\ read'[r].late = (l \in retired)
        /\ \A q \in Reader : q # r => read'[q] = read[q]
    BY <2>1 DEF I!TypeOK, I!Reads
  <2>3. UNCHANGED <<instance, mapping, retired, record>> /\ RowsGrow
    BY <1>1 DEF I!Begin, RowsGrow, Exact, I!Exact
  <2>4. I!TypeOK' /\ MapsToInstances' /\ OneToOne' /\ RecordsHaveMappings'
    BY <2>2, <2>3 DEF I!TypeOK, MapsToInstances, OneToOne, RecordsHaveMappings, I!Mapped, Exact, I!Exact
  <2>5. KnowsInstance' /\ TombstonesStay' /\ NotLate'
    BY <2>2, <2>3 DEF KnowsInstance, TombstonesStay, NotLate
  <2>6. AnswersAreMapped'
    BY <2>2, <2>3 DEF AnswersAreMapped, Exact, I!Exact
  <2> QED BY <2>4, <2>5, <2>6
<1>2. CASE I!FindTombstone(r)
  <2>1. read[r].legacy \notin retired => ~read[r].late
    BY DEF TombstonesStay
  <2> QED BY <1>2, <2>1, ReadStep DEF I!FindTombstone
<1>3. CASE I!FindMapping(r)
  <2>1. PICK pc \in {"canonical", "legacy", "lazy"} :
          I!Goto(r, pc) /\ (pc = "canonical" => Exact(read[r].legacy, read[r].instance))
    BY <1>3 DEF I!FindMapping, Exact, I!Exact
  <2> QED BY <1>3, <1>T, <2>1, ReadStep DEF I!FindMapping
<1>4. CASE I!Create(r)
  <2> DEFINE l == read[r].legacy
             i == read[r].instance
  <2>1. /\ read[r].pc = "lazy" /\ I!MayMap(l, i) /\ I!Goto(r, "canonical")
        /\ mapping' = [mapping EXCEPT ![l] = [target |-> i, status |-> "VERIFIED"]]
        /\ record' = [record EXCEPT ![l] = i]
        /\ UNCHANGED <<instance, retired>>
    BY <1>4 DEF I!Create
  <2>2. Maps(l, i)
    BY <1>T, <2>1 DEF Maps, I!MayMap, I!Known
  <2>3. /\ mapping' \in [Legacy -> [target : I!Known, status : {"NONE", "MAPPED", "VERIFIED"}]]
        /\ MapsToInstances' /\ OneToOne'
        /\ \A k \in Legacy : \A j \in I!Known : Exact(k, j) => Exact(k, j)'
    BY <2>2, MapsEffect
  <2>4. RowsGrow
    BY <2>1, <2>3 DEF RowsGrow
  <2>5. mapping'[l] = [target |-> i, status |-> "VERIFIED"]
    BY <1>T, <2>1 DEF I!TypeOK
  <2>6. /\ read' \in [Reader -> I!Reads] /\ read'[r].pc = "canonical"
        /\ read'[r].legacy = l /\ read'[r].instance = i /\ read'[r].late = read[r].late
        /\ \A q \in Reader : q # r => read'[q] = read[q]
    BY <2>1, GotoEffect
  <2>7. I!TypeOK'
    BY <1>T, <2>1, <2>3, <2>6 DEF I!TypeOK
  <2>8. RecordsHaveMappings'
    <3> SUFFICES ASSUME NEW k \in Legacy, record'[k] # None
                 PROVE  mapping'[k] = [target |-> record'[k], status |-> "VERIFIED"]
      BY DEF RecordsHaveMappings, Exact, I!Exact
    <3>1. CASE k = l
      BY <1>T, <2>1, <2>5, <3>1 DEF I!TypeOK
    <3>2. CASE k # l
      <4>1. record'[k] = record[k] /\ record[k] \in I!Known
        BY <2>1, <3>2 DEF I!TypeOK
      <4> QED BY <2>3, <4>1 DEF RecordsHaveMappings, Exact, I!Exact
    <3> QED BY <3>1, <3>2
  <2>9. KnowsInstance' /\ TombstonesStay' /\ NotLate'
    BY <1>T, <2>1, <2>6 DEF KnowsInstance, TombstonesStay, NotLate
  <2>10. AnswersAreMapped'
    <3> SUFFICES ASSUME NEW q \in Reader, read'[q].pc = "canonical"
                 PROVE  mapping'[read'[q].legacy] = [target |-> read'[q].instance, status |-> "VERIFIED"]
      BY DEF AnswersAreMapped, Exact, I!Exact
    <3>1. CASE q = r
      BY <2>5, <2>6, <3>1
    <3>2. CASE q # r
      BY <2>4, <2>6, <3>2, OtherReads DEF Exact, I!Exact
    <3> QED BY <3>1, <3>2
  <2> QED BY <2>3, <2>7, <2>8, <2>9, <2>10
<1>5. CASE I!Reuse(r)
  <2>1. PICK pc \in {"canonical", "legacy"} :
          I!Goto(r, pc) /\ (pc = "canonical" => Exact(read[r].legacy, read[r].instance))
    BY <1>5 DEF I!Reuse, Exact, I!Exact
  <2> QED BY <1>5, <1>T, <2>1, ReadStep DEF I!Reuse
<1>6. CASE I!Fail(r)
  BY <1>6, ReadStep DEF I!Fail
<1> QED BY <1>1, <1>2, <1>3, <1>4, <1>5, <1>6 DEF I!Read

\* The steps of other processes, and the induction step.
LEMMA IdentityStep ==
  ASSUME IdentityInv, [I!Next]_I!vars
  PROVE  IdentityInv'
<1>1. CASE I!Bootstrap
  <2>1. RowsGrow
    BY <1>1 DEF I!Bootstrap, RowsGrow, Exact, I!Exact
  <2> QED BY <1>1, <2>1, RowStep
          DEF I!Bootstrap, IdentityInv, I!TypeOK, I!Known, MapsToInstances, OneToOne, I!Mapped
<1>2. ASSUME NEW l \in Legacy, NEW i \in Instance, I!Map(l, i) PROVE IdentityInv'
  <2>1. Maps(l, i)
    BY <1>2 DEF I!Map, Maps
  <2>2. /\ mapping' \in [Legacy -> [target : I!Known, status : {"NONE", "MAPPED", "VERIFIED"}]]
        /\ MapsToInstances' /\ OneToOne'
        /\ \A k \in Legacy : \A j \in I!Known : Exact(k, j) => Exact(k, j)'
    BY <2>1, MapsEffect
  <2>3. RowsGrow
    BY <1>2, <2>2 DEF I!Map, RowsGrow
  <2> QED BY <1>2, <2>2, <2>3, RowStep DEF I!Map, IdentityInv, I!TypeOK
<1>3. ASSUME NEW l \in Legacy, I!Verify(l) PROVE IdentityInv'
  <2>1. /\ mapping' \in [Legacy -> [target : I!Known, status : {"NONE", "MAPPED", "VERIFIED"}]]
        /\ \A k \in Legacy : mapping'[k].target = mapping[k].target /\ (I!Mapped(k)' <=> I!Mapped(k))
        /\ \A k \in Legacy : mapping[k].status = "VERIFIED" => mapping'[k] = mapping[k]
    BY <1>3 DEF I!Verify, IdentityInv, I!TypeOK, I!Mapped
  <2>2. RowsGrow
    BY <1>3, <2>1 DEF I!Verify, RowsGrow, Exact, I!Exact
  <2>3. MapsToInstances' /\ OneToOne'
    BY <2>1 DEF IdentityInv, MapsToInstances, OneToOne
  <2> QED BY <1>3, <2>1, <2>2, <2>3, RowStep DEF I!Verify, IdentityInv, I!TypeOK
<1>4. ASSUME NEW l \in Legacy, I!Retire(l) PROVE IdentityInv'
  <2>1. RowsGrow
    BY <1>4 DEF I!Retire, RowsGrow, Exact, I!Exact
  <2> QED BY <1>4, <2>1, RowStep
          DEF I!Retire, IdentityInv, I!TypeOK, MapsToInstances, OneToOne, I!Mapped
<1>5. CASE UNCHANGED I!vars
  BY <1>5 DEF I!vars, IdentityInv, I!TypeOK, KnowsInstance, TombstonesStay, NotLate, MapsToInstances,
       OneToOne, AnswersAreMapped, RecordsHaveMappings, I!Mapped, Exact, I!Exact
<1> QED BY <1>1, <1>2, <1>3, <1>4, <1>5, ReadInv DEF I!Next

\* The identity tables keep their invariant through every write and read.
LEMMA IdentityKeepsInv == I!Spec => []IdentityInv
<1>1. IdentityInv /\ [I!Next]_I!vars => IdentityInv'
  BY IdentityStep
<1> QED BY <1>1, InitIdentityInv, PTL DEF I!Spec

-----------------------------------------------------------------------------
\* Every variable keeps its type.
THEOREM IdentityKeepsTypes == I!Spec => []I!TypeOK
BY IdentityKeepsInv, PTL DEF IdentityInv

\* No interleaving with other processes makes a canonical answer untrue.
THEOREM AnswersAreTrue == I!Spec => []CanonicalIsTrue
<1>1. IdentityInv => CanonicalIsTrue
  BY DEF IdentityInv, CanonicalIsTrue, KnowsInstance, NotLate, AnswersAreMapped
<1> QED BY <1>1, IdentityKeepsInv, PTL

\* No record of a request is left without its mapping.
THEOREM RecordsAreBacked == I!Spec => []RecordsHaveMappings
BY IdentityKeepsInv, PTL DEF IdentityInv

-----------------------------------------------------------------------------
\* The map as IdentityMap sees it.
Verified == {k \in Legacy : mapping[k].status = "VERIFIED"}
Pairs    == {<<l, mapping[l].target>> : l \in Verified}

\* A step adds an entry of a new identifier and a new instance, or leaves the map alone.
PairsStep ==
  \/ Pairs' = Pairs
  \/ \E l \in Legacy, i \in Instance :
       /\ \A e \in Pairs : e[1] # l /\ e[2] # i
       /\ Pairs' = Pairs \cup {<<l, i>>}

\* Verifying the mapping of l adds its entry.
LEMMA VerifyAdds ==
  ASSUME IdentityInv, NEW l \in Legacy, NEW i \in Instance, ~(mapping[l].status = "VERIFIED"),
         mapping'[l] = [target |-> i, status |-> "VERIFIED"],
         \A k \in Legacy : k # l => mapping'[k] = mapping[k],
         \A k \in Legacy : k # l /\ I!Mapped(k) => mapping[k].target # i
  PROVE  PairsStep
<1>1. Verified' = Verified \cup {l} /\ l \notin Verified
  BY DEF Verified
<1>2. \A k \in Verified : k # l /\ mapping'[k] = mapping[k] /\ mapping[k].target # i
  BY <1>1 DEF Verified, I!Mapped
<1>3. \A e \in Pairs : e[1] # l /\ e[2] # i
  BY <1>2 DEF Pairs
<1>4. Pairs' = Pairs \cup {<<l, i>>}
  BY <1>1, <1>2 DEF Pairs
<1> QED BY <1>3, <1>4 DEF PairsStep

\* What leaves the verified mappings alone leaves the map alone.
LEMMA SamePairs ==
  ASSUME Verified' = Verified, \A k \in Verified : mapping'[k] = mapping[k]
  PROVE  PairsStep
BY DEF PairsStep, Pairs

\* Every step leaves the verified pairs alone or adds one of a new identifier and a new target.
LEMMA StepOfPairs ==
  ASSUME IdentityInv, [I!Next]_I!vars
  PROVE  PairsStep
<1> USE DEF IdentityInv
<1>1. CASE UNCHANGED mapping
  BY <1>1, SamePairs DEF Verified
<1>2. ASSUME NEW r \in Reader, I!Create(r) PROVE PairsStep
  <2> DEFINE l == read[r].legacy
             i == read[r].instance
  <2>1. /\ l \in Legacy /\ i \in Instance /\ ~I!Mapped(l) /\ ~I!Target(i)
        /\ mapping' = [mapping EXCEPT ![l] = [target |-> i, status |-> "VERIFIED"]]
    BY <1>2 DEF I!Create, I!MayMap, I!TypeOK, I!Reads, I!Known, KnowsInstance
  <2>2. /\ mapping'[l] = [target |-> i, status |-> "VERIFIED"]
        /\ \A k \in Legacy : k # l => mapping'[k] = mapping[k]
    BY <2>1 DEF I!TypeOK
  <2>3. mapping[l].status # "VERIFIED" /\ \A k \in Legacy : I!Mapped(k) => mapping[k].target # i
    BY <2>1 DEF I!Mapped, I!Target
  <2> HIDE DEF l, i
  <2> QED BY <2>1, <2>2, <2>3, VerifyAdds
<1>3. ASSUME NEW l \in Legacy, NEW i \in Instance, I!Map(l, i) PROVE PairsStep
  <2>1. mapping' = [mapping EXCEPT ![l] = [target |-> i, status |-> "MAPPED"]] /\ ~I!Mapped(l)
    BY <1>3 DEF I!Map
  <2>2. mapping'[l].status = "MAPPED" /\ \A k \in Legacy : k # l => mapping'[k] = mapping[k]
    BY <2>1 DEF I!TypeOK
  <2>3. Verified' = Verified /\ \A k \in Verified : mapping'[k] = mapping[k]
    BY <2>1, <2>2 DEF Verified, I!Mapped
  <2> QED BY <2>3, SamePairs
<1>4. ASSUME NEW l \in Legacy, I!Verify(l) PROVE PairsStep
  <2> DEFINE i == mapping[l].target
  <2>1. I!Mapped(l) /\ i \in Instance /\ mapping[l].status # "VERIFIED"
    BY <1>4 DEF I!Verify, I!Mapped, MapsToInstances
  <2>2. /\ mapping'[l] = [target |-> i, status |-> "VERIFIED"]
        /\ \A k \in Legacy : k # l => mapping'[k] = mapping[k]
    BY <1>4 DEF I!Verify, I!TypeOK
  <2>3. \A k \in Legacy : k # l /\ I!Mapped(k) => mapping[k].target # i
    BY <2>1 DEF OneToOne
  <2> HIDE DEF i
  <2> QED BY <2>1, <2>2, <2>3, VerifyAdds
<1> QED BY <1>1, <1>2, <1>3, <1>4
        DEF I!Next, I!Read, I!Begin, I!FindTombstone, I!FindMapping, I!Reuse, I!Fail, I!Bootstrap, I!Retire, I!vars

(***************************************************************************)
(* The rows implement the one-to-one map in which a verified entry stays.  *)
(***************************************************************************)
THEOREM RowsImplementMap == I!Spec => ImplementsIdentityMap
<1>1. I!Init => Identities!Init
  BY DEF I!Init, I!NoRow, Identities!Init
<1>2. IdentityInv /\ [I!Next]_I!vars => [Identities!Next]_Pairs
  BY StepOfPairs DEF PairsStep, Identities!Next, Identities!Add, Pairs, Verified
<1> QED BY <1>1, <1>2, IdentityKeepsInv, PTL
        DEF I!Spec, ImplementsIdentityMap, Identities!Spec, Pairs, Verified

-----------------------------------------------------------------------------
(***************************************************************************)
(* The parts side by side: a behaviour of MCPersistence is one of the      *)
(* lease, one of the runner and one of the identities, so what is proved   *)
(* of each holds of it.                                                    *)
(***************************************************************************)
Runner == INSTANCE MigrationRunnerProofs

\* The runner of MCPersistence is the one its proofs are about.
LEMMA SameRunnerInit == R!Init <=> Runner!Init
  BY DEF R!Init, Runner!Init, R!NoRow, Runner!NoRow, R!Migration, Runner!Migration

\* Its types are the same too.
LEMMA SameRunnerTypes == R!TypeOK <=> Runner!TypeOK
  BY DEF R!TypeOK, Runner!TypeOK, R!Migration, Runner!Migration, R!Status, Runner!Status,
    R!Step, Runner!Step, R!End, Runner!End

\* So are the helpers its actions are made of.
LEMMA SameRunnerMoves == ASSUME NEW p \in Proc
  PROVE  /\ \A pc : R!Goto(p, pc) <=> Runner!Goto(p, pc)
         /\ R!NextMigration(p) <=> Runner!NextMigration(p)
         /\ \A m, status : R!SetStatus(m, status) <=> Runner!SetStatus(m, status)
         /\ R!At(p) = Runner!At(p)
         /\ R!More(p) <=> Runner!More(p)
         /\ R!Active(p) <=> Runner!Active(p)
         /\ R!Alone <=> Runner!Alone
         /\ R!Known(p) = Runner!Known(p)
         /\ R!Applied = Runner!Applied
  BY DEF R!Goto, Runner!Goto, R!NextMigration, Runner!NextMigration, R!SetStatus, Runner!SetStatus,
    R!At, Runner!At, R!More, Runner!More, R!Active, Runner!Active, R!Alone, Runner!Alone,
    R!Known, Runner!Known, R!Applied, Runner!Applied, R!Migration, Runner!Migration,
    R!Step, Runner!Step

\* So are its steps.
LEMMA SameRunnerNext == R!Next => Runner!Next
<1> SUFFICES ASSUME NEW p \in Proc
             PROVE  /\ R!Start(p) => Runner!Start(p)
                    /\ R!Run(p) => Runner!Run(p)
  BY DEF R!Next, Runner!Next
<1>1. R!Start(p) => Runner!Start(p)
  BY SameRunnerMoves DEF R!Start, Runner!Start
<1>2. R!Read(p) => Runner!Read(p)
  BY SameRunnerMoves DEF R!Read, Runner!Read
<1>3. R!Return(p) => Runner!Return(p)
  BY SameRunnerMoves DEF R!Return, Runner!Return
<1>4. R!Insert(p) => Runner!Insert(p)
  BY SameRunnerMoves DEF R!Insert, Runner!Insert
<1>5. R!Mark(p) => Runner!Mark(p)
  BY SameRunnerMoves DEF R!Mark, Runner!Mark
<1>6. /\ R!Body(p) => Runner!Body(p)
      /\ R!BodyFails(p) => Runner!BodyFails(p)
  BY SameRunnerMoves DEF R!Body, Runner!Body, R!BodyFails, Runner!BodyFails
<1>7. /\ R!Finish(p) => Runner!Finish(p)
      /\ R!FinishFails(p) => Runner!FinishFails(p)
  BY SameRunnerMoves DEF R!Finish, Runner!Finish, R!FinishFails, Runner!FinishFails
<1>8. /\ R!Fail(p) => Runner!Fail(p)
      /\ R!Stop(p) => Runner!Stop(p)
  BY SameRunnerMoves DEF R!Fail, Runner!Fail, R!Stop, Runner!Stop
<1> QED
  BY <1>1, <1>2, <1>3, <1>4, <1>5, <1>6, <1>7, <1>8 DEF R!Run, Runner!Run

-----------------------------------------------------------------------------
\* A step of MCPersistence is a step or a stutter of each part.
LEMMA StepOfParts == [Next]_vars =>
  /\ [L!Next]_L!vars
  /\ [Runner!Next]_Runner!vars
  /\ [I!Next]_I!vars
<1> SUFFICES ASSUME [Next]_vars
             PROVE  [L!Next]_leaseVars /\ [R!Next]_runnerVars /\ [I!Next]_identityVars
  BY SameRunnerNext DEF L!vars, Runner!vars, I!vars, leaseVars, runnerVars, identityVars
<1>1. CASE InLease /\ L!Next /\ UNCHANGED <<runnerVars, identityVars>>
  BY <1>1
<1>2. CASE InRunner /\ R!Next /\ UNCHANGED <<leaseVars, identityVars>>
  BY <1>2
<1>3. CASE InIdentity /\ I!Next /\ UNCHANGED <<leaseVars, runnerVars>>
  BY <1>3
<1>4. CASE UNCHANGED vars
  BY <1>4 DEF vars
<1> QED
  BY <1>1, <1>2, <1>3, <1>4 DEF Next

\* A behaviour of MCPersistence is one of each part.
THEOREM EveryPartIsItself == Spec => L!Spec /\ Runner!Spec /\ I!Spec
<1>1. Init => L!Init /\ Runner!Init /\ I!Init
  BY SameRunnerInit DEF Init
<1> QED
  BY <1>1, StepOfParts, PTL DEF Spec, L!Spec, Runner!Spec, I!Spec

\* Every variable of the three parts keeps its type.
THEOREM TypesAreKept == Spec => []TypeOK
<1>1. L!TypeOK /\ Runner!TypeOK /\ I!TypeOK => TypeOK
  BY SameRunnerTypes DEF TypeOK
<1>2. Runner!Spec => []Runner!TypeOK
  <2>1. Runner!RunnerAssumption
    BY RunnerAssumption DEF Migration, Runner!Migration, Runner!RunnerAssumption
  <2> QED
    BY Runner!TypeCorrect, <2>1
<1> QED
  BY <1>1, <1>2, LeaseKeepsTypes, IdentityKeepsTypes, EveryPartIsItself, PTL

\* The lease is honoured, ended by owners only and exclusive beside the other parts.
THEOREM LeaseCarriesOver ==
  Spec => []UnexpiredLeaseIsHonoured /\ OnlyOwnerEndsLease /\ ImplementsExclusiveLease
BY LeasesAreHonoured, LeasesAreEndedByOwners, RowImplementsLease, EveryPartIsItself, PTL

\* One definition of a migration runs, the ledger is truthful, and under the lease calls succeed.
THEOREM LedgerCarriesOver ==
  Spec => [](OneBodyPerMigration /\ AppliedHasBody /\ DoneMeansApplied /\ LeftoversAreRetried)
<1>1. Runner!RunnerAssumption
  BY RunnerAssumption DEF Migration, Runner!Migration, Runner!RunnerAssumption
<1>2. Runner!Spec => []Runner!OneBodyPerMigration
  BY Runner!OneDefinition, <1>1
<1>3. Runner!Spec => []Runner!AppliedHasBody
  BY Runner!LedgerIsTruthful, <1>1
<1>4. Runner!Spec => []Runner!DoneMeansApplied
  BY Runner!ReturnedCallsAreApplied, <1>1
<1>5. Runner!Spec => []Runner!LeftoversAreRetried
  BY Runner!LeftoversDoNotBlock, <1>1
<1>6. /\ Runner!OneBodyPerMigration => OneBodyPerMigration
      /\ Runner!AppliedHasBody => AppliedHasBody
      /\ Runner!DoneMeansApplied => DoneMeansApplied
      /\ Runner!LeftoversAreRetried => LeftoversAreRetried
  BY DEF OneBodyPerMigration, Runner!OneBodyPerMigration, AppliedHasBody, Runner!AppliedHasBody,
    DoneMeansApplied, Runner!DoneMeansApplied, LeftoversAreRetried, Runner!LeftoversAreRetried,
    Migration, Runner!Migration, Known, Runner!Known, Applied, Runner!Applied,
    Schema, Runner!Schema
<1> QED
  BY <1>2, <1>3, <1>4, <1>5, <1>6, EveryPartIsItself, PTL

\* Canonical answers are true, records have mappings, and the rows are the one-to-one map.
THEOREM IdentityCarriesOver ==
  Spec => [](CanonicalIsTrue /\ RecordsHaveMappings) /\ ImplementsIdentityMap
BY AnswersAreTrue, RecordsAreBacked, RowsImplementMap, EveryPartIsItself, PTL

\* Under the lease the ledger of the run is the append-only ordered log.
THEOREM LogCarriesOver == Spec => ImplementsSchemaLog
<1>1. Runner!RunnerAssumption
  BY RunnerAssumption DEF Migration, Runner!Migration, Runner!RunnerAssumption
<1>2. Runner!Spec => Runner!ImplementsSchemaLog
  BY Runner!LedgerImplementsLog, <1>1
<1>3. Runner!ImplementsSchemaLog => ImplementsSchemaLog
  <2>1. Runner!Applied = Applied
    BY DEF Applied, Runner!Applied, Migration, Runner!Migration
  <2>2. Runner!Log!Init => Log!Init
    BY <2>1 DEF Runner!Log!Init, Log!Init
  <2>3. [leased => Runner!Log!Next]_(Runner!Applied) => [leased => Log!Next]_Applied
    BY <2>1 DEF Runner!Log!Next, Log!Next, Runner!Log!Apply, Log!Apply, Applied, Runner!Applied,
      Migration, Runner!Migration
  <2> QED
    BY <2>2, <2>3, PTL DEF Runner!ImplementsSchemaLog, ImplementsSchemaLog
<1> QED
  BY <1>2, <1>3, EveryPartIsItself, PTL
=============================================================================
