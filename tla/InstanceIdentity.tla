-------------------------- MODULE InstanceIdentity --------------------------
(***************************************************************************)
(* CanonicalFirstTunarrInstanceIdentityReader: a read answers with the     *)
(* canonical instance identifier when a verified mapping of the legacy     *)
(* one to it exists or can be made, and with the legacy one otherwise.     *)
(*                                                                         *)
(* A read is synchronous but its statements are separate transactions,     *)
(* between which other processes on the database may read, map, verify or  *)
(* retire; the lazy mapping is one immediate transaction.                  *)
(***************************************************************************)
EXTENDS InstanceIdentityState

vars == <<instance, mapping, retired, record, read>>

Known == Instance \cup {None}

\* late: the identifier was retired before the read began.
Reads == [pc : {"idle", "tombstone", "mapping", "lazy", "canonical", "legacy"},
          legacy : Legacy, instance : Known, late : BOOLEAN]

NoRow == [target |-> None, status |-> "NONE"]

Mapped(l) == mapping[l].status # "NONE"
Target(i) == \E l \in Legacy : Mapped(l) /\ mapping[l].target = i

Init ==
  /\ instance = None
  /\ mapping = [l \in Legacy |-> NoRow]
  /\ retired = {}
  /\ record = [l \in Legacy |-> None]
  /\ \E l \in Legacy :
       read = [r \in Reader |-> [pc |-> "idle", legacy |-> l, instance |-> None, late |-> FALSE]]

Goto(r, pc) == read' = [read EXCEPT ![r].pc = pc]

\* bootstrapInstance: the first one to insert its generated identifier wins.
Bootstrap ==
  /\ instance = None
  /\ \E i \in Instance : instance' = i
  /\ UNCHANGED <<mapping, retired, record, read>>

\* The read finds the instance and the legacy identifier of the settings.
Begin(r) ==
  /\ read[r].pc = "idle"
  /\ \E l \in Legacy :
       read' = [read EXCEPT ![r] = [pc |-> IF instance = None THEN "legacy" ELSE "tombstone",
                                    legacy |-> l, instance |-> instance, late |-> l \in retired]]
  /\ UNCHANGED <<instance, mapping, retired, record>>

\* The resolver looks for a tombstone...
FindTombstone(r) ==
  /\ read[r].pc = "tombstone"
  /\ Goto(r, IF read[r].legacy \in retired THEN "legacy" ELSE "mapping")
  /\ UNCHANGED <<instance, mapping, retired, record>>

\* Mutant: any mapping to the instance will do.
FindAnyMapping(r) ==
  /\ read[r].pc = "mapping"
  /\ Goto(r, IF mapping[read[r].legacy].target = read[r].instance THEN "canonical" ELSE "lazy")
  /\ UNCHANGED <<instance, mapping, retired, record>>

\* ... and for a mapping: only a verified one to the instance is believed.
FindMapping(r) ==
  /\ read[r].pc = "mapping"
  /\ LET l == read[r].legacy IN
       \/ Exact(l, read[r].instance) /\ Goto(r, "canonical")
       \/ Mapped(l) /\ ~Exact(l, read[r].instance) /\ Goto(r, "legacy")
       \/ ~Mapped(l) /\ Goto(r, "lazy")
       \/ ~Mapped(l) /\ Goto(r, "legacy")   \* the lazy mapping policy is off
  /\ UNCHANGED <<instance, mapping, retired, record>>

\* Mutant: whether the instance is mapped already is not looked at.
MapTwice(r) ==
  LET l == read[r].legacy
      i == read[r].instance
  IN /\ read[r].pc = "lazy" /\ l \notin retired /\ ~Mapped(l)
     /\ mapping' = [mapping EXCEPT ![l] = [target |-> i, status |-> "VERIFIED"]]
     /\ record' = [record EXCEPT ![l] = i]
     /\ Goto(r, "canonical")
     /\ UNCHANGED <<instance, retired>>

\* What the transaction of the lazy mapping checks again before it maps.
MayMap(l, i) ==
  /\ instance = i /\ l \notin retired
  /\ ~Mapped(l) /\ ~Target(i) /\ record[l] = None

\* ensureVerifiedMapping, CREATED: mapping, verification, audit and record commit together.
Create(r) ==
  LET l == read[r].legacy
      i == read[r].instance
  IN /\ read[r].pc = "lazy" /\ MayMap(l, i)
     /\ mapping' = [mapping EXCEPT ![l] = [target |-> i, status |-> "VERIFIED"]]
     /\ record' = [record EXCEPT ![l] = i]
     /\ Goto(r, "canonical")
     /\ UNCHANGED <<instance, retired>>

\* It finds that another process was first (REUSED), or a conflict.
Reuse(r) ==
  LET l == read[r].legacy
      i == read[r].instance
  IN /\ read[r].pc = "lazy" /\ ~MayMap(l, i)
     /\ Goto(r, IF instance = i /\ l \notin retired /\ Exact(l, i) THEN "canonical" ELSE "legacy")
     /\ UNCHANGED <<instance, mapping, retired, record>>

\* Mutant: a failure does not roll the record back.
FailHalfway(r) ==
  /\ read[r].pc = "lazy"
  /\ record' = [record EXCEPT ![read[r].legacy] = read[r].instance]
  /\ Goto(r, "legacy")
  /\ UNCHANGED <<instance, mapping, retired>>

\* A statement throws: the transaction, if it is in one, is rolled back, and the read falls back.
Fail(r) ==
  /\ read[r].pc \in {"tombstone", "mapping", "lazy"}
  /\ Goto(r, "legacy")
  /\ UNCHANGED <<instance, mapping, retired, record>>

(***************************************************************************)
(* ensureOneToOneMapping by a migration: it maps what is not mapped.  It   *)
(* finds and inserts in separate statements; when another process is       *)
(* between them the unique indexes refuse the row.                         *)
(***************************************************************************)
Map(l, i) ==
  /\ ~Mapped(l) /\ ~Target(i)
  /\ mapping' = [mapping EXCEPT ![l] = [target |-> i, status |-> "MAPPED"]]
  /\ UNCHANGED <<instance, retired, record, read>>

\* verifyMapping
Verify(l) ==
  /\ mapping[l].status = "MAPPED"
  /\ mapping' = [mapping EXCEPT ![l].status = "VERIFIED"]
  /\ UNCHANGED <<instance, retired, record, read>>

\* A tombstone is inserted; the mapping, if there is one, stays.
Retire(l) ==
  /\ l \notin retired
  /\ retired' = retired \cup {l}
  /\ UNCHANGED <<instance, mapping, record, read>>

Read(r) ==
  \/ Begin(r) \/ FindTombstone(r) \/ FindMapping(r)
  \/ Create(r) \/ Reuse(r) \/ Fail(r)

Next ==
  \/ Bootstrap
  \/ \E r \in Reader : Read(r)
  \/ \E l \in Legacy : Verify(l) \/ Retire(l) \/ \E i \in Instance : Map(l, i)

Spec == Init /\ [][Next]_vars

-----------------------------------------------------------------------------
\* Every variable keeps its type.
TypeOK ==
  /\ instance \in Known
  /\ mapping \in [Legacy -> [target : Known, status : {"NONE", "MAPPED", "VERIFIED"}]]
  /\ retired \in SUBSET Legacy
  /\ record \in [Legacy -> Known]
  /\ read \in [Reader -> Reads]
=============================================================================
