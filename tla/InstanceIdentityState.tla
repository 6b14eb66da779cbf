----------------------- MODULE InstanceIdentityState ------------------------
(***************************************************************************)
(* The identity records of the database, the reads of the instance         *)
(* identifier, and what holds of them.                                     *)
(***************************************************************************)
CONSTANTS
  Reader,     \* reads
  Legacy,     \* identifiers of the older settings
  Instance,   \* identifiers a bootstrap may generate
  None        \* no row

VARIABLES
  instance,   \* cf_instance
  mapping,    \* cf_legacy_identity_mapping, per legacy identifier
  retired,    \* cf_legacy_identity_tombstone
  record,     \* cf_idempotency_record, per legacy identifier the target of its request
  read        \* per reader where it is, what it has read and what it answered

Exact(l, i) == mapping[l] = [target |-> i, status |-> "VERIFIED"]

-----------------------------------------------------------------------------
(***************************************************************************)
(* A canonical answer is the truth, whatever other processes did during    *)
(* the read: it is the instance of the database, the legacy identifier of  *)
(* the read has a verified mapping to it, and was not retired when the     *)
(* read began.                                                             *)
(***************************************************************************)
CanonicalIsTrue ==
  \A r \in Reader : read[r].pc = "canonical" =>
    /\ instance # None /\ read[r].instance = instance
    /\ Exact(read[r].legacy, instance)
    /\ ~read[r].late

(***************************************************************************)
(* An idempotency record stands for a mapping that was made: what failed   *)
(* left no record that would refuse the retry for ever.                    *)
(***************************************************************************)
RecordsHaveMappings == \A l \in Legacy : record[l] # None => Exact(l, record[l])

\* The verified mappings implement the map.
Identities == INSTANCE IdentityMap WITH
  map <- {<<l, mapping[l].target>> : l \in {k \in Legacy : mapping[k].status = "VERIFIED"}}

ImplementsIdentityMap == Identities!Spec
=============================================================================
