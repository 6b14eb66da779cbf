---------------------------- MODULE IdentityMap ----------------------------
(***************************************************************************)
(* What the identity records promise: a one-to-one map of legacy           *)
(* identifiers to instances in which an entry, once verified, stays.       *)
(***************************************************************************)
CONSTANTS Legacy, Instance

VARIABLE map   \* pairs of a legacy identifier and an instance

Init == map = {}

Add(l, i) ==
  /\ \A e \in map : e[1] # l /\ e[2] # i
  /\ map' = map \cup {<<l, i>>}

Next == \E l \in Legacy, i \in Instance : Add(l, i)

Spec == Init /\ [][Next]_map
=============================================================================
