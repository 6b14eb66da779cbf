----------------------------- MODULE SchemaLog -----------------------------
(***************************************************************************)
(* What the migration ledger promises: migrations become applied one by    *)
(* one, in the order of their ids, and never cease to be.                  *)
(***************************************************************************)
EXTENDS Naturals

CONSTANT Migration

VARIABLE applied

Init == applied = {}

Apply(m) ==
  /\ m \notin applied
  /\ \A k \in Migration : k < m => k \in applied
  /\ applied' = applied \cup {m}

Next == \E m \in Migration : Apply(m)

Spec == Init /\ [][Next]_applied
=============================================================================
