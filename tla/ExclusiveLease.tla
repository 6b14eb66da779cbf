--------------------------- MODULE ExclusiveLease ---------------------------
(***************************************************************************)
(* What a lease promises: it has at most one holder, and it never passes   *)
(* from one holder to another without being free in between.               *)
(***************************************************************************)
CONSTANTS Token, Nobody

VARIABLE holder

Init == holder = Nobody

Take(t) == holder = Nobody /\ holder' = t

Free == holder # Nobody /\ holder' = Nobody

Next == Free \/ \E t \in Token : Take(t)

Spec == Init /\ [][Next]_holder
=============================================================================
