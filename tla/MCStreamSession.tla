-------------------------- MODULE MCStreamSession ---------------------------
(***************************************************************************)
(* TLC instances of StreamSession: requests are interchangeable in safety  *)
(* runs, and the liveness run lets two of its callers call.                *)
(***************************************************************************)
EXTENDS StreamSession, FiniteSets, TLC

Symmetry == Permutations(Request)

Callers == {c \in Request \cup Ender : pc[c] # "idle"}

\* Bound: two calls in a behaviour of the liveness run, of any kind.
TwoCallers == Cardinality(Callers') <= 2

LiveSpec == Init /\ [][Next /\ TwoCallers]_vars /\ Fairness
=============================================================================
