-------------------------- MODULE MCReconciliation --------------------------
(***************************************************************************)
(* The TLC instance of Reconciliation: few jobs are stranded.              *)
(***************************************************************************)
EXTENDS Reconciliation

\* Bound: a catch block throws for one job only, and before the first crash.
FewStranded == stranded' \subseteq stranded \/ (stranded = {} /\ crashes = 0)

FewSpec == Init /\ [][Next /\ FewStranded]_vars /\ Fairness
=============================================================================
