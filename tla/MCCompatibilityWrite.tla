------------------------ MODULE MCCompatibilityWrite ------------------------
(***************************************************************************)
(* TLC instances of CompatibilityWrite: executions are interchangeable,    *)
(* and a behaviour either lets them overlap or runs them one at a time,    *)
(* with more faults and crashes.                                           *)
(***************************************************************************)
EXTENDS CompatibilityWrite, TLC

VARIABLE serial   \* chosen once: executions one at a time

Symmetry == Permutations(Writer)

Bounded == /\ serial => \A v, w \in InFlight' : v = w
           /\ ~serial => faults' <= 1 /\ crashes' = 0

MixedSpec == /\ serial \in BOOLEAN /\ Init
             /\ [][Next /\ Bounded /\ UNCHANGED serial]_<<vars, serial>>

(***************************************************************************)
(* Executions one at a time: a CURRENT record is the truth about both      *)
(* stores, through crashes at any await and failing storage calls.         *)
(***************************************************************************)
SerialCurrentIsExact == serial => CurrentIsExact
=============================================================================
