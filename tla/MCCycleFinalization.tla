------------------------ MODULE MCCycleFinalization ------------------------
(* CycleFinalization on small sets of cycles, messages and workers.  The   *)
(* cycles differ in their histories, so only workers are interchangeable.  *)
EXTENDS CycleFinalization, TLC

CONSTANTS c1, c2, m1, m2

(* One ticket with a stable history, and one whose second retrieval may    *)
(* miss a message that was deleted in between.                             *)
OneCycleHistories == [c \in {c1} |-> {{m1, m2}, {m2}}]

(* Two cycles of one ticket that meet within the tolerated clock skew.     *)
TwoCycleHistories == [c \in {c1, c2} |-> IF c = c1 THEN {{m1}, {}} ELSE {{m1}}]

(* One ticket whose history never changes.                                 *)
StableHistory == [c \in {c1} |-> {{m1}}]

Symmetry == Permutations(Workers)
=============================================================================
