------------------------- MODULE MCRequestOperation -------------------------
(* RequestOperation on small sets; callers and keys are interchangeable.   *)
EXTENDS RequestOperation, TLC

Symmetry == Permutations(Callers) \cup Permutations(Keys)
=============================================================================
