--------------------------- MODULE MCTicketIntake ---------------------------
(* TicketIntake with two departments that are interchangeable.             *)
EXTENDS TicketIntake, TLC

Symmetry == Permutations(Departments)
=============================================================================
