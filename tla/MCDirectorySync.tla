-------------------------- MODULE MCDirectorySync --------------------------
(* An instance of DirectorySync for TLC.  Companies differ in their place  *)
(* in the list only, executions in nothing.                                *)
EXTENDS DirectorySync

Symmetry == Permutations(Executions)
=============================================================================
