--------------------------- MODULE MCDurableMedia ---------------------------
(* DurableMedia on small sets of rows and workers.  Liveness is checked in *)
(* the same run as safety, so no symmetry is used.                         *)
EXTENDS DurableMedia
=============================================================================
