------------------------ MODULE MCContactHydration ------------------------
(* Instances of ContactHydration for TLC.                                  *)
EXTENDS ContactHydration, TLC

CONSTANTS c1, c2

AskedInTurn == c1 :> 1 @@ c2 :> 2

Say(updated, field) ==
    [updated |-> updated, field |-> field, created |-> FALSE]

(* Two dated snapshots and an undated one.                                 *)
DatedAndUndated == {Say(1, 1), Say(2, 2), Say(Undated, Undated)}
===========================================================================
