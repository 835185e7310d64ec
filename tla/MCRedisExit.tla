---------------------------- MODULE MCRedisExit ----------------------------
(* An instance of RedisExit for TLC.                                       *)
EXTENDS RedisExit, TLC

CONSTANTS named, junk, p1, p2, bad, r1, e1, e2, d1, d2

(* Two families; an entry that names nothing, a dead letter, a push.       *)
IAThenImage == <<"ia", "image">>

Bags(a, b) == named :> a @@ junk :> b

LeftBehind ==
    [f \in Range(IAThenImage) |->
        [q \in {"queue", "dead"} |->
            IF q = "queue" THEN (IF f = "ia" THEN Bags(0, 1) ELSE Bags(0, 0))
                           ELSE (IF f = "ia" THEN Bags(0, 0) ELSE Bags(1, 0))]]
============================================================================
