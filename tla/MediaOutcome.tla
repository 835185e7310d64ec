---------------------------- MODULE MediaOutcome ----------------------------
(***************************************************************************)
(* What durable media work promises its reader, with no workers, leases,   *)
(* clocks or faults: a message is admitted, attempted a number of times    *)
(* and concluded by the result of its LAST attempt.  A message that is     *)
(* done stays done, with the text it has; one that failed may be admitted  *)
(* again.  DurableMedia is shown to implement this specification, and      *)
(* CycleFinalization relies on it for the media of its cycles.             *)
(***************************************************************************)
EXTENDS Naturals

CONSTANT Media     \* the messages whose content is extracted

VARIABLES outcome,   \* outcome[m]: the state of the work on m
          attempt,   \* attempt[m]: how many attempts were started
          result     \* result[m]: the attempt whose text is stored, 0 if none

vars == <<outcome, attempt, result>>

Outcomes == {"none", "queued", "working", "done", "failed"}

Init ==
    /\ outcome = [m \in Media |-> "none"]
    /\ attempt = [m \in Media |-> 0]
    /\ result = [m \in Media |-> 0]

Admit(m) ==
    /\ outcome[m] \in {"none", "failed"}
    /\ outcome' = [outcome EXCEPT ![m] = "queued"]
    /\ UNCHANGED <<attempt, result>>

(* A new attempt begins, or takes over from one that never ended.          *)
Start(m) ==
    /\ outcome[m] \in {"queued", "working"}
    /\ outcome' = [outcome EXCEPT ![m] = "working"]
    /\ attempt' = [attempt EXCEPT ![m] = @ + 1]
    /\ UNCHANGED result

Requeue(m) ==
    /\ outcome[m] = "working"
    /\ outcome' = [outcome EXCEPT ![m] = "queued"]
    /\ UNCHANGED <<attempt, result>>

Succeed(m) ==
    /\ outcome[m] = "working"
    /\ outcome' = [outcome EXCEPT ![m] = "done"]
    /\ result' = [result EXCEPT ![m] = attempt[m]]
    /\ UNCHANGED attempt

GiveUp(m) ==
    /\ outcome[m] = "working"
    /\ outcome' = [outcome EXCEPT ![m] = "failed"]
    /\ UNCHANGED <<attempt, result>>

Next ==
    \E m \in Media :
        Admit(m) \/ Start(m) \/ Requeue(m) \/ Succeed(m) \/ GiveUp(m)

Spec == Init /\ [][Next]_vars
=============================================================================
