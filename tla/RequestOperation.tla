-------------------------- MODULE RequestOperation --------------------------
(***************************************************************************)
(* The durable operation behind each internal Acessorias Request           *)
(* (src/core/acessorias_requests.py): one row of                           *)
(* acessorias_request_operations per completed cycle, the callers of       *)
(* create_request_for_cycle and recover_mapping_missing_request, the POST  *)
(* they send to a provider that has no idempotency key, and the operator   *)
(* who reconciles what the provider left uncertain.                        *)
(*                                                                         *)
(* Every SQL transaction and the POST are one action each.  A claim may    *)
(* expire at any moment while its caller works.  The cycle of an operation *)
(* is completed and classified; CycleFinalization has the other cases.     *)
(***************************************************************************)
EXTENDS Naturals, FiniteSets

CONSTANTS Operations,   \* one per completed cycle
          Callers,      \* tasks inside create_ or recover_ functions
          Keys,         \* operation_key of the operator's commands
          NoCaller,     \* claim_owner IS NULL
          NoOp,         \* a caller with nothing to do, an unused key
          MaxFaults     \* bound: lost callers, expired claims, corrections

ASSUME RequestAssumption ==
    /\ NoCaller \notin Callers
    /\ NoOp \notin Operations
    /\ MaxFaults \in Nat

VARIABLES op,         \* op[o]: the row of operation o
          caller,     \* caller[k]: the progress of caller k
          remote,     \* remote[o]: Requests the provider created for o
          audit,      \* audit[y]: the operation the operator used key y for
          mapped,     \* mapped[o]: the department mapping is resolved
          confident,  \* confident[o]: confidence is at least the minimum
          faults      \* faults so far

vars == <<op, caller, remote, audit, mapped, confident, faults>>
world == <<remote, audit, mapped, confident>>
-----------------------------------------------------------------------------
State == {"absent", "not_started", "attempting", "completed",
          "definitive_failure", "retryable_failure",
          "reconciliation_required"}

(* sol: which of the provider's Requests sol_id names, 0 if it is NULL.    *)
(* posted: post_started_at is set, and with it the attempt columns; no     *)
(* statement ever clears them.                                             *)
(* unmapped: failure_category is mapping_missing.                          *)
Row == [state : State, owner : Callers \cup {NoCaller},
        lease : {"none", "live", "expired"}, posted : BOOLEAN,
        sol : Nat, unmapped : BOOLEAN]

AbsentRow == [state |-> "absent", owner |-> NoCaller, lease |-> "none",
              posted |-> FALSE, sol |-> 0, unmapped |-> FALSE]

(* at: the next transaction of the caller; answer: the provider outcome.   *)
Answer == [state : State, sol : Nat]
NoAnswer == [state |-> "absent", sol |-> 0]
Steps == {"ensure", "claim", "load", "check", "block", "mark", "post",
          "finish", "prepare", "refuse", "reopen"}
Job == [at : {"idle"} \cup Steps, op : Operations \cup {NoOp}, answer : Answer]
Idle == [at |-> "idle", op |-> NoOp, answer |-> NoAnswer]

Init ==
    /\ op = [o \in Operations |-> AbsentRow]
    /\ caller = [k \in Callers |-> Idle]
    /\ remote = [o \in Operations |-> 0]
    /\ audit = [y \in Keys |-> NoOp]
    /\ mapped \in [Operations -> BOOLEAN]
    /\ confident \in [Operations -> BOOLEAN]
    /\ faults = 0

Fault ==
    /\ faults < MaxFaults
    /\ faults' = faults + 1

Goto(k, step) == caller' = [caller EXCEPT ![k].at = step]
Leave(k) == caller' = [caller EXCEPT ![k] = Idle]
Put(o, row) == op' = [op EXCEPT ![o] = row]

(* A row in a new state that nobody claims any more.                       *)
Freed(row, state) ==
    [row EXCEPT !.state = state, !.owner = NoCaller, !.lease = "none"]

(* Mutant of Holds: the owner of the claim is not compared.                *)
HoldsAnyClaim(k) == op[caller[k].op].state = "attempting"

(* The WHERE clause of every write a claim is followed by.                 *)
Holds(k) ==
    LET row == op[caller[k].op] IN
    row.state = "attempting" /\ row.owner = k
-----------------------------------------------------------------------------
(* create_request_for_cycle is called, or recover_mapping_missing_request. *)
Call(k, o) ==
    /\ caller[k].at = "idle"
    /\ caller' = [caller EXCEPT ![k].at = "ensure", ![k].op = o]
    /\ UNCHANGED <<op, world, faults>>

(* _ensure_operation: create the row with the eligibility of this moment,  *)
(* or read it; only a row that may start is pursued.                       *)
Created(o) ==
    [AbsentRow EXCEPT
        !.state = IF confident[o] /\ mapped[o]
                  THEN "not_started" ELSE "definitive_failure",
        !.unmapped = confident[o] /\ ~mapped[o]]

Ensure(k) ==
    LET o == caller[k].op
        row == IF op[o].state = "absent" THEN Created(o) ELSE op[o] IN
    /\ caller[k].at = "ensure"
    /\ Put(o, row)
    /\ IF row.state \in {"not_started", "retryable_failure"}
       THEN Goto(k, "claim")
       ELSE Leave(k)
    /\ UNCHANGED <<world, faults>>

(* Mutant of Reaped: a claim that expired may always be tried again.       *)
ReapedForRetry(row) ==
    IF row.state = "attempting" /\ row.lease = "expired"
    THEN Freed(row, "retryable_failure")
    ELSE row

(* _claim_operation: an expired claim is first turned into what is known   *)
(* of it, and the row is claimed if that may start.                        *)
Reaped(row) ==
    IF row.state = "attempting" /\ row.lease = "expired"
    THEN IF row.posted THEN Freed(row, "reconciliation_required")
                       ELSE Freed(row, "retryable_failure")
    ELSE row

Claim(k) ==
    LET o == caller[k].op
        row == Reaped(op[o]) IN
    /\ caller[k].at = "claim"
    /\ IF row.state \in {"not_started", "retryable_failure"}
       THEN /\ Put(o, [row EXCEPT !.state = "attempting", !.owner = k,
                                  !.lease = "live"])
            /\ Goto(k, "load")
       ELSE Put(o, row) /\ Leave(k)
    /\ UNCHANGED <<world, faults>>

(* _load_payload and the provider adapter: either may fail before the POST *)
(* and is then reported as retryable.                                      *)
Load(k) ==
    /\ caller[k].at = "load"
    /\ \/ Goto(k, "check")
       \/ caller' = [caller EXCEPT ![k].at = "finish", ![k].answer =
              [state |-> "retryable_failure", sol |-> 0]]
    /\ UNCHANGED <<op, world, faults>>

(* The confidence is read, and acted on in a later transaction.            *)
Check(k) ==
    /\ caller[k].at = "check"
    /\ Goto(k, IF confident[caller[k].op] THEN "mark" ELSE "block")
    /\ UNCHANGED <<op, world, faults>>

(* The gate refuses only a row whose POST was never started.               *)
Refused(k) ==
    LET row == op[caller[k].op] IN
    IF Holds(k) /\ ~row.posted
    THEN Freed(row, "definitive_failure")
    ELSE row

Block(k) ==
    /\ caller[k].at = "block"
    /\ Put(caller[k].op, Refused(k))
    /\ Leave(k)
    /\ UNCHANGED <<world, faults>>

(* Mutant of Mark: a caller that lost its claim goes on to its POST.        *)
MarkUnclaimed(k) ==
    LET o == caller[k].op IN
    /\ caller[k].at = "mark"
    /\ IF confident[o]
       THEN /\ Put(o, [op[o] EXCEPT !.posted = TRUE])
            /\ Goto(k, "post")
       ELSE Put(o, Refused(k)) /\ Leave(k)
    /\ UNCHANGED <<world, faults>>

(* _mark_post_started: the gate once more, then the durable evidence.      *)
Mark(k) ==
    LET o == caller[k].op IN
    /\ caller[k].at = "mark"
    /\ IF Holds(k) /\ confident[o]
       THEN /\ Put(o, [op[o] EXCEPT !.posted = TRUE])
            /\ Goto(k, "post")
       ELSE Put(o, Refused(k)) /\ Leave(k)
    /\ UNCHANGED <<world, faults>>

(* The POST and the outcome the adapter makes of the answer.  An answer    *)
(* that proves nothing may come with or without a Request created.         *)
Answers(o) ==
    {[state |-> "completed", sol |-> remote[o] + 1],
     [state |-> "reconciliation_required", sol |-> 0],
     [state |-> "retryable_failure", sol |-> 0],
     [state |-> "definitive_failure", sol |-> 0]}

Creates(answer) ==
    CASE answer.state = "completed" -> {1}
      [] answer.state = "reconciliation_required" -> {0, 1}
      [] OTHER -> {0}

Post(k) ==
    LET o == caller[k].op IN
    /\ caller[k].at = "post"
    /\ \E answer \in Answers(o) : \E n \in Creates(answer) :
          /\ remote' = [remote EXCEPT ![o] = @ + n]
          /\ caller' = [caller EXCEPT ![k].at = "finish",
                                      ![k].answer = answer]
    /\ UNCHANGED <<op, audit, mapped, confident, faults>>

(* _finish_operation: store the outcome, or leave a row that moved on.     *)
Finish(k) ==
    LET o == caller[k].op
        answer == caller[k].answer IN
    /\ caller[k].at = "finish"
    /\ Put(o, IF Holds(k)
              THEN [Freed(op[o], answer.state) EXCEPT !.sol = answer.sol]
              ELSE op[o])
    /\ Leave(k)
    /\ UNCHANGED <<world, faults>>
-----------------------------------------------------------------------------
(* recover_mapping_missing_request: claim a row that was refused for its   *)
(* mapping and never attempted, unless another recovery holds it.          *)
NeverAttempted(row) ==
    /\ row.state = "definitive_failure"
    /\ row.unmapped
    /\ ~row.posted
    /\ row.sol = 0

ClaimRecovery(k, o) ==
    /\ caller[k].at = "idle"
    /\ NeverAttempted(op[o])
    /\ op[o].owner \in {NoCaller, k} \/ op[o].lease # "live"
    /\ Put(o, [op[o] EXCEPT !.owner = k, !.lease = "live"])
    /\ caller' = [caller EXCEPT ![k].at = "prepare", ![k].op = o]
    /\ UNCHANGED <<world, faults>>

(* prepare_cycle_for_request: identity and mapping, evaluated now.         *)
Prepare(k) ==
    /\ caller[k].at = "prepare"
    /\ Goto(k, IF mapped[caller[k].op] THEN "reopen" ELSE "refuse")
    /\ UNCHANGED <<op, world, faults>>

HoldsRecovery(k) ==
    LET row == op[caller[k].op] IN NeverAttempted(row) /\ row.owner = k

(* _record_preparation_recovery_blocked gives the claim back ...           *)
RefuseRecovery(k) ==
    LET o == caller[k].op IN
    /\ caller[k].at = "refuse"
    /\ Put(o, IF HoldsRecovery(k) THEN Freed(op[o], op[o].state) ELSE op[o])
    /\ Leave(k)
    /\ UNCHANGED <<world, faults>>

(* ... and _reopen_prepared_operation keeps it, checks the facts again and *)
(* goes on as create_request_for_cycle; a lost claim is an error.          *)
Reopen(k) ==
    LET o == caller[k].op IN
    /\ caller[k].at = "reopen"
    /\ IF HoldsRecovery(k) /\ confident[o] /\ mapped[o]
       THEN /\ Put(o, [op[o] EXCEPT !.state = "not_started",
                                    !.unmapped = FALSE])
            /\ Goto(k, "ensure")
       ELSE Leave(k) /\ UNCHANGED op
    /\ UNCHANGED <<world, faults>>
-----------------------------------------------------------------------------
(* The operator (manual_db).  A key replays its own operation and conflicts *)
(* with any other; neither writes anything, so they are no step here.      *)
Fresh(y) == audit[y] = NoOp

(* reconcile_request_operation with the id of a Request that exists.       *)
RecordSolID(o, y) ==
    /\ Fresh(y)
    /\ \E sol \in 1..remote[o] :
          /\ \/ op[o].state = "reconciliation_required"
             \/ op[o].state = "completed" /\ op[o].sol = sol
          /\ Put(o, [Freed(op[o], "completed") EXCEPT !.sol = sol])
    /\ audit' = [audit EXCEPT ![y] = o]
    /\ UNCHANGED <<caller, remote, mapped, confident, faults>>

(* release_request_operation: the proof of absence is a query that finds   *)
(* no Request while no POST is on its way.                                 *)
InFlight(o) == \E k \in Callers : caller[k].op = o /\ caller[k].at = "post"

(* Mutant of ReleaseRetry: no proof of absence.                            *)
ReleaseUnproved(o, y) ==
    /\ Fresh(y)
    /\ op[o].state = "reconciliation_required"
    /\ Put(o, Freed(op[o], "retryable_failure"))
    /\ audit' = [audit EXCEPT ![y] = o]
    /\ UNCHANGED <<caller, remote, mapped, confident, faults>>

ReleaseRetry(o, y) ==
    /\ Fresh(y)
    /\ op[o].state = "reconciliation_required"
    /\ remote[o] = 0 /\ ~InFlight(o)
    /\ Put(o, Freed(op[o], "retryable_failure"))
    /\ audit' = [audit EXCEPT ![y] = o]
    /\ UNCHANGED <<caller, remote, mapped, confident, faults>>
-----------------------------------------------------------------------------
(* claim_expires_at passes, a fault if its caller is still at work.        *)
Working(k, o) == caller[k].op = o

ExpireClaim(o) ==
    /\ op[o].lease = "live"
    /\ Put(o, [op[o] EXCEPT !.lease = "expired"])
    /\ IF Working(op[o].owner, o) THEN Fault ELSE UNCHANGED faults
    /\ UNCHANGED <<caller, world>>

(* The process of a caller dies.  A POST on its way may yet be served.     *)
Crash(k) ==
    LET o == caller[k].op IN
    /\ caller[k].at # "idle"
    /\ Leave(k)
    /\ \E n \in IF caller[k].at = "post" THEN {0, 1} ELSE {0} :
          remote' = [remote EXCEPT ![o] = @ + n]
    /\ Fault
    /\ UNCHANGED <<op, audit, mapped, confident>>

(* An operator completes the mapping; a correction of the confidence.       *)
CompleteMapping(o) ==
    /\ ~mapped[o]
    /\ mapped' = [mapped EXCEPT ![o] = TRUE]
    /\ UNCHANGED <<op, caller, remote, audit, confident, faults>>

CorrectConfidence(o) ==
    /\ confident' = [confident EXCEPT ![o] = ~@]
    /\ Fault
    /\ UNCHANGED <<op, caller, remote, audit, mapped>>

Progress(k) ==
    \/ Ensure(k) \/ Claim(k) \/ Load(k) \/ Check(k) \/ Block(k) \/ Mark(k)
    \/ Post(k) \/ Finish(k)
    \/ Prepare(k) \/ RefuseRecovery(k) \/ Reopen(k)

Next ==
    \/ \E k \in Callers : \/ \E o \in Operations : Call(k, o) \/ ClaimRecovery(k, o)
                          \/ Progress(k) \/ Crash(k)
    \/ \E o \in Operations : \/ \E y \in Keys : \/ RecordSolID(o, y)
                                               \/ ReleaseRetry(o, y)
                             \/ ExpireClaim(o) \/ CompleteMapping(o)
                             \/ CorrectConfidence(o)

Spec == Init /\ [][Next]_vars
-----------------------------------------------------------------------------
(* Fairness: a caller runs to its end, time passes, and the operation of   *)
(* a cycle is called for again and again (more than the IA worker does).   *)
FairSpec ==
    /\ Spec
    /\ \A k \in Callers : WF_vars(Progress(k))
    /\ \A o \in Operations : /\ WF_vars(ExpireClaim(o))
                             /\ SF_vars(\E k \in Callers : Call(k, o))
-----------------------------------------------------------------------------
(* Every row, caller and fact has its type.                                *)
TypeOK ==
    /\ op \in [Operations -> Row]
    /\ caller \in [Callers -> Job]
    /\ remote \in [Operations -> Nat]
    /\ audit \in [Keys -> Operations \cup {NoOp}]
    /\ mapped \in [Operations -> BOOLEAN]
    /\ confident \in [Operations -> BOOLEAN]
    /\ faults \in 0..MaxFaults

(* The provider has no idempotency key: however claims expire and callers  *)
(* die, no cycle ever creates two Requests.                                *)
AtMostOneRequest == \A o \in Operations : remote[o] <= 1

(* A row from which a POST may be started has left no Request behind, so   *)
(* an uncertain outcome is never replayed without the operator's proof.    *)
SafeToRetry ==
    \A o \in Operations :
        op[o].state \in {"absent", "not_started", "retryable_failure",
                         "definitive_failure"} => remote[o] = 0

(* Two POSTs of one operation are never on their way together.             *)
OnePostAtATime ==
    \A j, k \in Callers :
        /\ caller[j].at = "post"
        /\ caller[k].at = "post"
        /\ caller[j].op = caller[k].op
        => j = k

(* A completed row names a Request that exists, and only it has a SolID.   *)
CompletedNamesRequest ==
    \A o \in Operations :
        IF op[o].state = "completed" THEN op[o].sol \in 1..remote[o]
                                     ELSE op[o].sol = 0

(* Once completed, a row keeps its state and its SolID whoever writes it.  *)
CompletedIsFinal ==
    [][\A o \in Operations :
          op[o].state = "completed" =>
              op'[o].state = "completed" /\ op'[o].sol = op[o].sol]_vars

(* A definitive refusal is definitive at the provider too: no POST of an   *)
(* earlier claim creates a Request after its row was refused.              *)
RefusedCreatesNothing ==
    [][\A o \in Operations :
          op[o].state = "definitive_failure" => remote'[o] = remote[o]]_vars

(* A claim whose process died is taken up or turned into a failure.        *)
AbandonedClaimRecovered ==
    \A o \in Operations :
        op[o].state = "attempting" ~> op[o].state # "attempting"
=============================================================================
