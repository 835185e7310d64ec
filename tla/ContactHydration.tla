-------------------------- MODULE ContactHydration --------------------------
(***************************************************************************)
(* DigiSac contacts and the queue that hydrates them                       *)
(* (src/core/digisac_contact_repository.py, digisac_contact_hydration.py,  *)
(* digisac_contact_backfill.py).  A message that mentions an unknown       *)
(* contact queues it; a loop in every API process claims due rows under a  *)
(* lease, asks DigiSac and stores the answer.  Ticket webhooks and the     *)
(* backfill store snapshots of the same contacts, in any order.            *)
(*                                                                         *)
(* A row keeps one field that may be NULL; it stands for each of the       *)
(* provider's fields, which are merged one by one by the same rule.        *)
(***************************************************************************)
EXTENDS Integers, FiniteSets, Functions

CONSTANTS Contacts,
          Pollers,      \* the hydration loops, one per API process
          NoPoller,     \* lease_until IS NULL
          NoContact,    \* a poller without a claim
          Asked,        \* Asked[c]: place of c by (requested_at, contact_id)
          Limit,        \* digisac_history_max_attempts
          Snapshots,    \* what the provider may say of a contact
          Repeated,     \* pages of a backfill may repeat a contact
          Rejected,     \* contacts that DigiSac answers with an error for good
          MaxFaults     \* bound: errors, lost pollers, overrun leases

(* Provider times are 1, 2, ...; no time is Undated.  A field is Null or   *)
(* the provider time of the snapshot it came from.                         *)
Undated == 0
Null == -1
Snapshot == [updated : Nat, field : Nat \cup {Null}, created : BOOLEAN]

ASSUME HydrationAssumption ==
    /\ NoPoller \notin Pollers
    /\ NoContact \notin Contacts
    /\ Asked \in [Contacts -> Nat] /\ IsInjective(Asked)
    /\ Limit \in Nat \ {0}
    /\ Snapshots \subseteq Snapshot
    /\ \A s \in Snapshots : s.field \in {Null, s.updated}
    /\ Repeated \in BOOLEAN
    /\ Rejected \subseteq Contacts
    /\ MaxFaults \in Nat

VARIABLES contact,   \* contact[c]: the row of digisac_contacts
          queue,     \* queue[c]: the row of digisac_contact_hydrations
          poller,    \* poller[p]: the claim a loop works on
          faults     \* faults so far

vars == <<contact, queue, poller, faults>>
-----------------------------------------------------------------------------
(* source: the row is absent, a placeholder, or holds provider data.       *)
Contact == [source : {"absent", "message_reference", "provider"},
            updated : Nat, field : Nat \cup {Null}, created : BOOLEAN]
Absent == [source |-> "absent", updated |-> Undated, field |-> Null,
           created |-> FALSE]

(* due: next_attempt_at is NULL or past.  The lease names its claim, for   *)
(* lease_until is later with every claim; attempts counts up to Limit.     *)
Entry == [status : {"none", "pending", "running", "succeeded", "failed"},
          due : BOOLEAN, attempts : 0..Limit,
          lease : Pollers \cup {NoPoller}, expired : BOOLEAN]
NoEntry == [status |-> "none", due |-> TRUE, attempts |-> 0,
            lease |-> NoPoller, expired |-> FALSE]

Job == [at : {"idle", "fetch", "publish", "succeed", "retry", "fail"},
        on : Contacts \cup {NoContact}, got : Snapshot]
Nothing == [updated |-> Undated, field |-> Null, created |-> FALSE]
Idle == [at |-> "idle", on |-> NoContact, got |-> Nothing]

Init ==
    /\ contact = [c \in Contacts |-> Absent]
    /\ queue = [c \in Contacts |-> NoEntry]
    /\ poller = [p \in Pollers |-> Idle]
    /\ faults = 0

Fault ==
    /\ faults < MaxFaults
    /\ faults' = faults + 1

Goto(p, step) == poller' = [poller EXCEPT ![p].at = step]
Leave(p) == poller' = [poller EXCEPT ![p] = Idle]
-----------------------------------------------------------------------------
Later(a, b) == IF a < b THEN b ELSE a

(* Mutant of Merged: the snapshot with no time is taken for the newest.    *)
MergedUndated(row, s) ==
    LET older == row.updated # Undated /\ s.updated # Undated
                                       /\ s.updated < row.updated
        kept == s.field = Null \/ older IN
    [source |-> "provider",
     updated |-> Later(row.updated, s.updated),
     field |-> IF kept THEN row.field ELSE s.field,
     created |-> row.created \/ (s.created /\ ~older)]

(* _upsert_digisac_contact_cursor: an older snapshot changes nothing, one  *)
(* without a time only fills what is NULL, none erases a field.            *)
Merged(row, s) ==
    LET older == row.updated # Undated /\ s.updated # Undated
                                       /\ s.updated < row.updated
        unordered == row.updated # Undated /\ s.updated = Undated
        kept == s.field = Null \/ older \/ (unordered /\ row.field # Null) IN
    [source |-> "provider",
     updated |-> Later(row.updated, s.updated),
     field |-> IF kept THEN row.field ELSE s.field,
     created |-> row.created \/ (s.created /\ ~older)]

(* The placeholder carries no provider time.                               *)
HasMetadata(row) == row.updated # Undated \/ row.created

Ended(entry, status) ==
    [entry EXCEPT !.status = status, !.lease = NoPoller, !.expired = FALSE]
-----------------------------------------------------------------------------
(* A message mentions c: request_digisac_contact_hydration.                *)
Refer(c) ==
    /\ contact' = [contact EXCEPT ![c].source =
                      IF @ = "absent" THEN "message_reference" ELSE @]
    /\ IF queue[c].status = "none" /\ ~HasMetadata(contact[c])
       THEN queue' = [queue EXCEPT ![c].status = "pending"]
       ELSE UNCHANGED queue
    /\ UNCHANGED <<poller, faults>>

(* A ticket event carries a snapshot, which ends any work on its contact.  *)
TicketWebhook(c) ==
    /\ \E s \in Snapshots :
          contact' = [contact EXCEPT ![c] = Merged(@, s)]
    /\ queue' = [queue EXCEPT ![c] =
                    IF @.status = "none" THEN @
                    ELSE [Ended(@, "succeeded") EXCEPT !.due = TRUE]]
    /\ UNCHANGED <<poller, faults>>

(* Two copies of a contact in the pages of one acquisition.                *)
MergedDuplicates(a, b) ==
    LET first == IF b.updated > a.updated THEN b ELSE a
        other == IF b.updated > a.updated THEN a ELSE b IN
    [updated |-> first.updated,
     field |-> IF first.field # Null THEN first.field ELSE other.field,
     created |-> first.created \/ other.created]

Acquired ==
    Snapshots \cup IF Repeated
                   THEN {MergedDuplicates(a, b) : a, b \in Snapshots} ELSE {}

(* A validated acquisition is published in one transaction.                *)
Backfill ==
    /\ \E C \in (SUBSET Contacts) \ {{}} : \E got \in [C -> Acquired] :
          contact' = [c \in Contacts |-> IF c \in C THEN Merged(contact[c], got[c])
                                                    ELSE contact[c]]
    /\ UNCHANGED <<queue, poller, faults>>
-----------------------------------------------------------------------------
(* Mutant of Due: a row without a schedule is not due.                     *)
DueScheduled(c) ==
    \/ queue[c].status = "pending"
    \/ queue[c].status = "failed" /\ queue[c].due /\ queue[c].attempts < Limit
    \/ queue[c].status = "running" /\ queue[c].expired

Due(c) ==
    \/ queue[c].status \in {"pending", "failed"} /\ queue[c].due
    \/ queue[c].status = "running" /\ queue[c].expired

(* claim_digisac_contact_hydration takes the due row asked for first.      *)
Claim(p) ==
    /\ poller[p].at = "idle"
    /\ \E c \in Contacts :
          /\ Due(c)
          /\ \A d \in Contacts : Due(d) => Asked[c] <= Asked[d]
          /\ queue' = [queue EXCEPT ![c] =
                [status |-> "running", due |-> TRUE, lease |-> p,
                 attempts |-> IF @.attempts < Limit THEN @.attempts + 1 ELSE Limit,
                 expired |-> FALSE]]
          /\ poller' = [poller EXCEPT ![p].at = "fetch", ![p].on = c]
    /\ UNCHANGED <<contact, faults>>

(* get_contact: a snapshot, or an error that may pass or may not.          *)
Fetch(p) ==
    /\ poller[p].at = "fetch"
    /\ IF poller[p].on \in Rejected
       THEN Goto(p, "fail") /\ UNCHANGED faults
       ELSE \/ /\ \E s \in Snapshots :
                    poller' = [poller EXCEPT ![p].at = "publish", ![p].got = s]
               /\ UNCHANGED faults
            \/ Goto(p, "retry") /\ Fault
            \/ Goto(p, "fail") /\ Fault
    /\ UNCHANGED <<contact, queue>>

(* The answer is stored whoever holds the lease by now, or fails to be.    *)
Publish(p) ==
    /\ poller[p].at = "publish"
    /\ \/ /\ contact' = [contact EXCEPT ![poller[p].on] = Merged(@, poller[p].got)]
          /\ Goto(p, "succeed")
          /\ UNCHANGED faults
       \/ Goto(p, "fail") /\ Fault /\ UNCHANGED contact
    /\ UNCHANGED queue

(* Mutant of Holds: the lease owner is not compared.                       *)
HoldsRunning(p) == queue[poller[p].on].status = "running"

(* The WHERE clause of both marks.                                         *)
Holds(p) ==
    /\ queue[poller[p].on].status = "running"
    /\ queue[poller[p].on].lease = p

MarkSuccess(p) ==
    /\ poller[p].at = "succeed"
    /\ queue' = [queue EXCEPT ![poller[p].on] =
                    IF Holds(p) THEN Ended(@, "succeeded") ELSE @]
    /\ Leave(p)
    /\ UNCHANGED <<contact, faults>>

(* An attempt below the limit is scheduled; any other failure leaves       *)
(* next_attempt_at NULL, which the claim takes for due.                    *)
GivesUp(p) ==
    poller[p].at = "fail" \/ queue[poller[p].on].attempts >= Limit

MarkFailure(p) ==
    /\ poller[p].at \in {"retry", "fail"}
    /\ queue' = [queue EXCEPT ![poller[p].on] =
                    IF Holds(p)
                    THEN [Ended(@, "failed") EXCEPT !.due = GivesUp(p)]
                    ELSE @]
    /\ Leave(p)
    /\ UNCHANGED <<contact, faults>>

(* The process dies, or a mark raises and the loop goes on.                *)
Abandon(p) ==
    /\ poller[p].at # "idle"
    /\ Leave(p)
    /\ Fault
    /\ UNCHANGED <<contact, queue>>

(* next_attempt_at passes; a lease does, a fault if its poller still works. *)
ComeDue(c) ==
    /\ ~queue[c].due
    /\ queue' = [queue EXCEPT ![c].due = TRUE]
    /\ UNCHANGED <<contact, poller, faults>>

ExpireLease(c) ==
    /\ queue[c].status = "running" /\ ~queue[c].expired
    /\ queue' = [queue EXCEPT ![c].expired = TRUE]
    /\ IF poller[queue[c].lease].on = c THEN Fault ELSE UNCHANGED faults
    /\ UNCHANGED <<contact, poller>>

Work(p) == Fetch(p) \/ Publish(p) \/ MarkSuccess(p) \/ MarkFailure(p)

Next ==
    \/ \E c \in Contacts : Refer(c) \/ TicketWebhook(c) \/ ComeDue(c)
                           \/ ExpireLease(c)
    \/ Backfill
    \/ \E p \in Pollers : Claim(p) \/ Work(p) \/ Abandon(p)

Spec == Init /\ [][Next]_vars

(* contact_hydration_loop catches every error and polls again, and time    *)
(* passes.                                                                 *)
FairSpec ==
    /\ Spec
    /\ \A p \in Pollers : WF_vars(Claim(p)) /\ WF_vars(Work(p))
    /\ \A c \in Contacts : WF_vars(ComeDue(c)) /\ WF_vars(ExpireLease(c))
-----------------------------------------------------------------------------
(* Every row, claim and answer has its type.                               *)
TypeOK ==
    /\ contact \in [Contacts -> Contact]
    /\ queue \in [Contacts -> Entry]
    /\ poller \in [Pollers -> Job]
    /\ faults \in 0..MaxFaults

(* However webhooks, backfills and late answers are ordered, no field goes *)
(* back to what an older snapshot said, and none is erased.                *)
FieldNeverOlder ==
    [][\A c \in Contacts : contact'[c].field >= contact[c].field]_vars

(* A row that is reported hydrated has provider data.                      *)
SucceededHasData ==
    \A c \in Contacts :
        queue[c].status = "succeeded" => contact[c].source = "provider"

(* A hydrated contact stays so, whatever an overtaken poller reports.      *)
SucceededIsFinal ==
    [][\A c \in Contacts :
          queue[c].status = "succeeded" => queue'[c].status = "succeeded"]_vars

(* Only the holder of the latest claim reports a failure.                  *)
FailureByHolder ==
    [][\A c \in Contacts :
          queue[c].status # "failed" /\ queue'[c].status = "failed" =>
              \E p \in Pollers : /\ queue[c].lease = p
                                 /\ poller[p].on = c
                                 /\ poller'[p] = Idle]_vars

(* Messages that mention a contact again do not hasten a scheduled retry.  *)
BackoffKept ==
    [][\A c \in Contacts :
          queue[c].status = "failed" /\ ~queue[c].due =>
              queue'[c].status \in {"failed", "succeeded"}]_vars

(* A contact that was asked for, and that DigiSac knows, is hydrated.      *)
EveryNeedHydrated ==
    \A c \in Contacts \ Rejected :
        queue[c].status = "pending" ~> queue[c].status = "succeeded"
=============================================================================
