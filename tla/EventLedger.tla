---------------------------- MODULE EventLedger ----------------------------
(***************************************************************************)
(* The ledger of webhook events (core/webhook_event_repository.py), its    *)
(* clean-up, and the handoff that moves the markers of the Redis version   *)
(* into it (scripts/migrate_legacy_webhook_idempotency.py).  An event must *)
(* be accepted once an hour whichever version of the API receives it.      *)
(*                                                                         *)
(* An entry of the ledger or of Redis is the time at which it expires; 0   *)
(* is no entry.  Redis drops what has expired, the ledger keeps it until a *)
(* clean-up or a delivery of the same event.                               *)
(***************************************************************************)
EXTENDS Integers, FiniteSets

CONSTANTS Events,      \* the digests of events
          Deliveries,  \* deliveries that the new API may handle at once
          TTL,         \* EVENT_IDEMPOTENCY_TTL_SECONDS, in ticks
          MaxMarkers,    \* --max-items
          BatchSize,   \* --batch-size
          MaxTime      \* bound: ticks

ASSUME LedgerAssumption ==
    /\ TTL \in Nat \ {0} /\ MaxTime \in Nat \ {0}
    /\ MaxMarkers \in Nat \ {0} /\ BatchSize \in Nat \ {0}
    /\ IsFiniteSet(Events)

VARIABLES now,       \* the clock
          ledger,    \* ledger[e]: expires_at of the row
          marker,    \* marker[e]: when the Redis key processed:e expires
          delivery,  \* delivery[p]: a transaction of the new API
          sweep,     \* CURRENT_TIMESTAMP of a clean-up that runs, or -1
          api,       \* the version that serves webhooks
          handoffReport, \* the digests of the dry run
          handoff,   \* the apply that runs
          handed,    \* has an apply completed since the old API stopped
          until,     \* history: when the last acceptance of e lapses
          repeated   \* history: the events accepted before that

handoffVars == <<api, handoffReport, handoff, handed>>
history == <<until, repeated>>
tables == <<ledger, marker, delivery, sweep>>
ledgerVars == <<now, tables, handoffVars, history>>
-----------------------------------------------------------------------------
Time == 0..MaxTime
Expiry == 0..(MaxTime + TTL)

NoDelivery == [event |-> "none", stamp |-> 0]
Delivery == {NoDelivery} \cup [event : Events, stamp : Time]

(* A truncated inventory is only ever refused.                             *)
NoHandoffReport == [taken |-> FALSE, digests |-> {}]

(* left[e]: what TTL of the key said.                                      *)
NoHandoff == [running |-> FALSE, left |-> [e \in Events |-> 0]]

LedgerInit ==
    /\ now = 1
    /\ ledger = [e \in Events |-> 0]
    /\ marker = [e \in Events |-> 0]
    /\ delivery = [p \in Deliveries |-> NoDelivery]
    /\ sweep = -1
    /\ api = "old"
    /\ handoffReport = NoHandoffReport
    /\ handoff = NoHandoff
    /\ handed = FALSE
    /\ until = [e \in Events |-> 0]
    /\ repeated = {}

(* An apply takes no tick: between its inventory and its commit there are  *)
(* milliseconds, and a tick is a share of an hour.                         *)
Tick ==
    /\ now < MaxTime
    /\ ~handoff.running
    /\ now' = now + 1
    /\ UNCHANGED <<tables, handoffVars, history>>

(* An acceptance at this moment, of a transaction that began at stamp.     *)
Accept(e, stamp) ==
    /\ until' = [until EXCEPT ![e] = stamp + TTL]
    /\ repeated' = IF now < until[e] THEN repeated \cup {e} ELSE repeated
-----------------------------------------------------------------------------
(* A delivery to the old API: SET NX EX of the marker.                     *)
DeliverOld(e) ==
    /\ api = "old"
    /\ IF marker[e] > now
       THEN UNCHANGED <<marker, history>>
       ELSE /\ marker' = [marker EXCEPT ![e] = now + TTL]
            /\ Accept(e, now)
    /\ UNCHANGED <<now, ledger, delivery, sweep, handoffVars>>

(* A delivery to the new API reads CURRENT_TIMESTAMP when its transaction  *)
(* begins; the upsert may run, or get past a row lock, later.              *)
BeginDelivery(p, e) ==
    /\ api = "new"
    /\ delivery[p] = NoDelivery
    /\ delivery' = [delivery EXCEPT ![p] = [event |-> e, stamp |-> now]]
    /\ UNCHANGED <<now, ledger, marker, sweep, handoffVars, history>>

(* Mutant of Replaceable: a row is replaced a tick early.                  *)
ReplaceableAtEdge(e, stamp) == ledger[e] <= stamp + 1

Replaceable(e, stamp) == ledger[e] <= stamp

RecordEvent(p) ==
    LET e == delivery[p].event
        stamp == delivery[p].stamp
    IN  /\ delivery[p] # NoDelivery
        /\ IF Replaceable(e, stamp)
           THEN /\ ledger' = [ledger EXCEPT ![e] = stamp + TTL]
                /\ Accept(e, stamp)
           ELSE UNCHANGED <<ledger, history>>
        /\ delivery' = [delivery EXCEPT ![p] = NoDelivery]
        /\ UNCHANGED <<now, marker, sweep, handoffVars>>

(* The process that handles the delivery stops before it commits.          *)
LoseDelivery(p) ==
    /\ delivery[p] # NoDelivery
    /\ delivery' = [delivery EXCEPT ![p] = NoDelivery]
    /\ UNCHANGED <<now, ledger, marker, sweep, handoffVars, history>>
-----------------------------------------------------------------------------
(* The clean-up deletes one batch of rows that had expired when it began,  *)
(* passing over rows that a delivery has locked.                           *)
BeginSweep ==
    /\ sweep = -1
    /\ sweep' = now
    /\ UNCHANGED <<now, ledger, marker, delivery, handoffVars, history>>

Expired(stamp) == {e \in Events : ledger[e] > 0 /\ ledger[e] <= stamp}

Sweep ==
    /\ sweep # -1
    /\ \E batch \in SUBSET Expired(sweep) :
        /\ Cardinality(batch) <= BatchSize
        /\ ledger' = [e \in Events |-> IF e \in batch THEN 0 ELSE ledger[e]]
    /\ sweep' = -1
    /\ UNCHANGED <<now, marker, delivery, handoffVars, history>>
-----------------------------------------------------------------------------
(* The handoff.  Its instructions: stop the old API, review a complete dry *)
(* run, apply, start the new API.  A stopped old API may be started again. *)
StopOld ==
    /\ api = "old"
    /\ api' = "stopped"
    /\ UNCHANGED <<now, tables, handoffReport, handoff, handed, history>>

RestartOld ==
    /\ api = "stopped" /\ ~handoff.running
    /\ api' = "old"
    /\ handed' = FALSE
    /\ UNCHANGED <<now, tables, handoffReport, handoff, history>>

StartNew ==
    /\ api = "stopped" /\ handed /\ ~handoff.running
    /\ api' = "new"
    /\ UNCHANGED <<now, tables, handoffReport, handoff, handed, history>>

LiveMarkers == {e \in Events : marker[e] > now}

HandoffDryRun ==
    /\ handoffReport' = IF Cardinality(LiveMarkers) <= MaxMarkers
                        THEN [taken |-> TRUE, digests |-> LiveMarkers]
                        ELSE NoHandoffReport
    /\ UNCHANGED <<now, tables, api, handoff, handed, history>>

(* The inventory of the apply, refused when it is truncated or shows a     *)
(* digest that the report does not.                                        *)
BeginApply ==
    /\ api = "stopped" /\ ~handoff.running
    /\ handoffReport.taken
    /\ Cardinality(LiveMarkers) <= MaxMarkers
    /\ LiveMarkers \subseteq handoffReport.digests
    /\ handoff' = [running |-> TRUE,
                   left |-> [e \in Events |->
                               IF e \in LiveMarkers THEN marker[e] - now ELSE 0]]
    /\ UNCHANGED <<now, tables, api, handoffReport, handed, history>>

(* Mutant of Imported: a row that expired is not replaced.                 *)
ImportedIfAbsent(e) ==
    IF handoff.left[e] > 0 /\ ledger[e] = 0
    THEN now + handoff.left[e] ELSE ledger[e]

(* One transaction; a row that has not expired stays.                      *)
Imported(e) ==
    IF handoff.left[e] > 0 /\ ledger[e] <= now
    THEN now + handoff.left[e] ELSE ledger[e]

Import ==
    /\ handoff.running
    /\ ledger' = [e \in Events |-> Imported(e)]
    /\ handoff' = NoHandoff
    /\ handed' = TRUE
    /\ UNCHANGED <<now, marker, delivery, sweep, api, handoffReport, history>>

(* The apply dies before or after its transaction, the report unwritten.   *)
LoseApply ==
    /\ handoff.running
    /\ ledger' \in {ledger, [e \in Events |-> Imported(e)]}
    /\ handoff' = NoHandoff
    /\ UNCHANGED <<now, marker, delivery, sweep, api, handoffReport, handed, history>>
-----------------------------------------------------------------------------
LedgerNext ==
    \/ Tick \/ BeginSweep \/ Sweep
    \/ StopOld \/ RestartOld \/ StartNew
    \/ HandoffDryRun \/ BeginApply \/ Import \/ LoseApply
    \/ \E e \in Events : DeliverOld(e)
    \/ \E p \in Deliveries :
        \/ RecordEvent(p) \/ LoseDelivery(p)
        \/ \E e \in Events : BeginDelivery(p, e)

LedgerSpec == LedgerInit /\ [][LedgerNext]_ledgerVars
-----------------------------------------------------------------------------
(* Rows, markers and reports keep their shape.                             *)
LedgerTypeOK ==
    /\ now \in Time
    /\ ledger \in [Events -> Expiry]
    /\ marker \in [Events -> Expiry]
    /\ delivery \in [Deliveries -> Delivery]
    /\ sweep \in Time \cup {-1}
    /\ api \in {"old", "stopped", "new"}
    /\ handoffReport \in [taken : BOOLEAN, digests : SUBSET Events]
    /\ handoff \in [running : BOOLEAN, left : [Events -> 0..TTL]]
    /\ handed \in BOOLEAN
    /\ until \in [Events -> Expiry]
    /\ repeated \subseteq Events

(* No event is accepted again before its hour has passed: not by two       *)
(* deliveries that race on one row, not after a clean-up that ran between  *)
(* the start of a delivery and its upsert, not by the new API after the    *)
(* old one accepted it.                                                    *)
AcceptedOnceAnHour == repeated = {}

(* Once the new API serves, its ledger refuses whatever Redis would have   *)
(* refused, for at least as long.                                          *)
HandoffCovers ==
    api = "new" => \A e \in Events : marker[e] > now => ledger[e] >= marker[e]
=============================================================================
