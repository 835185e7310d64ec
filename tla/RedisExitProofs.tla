-------------------------- MODULE RedisExitProofs --------------------------
(***************************************************************************)
(* Theorems about the way out of Redis: the ledger of events and its       *)
(* handoff, for any events, deliveries and hours; the removal of single    *)
(* keys, for any keys and values; the retirement of the lists of work, for *)
(* any families and values, up to what an apply of the coordinator may     *)
(* take (ReviewInv).                                                       *)
(*                                                                         *)
(* An event is accepted once an hour because, whichever version serves,    *)
(* the place where that version looks remembers each acceptance until it   *)
(* lapses (Remembers), and because, before the new API serves, a live row  *)
(* of the ledger and the marker of its event expire together (InStep).     *)
(***************************************************************************)
EXTENDS RedisExit, TLAPS, SequenceTheorems

(* The place where the version that serves looks remembers an acceptance.  *)
Remembers(e) ==
    until[e] > now =>
        IF api = "new" THEN ledger[e] >= until[e] ELSE marker[e] >= until[e]

(* Until the new API serves, only a handoff writes live rows.              *)
InStep(e) == api # "new" /\ ledger[e] > now => ledger[e] = marker[e]

(* A handoff that completed covers every marker that is still live.        *)
Covered(e) ==
    (api = "stopped" /\ handed) \/ api = "new" =>
        (marker[e] > now => ledger[e] >= marker[e])

(* What an apply has read stays so until it commits.                       *)
Fresh(e) ==
    handoff.running =>
        handoff.left[e] = IF marker[e] > now THEN marker[e] - now ELSE 0

(* A handoff is of a stopped API; transactions and clean-ups began in the  *)
(* past.                                                                   *)
Began ==
    /\ handoff.running => api = "stopped"
    /\ handed => api # "old"
    /\ sweep <= now
    /\ \A p \in Deliveries : delivery[p] # NoDelivery =>
          /\ delivery[p].event \in Events
          /\ api = "new" /\ delivery[p].stamp \in 0..now

(* The inductive invariant of the ledger.                                  *)
LedgerInv ==
    /\ LedgerTypeOK /\ Began
    /\ \A e \in Events :
          /\ marker[e] <= now + TTL
          /\ Remembers(e) /\ InStep(e) /\ Covered(e) /\ Fresh(e)
    /\ AcceptedOnceAnHour
-----------------------------------------------------------------------------
(* Nothing is accepted before anything ran.                                *)
LEMMA InitLedgerInv == LedgerInit => LedgerInv
<1> SUFFICES ASSUME LedgerInit PROVE LedgerInv
  OBVIOUS
<1> USE LedgerAssumption DEF LedgerInit
<1>1. LedgerTypeOK
  <2>1. now \in Time /\ sweep \in Time \cup {-1} /\ 0 \in Expiry /\ 0 \in 0..TTL
    BY DEF Time, Expiry
  <2>2. /\ handoff \in [running : BOOLEAN, left : [Events -> 0..TTL]]
        /\ handoffReport \in [taken : BOOLEAN, digests : SUBSET Events]
    BY <2>1 DEF NoHandoff, NoHandoffReport
  <2>3. delivery \in [Deliveries -> Delivery]
    BY DEF Delivery
  <2> QED BY <2>1, <2>2, <2>3 DEF LedgerTypeOK
<1>2. Began /\ AcceptedOnceAnHour
  BY DEF Began, AcceptedOnceAnHour, NoHandoff
<1>3. ASSUME NEW e \in Events
      PROVE  /\ marker[e] <= now + TTL
             /\ Remembers(e) /\ InStep(e) /\ Covered(e) /\ Fresh(e)
  BY DEF Remembers, InStep, Covered, Fresh, NoHandoff
<1> QED BY <1>1, <1>2, <1>3 DEF LedgerInv

(* Time only lets entries lapse.                                           *)
LEMMA TickKeeps == LedgerInv /\ Tick => LedgerInv'
  BY LedgerAssumption
     DEF Tick, LedgerInv, LedgerTypeOK, Began, Remembers, InStep, Covered, Fresh,
         AcceptedOnceAnHour, Time, Expiry, Delivery, tables, handoffVars, history

(* The old API accepts what has no live marker.                            *)
LEMMA DeliverOldKeeps ==
    ASSUME LedgerInv, NEW e \in Events, DeliverOld(e)
    PROVE  LedgerInv'
<1> USE DEF DeliverOld, Accept, handoffVars, history
<1>1. LedgerTypeOK'
  BY LedgerAssumption DEF LedgerInv, LedgerTypeOK, Time, Expiry
<1>2. Began' /\ AcceptedOnceAnHour'
  BY DEF LedgerInv, LedgerTypeOK, Began, Remembers, AcceptedOnceAnHour, Time, Expiry
<1>3. ASSUME NEW d \in Events
      PROVE  /\ marker'[d] <= now' + TTL
             /\ Remembers(d)' /\ InStep(d)' /\ Covered(d)' /\ Fresh(d)'
  BY LedgerAssumption
     DEF LedgerInv, LedgerTypeOK, Began, Remembers, InStep, Covered, Fresh, Time, Expiry
<1> QED BY <1>1, <1>2, <1>3 DEF LedgerInv

(* A delivery, or its loss, leaves every entry alone.                      *)
LEMMA DeliveryKeeps ==
    ASSUME LedgerInv, NEW p \in Deliveries,
           LoseDelivery(p) \/ \E e \in Events : BeginDelivery(p, e)
    PROVE  LedgerInv'
<1>1. /\ UNCHANGED <<now, ledger, marker, sweep, api, handoffReport, handoff, handed,
                     until, repeated>>
      /\ delivery' \in [Deliveries -> Delivery] /\ Began'
  BY DEF LedgerInv, LedgerTypeOK, Began, Time, Delivery, NoDelivery, LoseDelivery,
         BeginDelivery, handoffVars, history
<1>2. LedgerTypeOK' /\ AcceptedOnceAnHour'
  BY <1>1 DEF LedgerInv, LedgerTypeOK, AcceptedOnceAnHour
<1> QED BY <1>1, <1>2 DEF LedgerInv, Remembers, InStep, Covered, Fresh

(* The new API accepts what has no row alive when its transaction began.   *)
LEMMA RecordEventKeeps ==
    ASSUME LedgerInv, NEW p \in Deliveries, RecordEvent(p)
    PROVE  LedgerInv'
<1> DEFINE e == delivery[p].event
           stamp == delivery[p].stamp
<1>1. e \in Events /\ api = "new" /\ stamp \in Nat /\ stamp <= now /\ stamp \in Time
  BY DEF LedgerInv, LedgerTypeOK, Began, RecordEvent, Delivery, NoDelivery, Time
<1>2. /\ IF ledger[e] <= stamp
         THEN /\ ledger' = [ledger EXCEPT ![e] = stamp + TTL]
              /\ until' = [until EXCEPT ![e] = stamp + TTL]
              /\ repeated' = IF now < until[e] THEN repeated \cup {e} ELSE repeated
         ELSE UNCHANGED <<ledger, until, repeated>>
      /\ delivery' = [delivery EXCEPT ![p] = NoDelivery]
      /\ UNCHANGED <<now, marker, sweep, api, handoffReport, handoff, handed>>
  BY DEF RecordEvent, Replaceable, Accept, handoffVars, history
<1> HIDE DEF e, stamp
<1>3. LedgerTypeOK'
  BY <1>1, <1>2, LedgerAssumption DEF LedgerInv, LedgerTypeOK, Time, Expiry, Delivery
<1>4. Began' /\ AcceptedOnceAnHour'
  BY <1>1, <1>2 DEF LedgerInv, LedgerTypeOK, Began, Remembers, AcceptedOnceAnHour,
                    Time, Expiry
<1>5. ASSUME NEW d \in Events
      PROVE  /\ marker'[d] <= now' + TTL
             /\ Remembers(d)' /\ InStep(d)' /\ Covered(d)' /\ Fresh(d)'
  BY <1>1, <1>2, LedgerAssumption
     DEF LedgerInv, LedgerTypeOK, Remembers, InStep, Covered, Fresh, Time, Expiry
<1> QED BY <1>3, <1>4, <1>5 DEF LedgerInv

(* A clean-up takes only rows that have expired.                           *)
LEMMA SweepKeeps == LedgerInv /\ (BeginSweep \/ Sweep) => LedgerInv'
<1>1. ASSUME LedgerInv, BeginSweep PROVE LedgerInv'
  BY <1>1 DEF BeginSweep, LedgerInv, LedgerTypeOK, Began, Remembers, InStep, Covered,
              Fresh, AcceptedOnceAnHour, Time, handoffVars, history
<1>2. ASSUME LedgerInv, Sweep PROVE LedgerInv'
  <2>1. PICK batch \in SUBSET Expired(sweep) :
            ledger' = [e \in Events |-> IF e \in batch THEN 0 ELSE ledger[e]]
    BY <1>2 DEF Sweep
  <2>2. /\ sweep \in Nat /\ sweep <= now
        /\ \A e \in batch : ledger[e] <= now
        /\ sweep' = -1
        /\ UNCHANGED <<now, marker, delivery, api, handoffReport, handoff, handed,
                       until, repeated>>
    BY <1>2 DEF Sweep, Expired, LedgerInv, LedgerTypeOK, Began, Time, Expiry,
                handoffVars, history
  <2>3. LedgerTypeOK'
    BY <1>2, <2>1, <2>2, LedgerAssumption DEF LedgerInv, LedgerTypeOK, Time, Expiry
  <2>4. Began' /\ AcceptedOnceAnHour'
    BY <1>2, <2>2 DEF LedgerInv, LedgerTypeOK, Began, AcceptedOnceAnHour, Time
  <2>5. ASSUME NEW d \in Events
        PROVE  /\ marker'[d] <= now' + TTL
               /\ Remembers(d)' /\ InStep(d)' /\ Covered(d)' /\ Fresh(d)'
    BY <1>2, <2>1, <2>2 DEF LedgerInv, LedgerTypeOK, Remembers, InStep, Covered, Fresh,
       Time, Expiry
  <2> QED BY <2>3, <2>4, <2>5 DEF LedgerInv
<1> QED BY <1>1, <1>2

(* The old API is stopped, and may be started again; the new one starts    *)
(* only after a handoff.                                                   *)
LEMMA ServingKeeps ==
    LedgerInv /\ (StopOld \/ RestartOld \/ StartNew) => LedgerInv'
<1> SUFFICES ASSUME LedgerInv, StopOld \/ RestartOld \/ StartNew PROVE LedgerInv'
  OBVIOUS
<1>1. /\ UNCHANGED <<now, ledger, marker, delivery, sweep, handoffReport, handoff,
                     until, repeated>>
      /\ api \in {"old", "stopped"} /\ api' \in {"old", "stopped", "new"}
      /\ handed' \in BOOLEAN
      /\ handoff.running => api' = "stopped"
      /\ api' = "new" => api = "stopped" /\ handed
      /\ handed' => api' # "old" /\ handed /\ api = "stopped"
  <2>1. /\ handed \in BOOLEAN /\ (handed => api # "old")
        /\ (handoff.running => api = "stopped")
    BY DEF LedgerInv, LedgerTypeOK, Began
  <2>2. CASE StopOld
    BY <2>1, <2>2 DEF StopOld, tables, history
  <2>3. CASE RestartOld
    BY <2>1, <2>3 DEF RestartOld, tables, history
  <2>4. CASE StartNew
    BY <2>1, <2>4 DEF StartNew, tables, history
  <2> QED BY <2>2, <2>3, <2>4
<1>2. LedgerTypeOK' /\ AcceptedOnceAnHour'
  BY <1>1 DEF LedgerInv, LedgerTypeOK, AcceptedOnceAnHour
<1>3. Began'
  BY <1>1 DEF LedgerInv, LedgerTypeOK, Began
<1>4. ASSUME NEW e \in Events
      PROVE  /\ marker'[e] <= now' + TTL
             /\ Remembers(e)' /\ InStep(e)' /\ Covered(e)' /\ Fresh(e)'
  <2>1. /\ now \in Int /\ until[e] \in Int /\ marker[e] \in Int /\ ledger[e] \in Int
        /\ Remembers(e) /\ InStep(e) /\ Covered(e) /\ Fresh(e) /\ marker[e] <= now + TTL
    BY DEF LedgerInv, LedgerTypeOK, Time, Expiry
  <2>2. Covered(e)'
    BY <1>1, <2>1 DEF Covered
  <2>3. Remembers(e)'
    BY <1>1, <2>1 DEF Remembers, Covered
  <2> QED BY <1>1, <2>1, <2>2, <2>3 DEF InStep, Fresh
<1> QED BY <1>2, <1>3, <1>4 DEF LedgerInv

(* A report changes nothing, and an apply begins with what Redis says.     *)
LEMMA InventoryKeeps == LedgerInv /\ (HandoffDryRun \/ BeginApply) => LedgerInv'
<1>1. ASSUME LedgerInv, HandoffDryRun PROVE LedgerInv'
  <2>1. /\ UNCHANGED <<now, ledger, marker, delivery, sweep, api, handoff, handed,
                       until, repeated>>
        /\ handoffReport' \in [taken : BOOLEAN, digests : SUBSET Events]
    BY <1>1 DEF HandoffDryRun, LiveMarkers, NoHandoffReport, tables, history
  <2> QED BY <1>1, <2>1 DEF LedgerInv, LedgerTypeOK, Began, AcceptedOnceAnHour,
                            Remembers, InStep, Covered, Fresh
<1>2. ASSUME LedgerInv, BeginApply PROVE LedgerInv'
  <2>1. /\ UNCHANGED <<now, ledger, marker, delivery, sweep, api, handoffReport, handed,
                       until, repeated>>
        /\ api = "stopped"
        /\ handoff' = [running |-> TRUE,
                       left |-> [e \in Events |->
                                  IF marker[e] > now THEN marker[e] - now ELSE 0]]
    BY <1>2 DEF BeginApply, LiveMarkers, tables, history
  <2>2. handoff' \in [running : BOOLEAN, left : [Events -> 0..TTL]]
    BY <1>2, <2>1, LedgerAssumption DEF LedgerInv, LedgerTypeOK, Time, Expiry
  <2>3. \A e \in Events : Fresh(e)'
    BY <2>1 DEF Fresh
  <2>4. LedgerTypeOK' /\ Began' /\ AcceptedOnceAnHour'
    BY <1>2, <2>1, <2>2 DEF LedgerInv, LedgerTypeOK, Began, AcceptedOnceAnHour
  <2> QED BY <1>2, <2>1, <2>3, <2>4 DEF LedgerInv, Remembers, InStep, Covered
<1> QED BY <1>1, <1>2

(* An import makes every live marker a row that expires with it.           *)
LEMMA ImportKeeps == LedgerInv /\ (Import \/ LoseApply) => LedgerInv'
<1> SUFFICES ASSUME LedgerInv, Import \/ LoseApply PROVE LedgerInv'
  OBVIOUS
<1>1. /\ UNCHANGED <<now, marker, delivery, sweep, api, handoffReport, until, repeated>>
      /\ handoff.running /\ handoff' = NoHandoff /\ handed' \in BOOLEAN
      /\ \/ ledger' = [e \in Events |-> Imported(e)]
         \/ ledger' = ledger /\ handed' = handed
      /\ api = "stopped"
  BY DEF Import, LoseApply, history, LedgerInv, LedgerTypeOK, Began
<1>2. ASSUME NEW e \in Events, ledger' = [d \in Events |-> Imported(d)]
      PROVE  /\ ledger'[e] \in Expiry
             /\ ledger'[e] = IF marker[e] > now /\ ledger[e] <= now
                             THEN marker[e] ELSE ledger[e]
  BY <1>1, <1>2, LedgerAssumption
     DEF Imported, LedgerInv, LedgerTypeOK, Fresh, Time, Expiry
<1>3. LedgerTypeOK'
  BY <1>1, <1>2, LedgerAssumption DEF LedgerInv, LedgerTypeOK, NoHandoff
<1>4. Began' /\ AcceptedOnceAnHour'
  BY <1>1 DEF LedgerInv, Began, AcceptedOnceAnHour, NoHandoff
<1>5. ASSUME NEW e \in Events
      PROVE  /\ marker'[e] <= now' + TTL
             /\ Remembers(e)' /\ InStep(e)' /\ Covered(e)' /\ Fresh(e)'
  BY <1>1, <1>2 DEF LedgerInv, LedgerTypeOK, Remembers, InStep, Covered, Fresh,
                    NoHandoff, Time, Expiry
<1> QED BY <1>3, <1>4, <1>5 DEF LedgerInv

LEMMA LedgerNextKeeps == LedgerInv /\ [LedgerNext]_ledgerVars => LedgerInv'
<1>1. ASSUME LedgerInv, UNCHANGED ledgerVars PROVE LedgerInv'
  BY <1>1 DEF ledgerVars, tables, handoffVars, history, LedgerInv, LedgerTypeOK, Began,
              AcceptedOnceAnHour, Remembers, InStep, Covered, Fresh
<1> QED BY <1>1, TickKeeps, DeliverOldKeeps, DeliveryKeeps, RecordEventKeeps, SweepKeeps,
           ServingKeeps, InventoryKeeps, ImportKeeps DEF LedgerNext

(* Of the three procedures only the handoff touches the ledger.            *)
LEMMA ExitKeepsLedger == LedgerInv /\ [ExitNext]_exitVars => LedgerInv'
<1>1. [ExitNext]_exitVars => [LedgerNext]_ledgerVars
  BY DEF ExitNext, RetireLists, RetireKeys, HandOverEvents, exitVars
<1> QED BY <1>1, LedgerNextKeeps

(* Rows, markers and reports of the ledger keep their shape.               *)
THEOREM LedgerTypeCorrect == LedgerSpec => []LedgerTypeOK
<1>1. LedgerInv => LedgerTypeOK
  BY DEF LedgerInv
<1> QED BY <1>1, InitLedgerInv, LedgerNextKeeps, PTL DEF LedgerSpec

(* No event is accepted again before its hour has passed, whichever        *)
(* deliveries race, clean-ups run and versions of the API serve.           *)
THEOREM OnceAnHour == ExitSpec => []AcceptedOnceAnHour
<1>1. LedgerInv => AcceptedOnceAnHour
  BY DEF LedgerInv
<1>2. ExitInit => LedgerInv
  BY InitLedgerInv DEF ExitInit
<1> QED BY <1>1, <1>2, ExitKeepsLedger, PTL DEF ExitSpec

(* Once the new API serves, its ledger refuses whatever Redis would have   *)
(* refused, for at least as long.                                          *)
THEOREM Handoff == ExitSpec => []HandoffCovers
<1>1. LedgerInv => HandoffCovers
  BY DEF LedgerInv, Covered, HandoffCovers
<1>2. ExitInit => LedgerInv
  BY InitLedgerInv DEF ExitInit
<1> QED BY <1>1, <1>2, ExitKeepsLedger, PTL DEF ExitSpec
-----------------------------------------------------------------------------
(* The single keys.  An entry names a key and, of a view, its value.       *)
KeysOf(kind) == UNION PatternsOf(kind)

(* The results among some entries are in PostgreSQL.                       *)
AreDurable(entries) ==
    \A k \in ResultKeys, v \in Payloads \ Unreadable :
        <<k, v>> \in entries => v \in durable[k]

(* A command has read each key of its kind, and knows what is not durable. *)
HasRead ==
    /\ keyOp.cmd # "none" => keyOp.kind \in Kinds
    /\ keyOp.cmd = "none" => keyOp = KeyIdle
    /\ keyOp.step \in {"none", "scan"} =>
          keyOp.entries = {} /\ keyOp.removed = {} /\ ~keyOp.unmatched
    /\ keyOp.step = "read" => keyOp.removed = {}
    /\ keyOp.step \in {"read", "delete"} =>
          /\ keyOp.cmd # "none" /\ keyOp.todo \subseteq KeysOf(keyOp.kind)
          /\ \A entry \in keyOp.entries :
                /\ entry[1] \in KeysOf(keyOp.kind)
                /\ entry[1] \in OrphanKeys => entry[2] = None
          /\ ~keyOp.unmatched => AreDurable(keyOp.entries)

(* A report whose results all have a row is of results that have one.      *)
ReportsHold ==
    \A kind \in Kinds :
        ~keyReport[kind].unmatched => AreDurable(keyReport[kind].entries)

(* While an apply runs nobody writes, so what it read is still there or    *)
(* gone; what it deletes was reviewed.                                     *)
AppliesReviewed ==
    keyOp.cmd = "apply" =>
        /\ ~producing
        /\ keyOp.kind = "view" => ~keyReport["view"].unmatched
        /\ keyOp.step \in {"read", "delete"} =>
              \A entry \in keyOp.entries :
                  entry[1] \notin OrphanKeys => store[entry[1]] \in {entry[2], None}

DeletesReviewed ==
    keyOp.step = "delete" =>
        /\ keyOp.cmd = "apply" /\ Reviewed
        /\ keyOp.todo \subseteq {entry[1] : entry \in keyOp.entries}

(* The inductive invariant of the keys.                                    *)
KeyInv ==
    /\ KeyTypeOK /\ HasRead /\ ReportsHold /\ AppliesReviewed /\ DeletesReviewed
    /\ ErasedResultsDurable /\ ErasedWereReviewed

(* A key is of one pattern.                                                *)
LEMMA KindsApart ==
    /\ KeysOf("view") = ResultKeys \cup StatusKeys
    /\ KeysOf("orphan") = OrphanKeys
    /\ Keys = ResultKeys \cup StatusKeys \cup OrphanKeys
    /\ \A k \in ResultKeys \cup StatusKeys : k \notin OrphanKeys
  BY KeyAssumption DEF KeysOf, PatternsOf, Keys

(* Nothing is read or deleted at first.                                    *)
LEMMA InitKeyInv == KeyInit => KeyInv
<1> SUFFICES ASSUME KeyInit PROVE KeyInv
  OBVIOUS
<1> USE DEF KeyInit
<1>1. KeyTypeOK
  <2>1. /\ NoKeyReport \in [mode : {"none", "dry-run"}, entries : SUBSET (Keys \X Value),
                            unmatched : BOOLEAN, observed : BOOLEAN]
        /\ store \in [Keys -> Value] /\ durable \in [ResultKeys -> SUBSET Payloads]
        /\ writes \in 0..MaxWrites /\ producing \in BOOLEAN
    BY KeyAssumption DEF NoKeyReport, Value
  <2> QED BY <2>1 DEF KeyTypeOK, KeyIdle
<1>2. ReportsHold
  BY DEF ReportsHold, AreDurable, NoKeyReport
<1>3. HasRead /\ AppliesReviewed /\ DeletesReviewed
  BY DEF HasRead, AppliesReviewed, DeletesReviewed, KeyIdle
<1>4. ErasedResultsDurable /\ ErasedWereReviewed
  BY DEF ErasedResultsDurable, ErasedWereReviewed, KeyIdle
<1> QED BY <1>1, <1>2, <1>3, <1>4 DEF KeyInv

(* The world outside: what is durable stays so, and during an apply keys   *)
(* only expire.                                                            *)
Outside ==
    /\ UNCHANGED <<keyReport, keyOp, erased>>
    /\ store' \in [Keys -> Value] /\ durable' \in [ResultKeys -> SUBSET Payloads]
    /\ writes' \in 0..MaxWrites /\ producing' \in BOOLEAN
    /\ \A k \in ResultKeys : durable[k] \subseteq durable'[k]
    /\ ~producing /\ keyOp.cmd = "apply" =>
          ~producing' /\ \A k \in Keys : store'[k] \in {store[k], None}

LEMMA OutsideKeeps == KeyInv /\ Outside => KeyInv'
<1> SUFFICES ASSUME KeyInv, Outside PROVE KeyInv'
  OBVIOUS
<1> USE DEF Outside
<1>1. KeyTypeOK' /\ DeletesReviewed' /\ ErasedWereReviewed'
  BY DEF KeyInv, KeyTypeOK, DeletesReviewed, ErasedWereReviewed, Reviewed
<1>2. HasRead' /\ ReportsHold' /\ ErasedResultsDurable'
  BY DEF KeyInv, HasRead, ReportsHold, ErasedResultsDurable, AreDurable
<1>3. AppliesReviewed'
  <2> SUFFICES ASSUME keyOp.cmd = "apply", keyOp.step \in {"read", "delete"},
                      NEW entry \in keyOp.entries, entry[1] \notin OrphanKeys
               PROVE  store'[entry[1]] \in {entry[2], None}
    BY DEF KeyInv, AppliesReviewed
  <2>1. ~producing /\ store[entry[1]] \in {entry[2], None} /\ entry[1] \in Keys
    BY DEF KeyInv, AppliesReviewed, KeyTypeOK
  <2> QED BY <2>1
<1> QED BY <1>1, <1>2, <1>3 DEF KeyInv

LEMMA WorldKeeps ==
    ASSUME KeyInv, ~ProducersDuringApply,
           \/ SwitchProducers
           \/ \E k \in Keys : Expire(k) \/ \E v \in Payloads : Produce(k, v)
           \/ \E k \in ResultKeys, v \in Payloads \ Unreadable : Persist(k, v)
    PROVE  KeyInv'
<1>1. /\ store \in [Keys -> Value] /\ durable \in [ResultKeys -> SUBSET Payloads]
      /\ writes \in 0..MaxWrites /\ producing \in BOOLEAN /\ MaxWrites \in Nat
  BY KeyAssumption DEF KeyInv, KeyTypeOK
<1>2. CASE SwitchProducers
  BY <1>1, <1>2, OutsideKeeps DEF SwitchProducers, Outside
<1>3. ASSUME NEW k \in Keys, Expire(k) PROVE KeyInv'
  BY <1>1, <1>3, OutsideKeeps DEF Expire, Outside, Value
<1>4. ASSUME NEW k \in Keys, NEW v \in Payloads, Produce(k, v) PROVE KeyInv'
  BY <1>1, <1>4, OutsideKeeps DEF Produce, Outside, Value
<1>5. ASSUME NEW k \in ResultKeys, NEW v \in Payloads \ Unreadable, Persist(k, v)
      PROVE  KeyInv'
  BY <1>1, <1>5, OutsideKeeps DEF Persist, Outside
<1> QED BY <1>2, <1>3, <1>4, <1>5

(* A command that ends has read and deleted nothing.                       *)
LEMMA IdleKeeps ==
    ASSUME KeyInv, keyOp' = KeyIdle,
           UNCHANGED <<store, durable, producing, writes, keyReport, erased>>
    PROVE  KeyInv'
  BY DEF KeyInv, KeyTypeOK, HasRead, ReportsHold, AppliesReviewed,
     DeletesReviewed, ErasedResultsDurable, ErasedWereReviewed, AreDurable, KeyIdle

(* So has one that begins.                                                 *)
LEMMA CommandsKeep ==
    ASSUME KeyInv, ~ProducersDuringApply,
           \/ \E kind \in Kinds : KeyDryRun(kind) \/ KeyApply(kind)
           \/ FinishKeys \/ InterruptKeys \/ Observe
    PROVE  KeyInv'
<1>1. ASSUME NEW kind \in Kinds, KeyDryRun(kind) PROVE KeyInv'
  BY <1>1 DEF KeyDryRun, world, KeyInv, KeyTypeOK, HasRead, ReportsHold, AppliesReviewed,
     DeletesReviewed, ErasedResultsDurable, ErasedWereReviewed, AreDurable, KeyIdle
<1>2. ASSUME NEW kind \in Kinds, KeyApply(kind) PROVE KeyInv'
  BY <1>2 DEF KeyApply, ViewReportUsable, world, KeyInv, KeyTypeOK, HasRead, ReportsHold,
     AppliesReviewed, DeletesReviewed, ErasedResultsDurable, ErasedWereReviewed,
     AreDurable, KeyIdle
<1>3. ASSUME FinishKeys \/ InterruptKeys PROVE KeyInv'
  BY <1>3, IdleKeeps DEF FinishKeys, InterruptKeys, world
<1>4. ASSUME Observe PROVE KeyInv'
  <2>1. /\ keyReport' \in [Kinds -> [mode : {"none", "dry-run"},
                             entries : SUBSET (Keys \X Value),
                             unmatched : BOOLEAN, observed : BOOLEAN]]
        /\ \A kind \in Kinds : /\ keyReport'[kind].entries = keyReport[kind].entries
                               /\ keyReport'[kind].unmatched = keyReport[kind].unmatched
        /\ UNCHANGED <<store, durable, producing, writes, keyOp, erased>>
    <3>1. UNCHANGED <<store, durable, producing, writes, keyOp, erased>>
      BY <1>4 DEF Observe, world
    <3> DEFINE r == [keyReport["view"] EXCEPT !.observed = TRUE]
    <3>2. keyReport' = [keyReport EXCEPT !["view"] = r]
      BY <1>4 DEF Observe
    <3>3. keyReport \in [Kinds -> [mode : {"none", "dry-run"},
                               entries : SUBSET (Keys \X Value),
                               unmatched : BOOLEAN, observed : BOOLEAN]]
          /\ "view" \in Kinds
      BY DEF KeyInv, KeyTypeOK, Kinds
    <3>4. /\ r \in [mode : {"none", "dry-run"}, entries : SUBSET (Keys \X Value),
                   unmatched : BOOLEAN, observed : BOOLEAN]
          /\ r.entries = keyReport["view"].entries
          /\ r.unmatched = keyReport["view"].unmatched
      BY <3>3
    <3> HIDE DEF r
    <3> QED BY <3>1, <3>2, <3>3, <3>4
  <2>2. KeyTypeOK' /\ HasRead' /\ ErasedResultsDurable'
    BY <2>1 DEF KeyInv, KeyTypeOK, HasRead, ErasedResultsDurable, AreDurable
  <2>3. ReportsHold'
    BY <2>1 DEF KeyInv, ReportsHold, AreDurable
  <2>4. AppliesReviewed'
    BY <2>1 DEF KeyInv, AppliesReviewed, Kinds
  <2>5. ErasedWereReviewed'
    <3>1. keyOp.kind \in Kinds \/ keyOp.removed = {}
      BY DEF KeyInv, HasRead, KeyIdle
    <3> QED BY <2>1, <3>1 DEF KeyInv, ErasedWereReviewed
  <2>6. DeletesReviewed'
    <3>1. keyOp.step = "delete" => keyOp.kind \in Kinds
      BY DEF KeyInv, HasRead
    <3> QED BY <2>1, <3>1 DEF KeyInv, DeletesReviewed, Reviewed, Kinds
  <2> QED BY <2>2, <2>3, <2>4, <2>5, <2>6 DEF KeyInv
<1> QED BY <1>1, <1>2, <1>3, <1>4

(* A scan names keys of its patterns only.                                 *)
LEMMA ScanKeeps == KeyInv /\ ScanKeys => KeyInv'
<1> SUFFICES ASSUME KeyInv, ScanKeys PROVE KeyInv'
  OBVIOUS
<1> DEFINE found == UNION {Present(p) : p \in PatternsOf(keyOp.kind)}
<1>1. /\ keyOp.step = "scan"
      /\ keyOp' = [keyOp EXCEPT !.step = "read", !.todo = found] \/ keyOp' = KeyIdle
      /\ UNCHANGED <<store, durable, producing, writes, keyReport, erased>>
  BY DEF ScanKeys, world
<1>2. found \subseteq KeysOf(keyOp.kind) /\ found \subseteq Keys /\ keyOp.cmd # "none"
  BY <1>1 DEF Present, KeysOf, PatternsOf, Keys, KeyInv, HasRead, KeyIdle, Kinds
<1> HIDE DEF found
<1>3. CASE keyOp' = [keyOp EXCEPT !.step = "read", !.todo = found]
  <2>1. /\ keyOp'.cmd = keyOp.cmd /\ keyOp'.kind = keyOp.kind /\ keyOp'.step = "read"
        /\ keyOp'.todo = found /\ keyOp'.entries = {} /\ keyOp'.removed = {}
        /\ ~keyOp'.unmatched
    BY <1>1, <1>3 DEF KeyInv, KeyTypeOK, HasRead
  <2>2. KeyTypeOK'
    BY <1>1, <1>2, <1>3 DEF KeyInv, KeyTypeOK
  <2>3. HasRead'
    BY <1>1, <1>2, <2>1 DEF KeyInv, HasRead, AreDurable
  <2>4. ReportsHold' /\ AppliesReviewed' /\ DeletesReviewed'
    BY <1>1, <2>1 DEF KeyInv, ReportsHold, AppliesReviewed, DeletesReviewed, AreDurable
  <2>5. ErasedResultsDurable' /\ ErasedWereReviewed'
    BY <1>1, <2>1 DEF KeyInv, ErasedResultsDurable, ErasedWereReviewed
  <2> QED BY <2>2, <2>3, <2>4, <2>5 DEF KeyInv
<1> QED BY <1>1, <1>3, IdleKeeps

(* A key that is read is there, was replaced before, or is gone.           *)
LEMMA ReadKeyKeeps ==
    ASSUME KeyInv, NEW k \in Keys, ReadKey(k)
    PROVE  KeyInv'
<1> DEFINE new == Entry(k, store[k])
<1>1. /\ keyOp.step = "read" /\ k \in keyOp.todo
      /\ keyOp'.cmd = keyOp.cmd /\ keyOp'.kind = keyOp.kind /\ keyOp'.step = "read"
      /\ keyOp'.todo = keyOp.todo \ {k} /\ keyOp'.entries = keyOp.entries \cup {new}
      /\ keyOp'.removed = keyOp.removed
      /\ keyOp'.unmatched = (keyOp.unmatched \/ UnmatchedResult(k, store[k]))
      /\ UNCHANGED <<store, durable, producing, writes, keyReport, erased>>
  BY DEF ReadKey, world, KeyInv, KeyTypeOK
<1>2. /\ new \in Keys \X Value /\ new[1] = k
      /\ new[2] = IF k \in OrphanKeys THEN None ELSE store[k]
  BY DEF Entry, KeyEntry, ViewEntry, KeyInv, KeyTypeOK, Value
<1> HIDE DEF new
<1>3. keyOp' \in [cmd : {"none", "dry", "apply"}, kind : Kinds \cup {"none"},
                 step : {"none", "scan", "read", "delete"}, todo : SUBSET Keys,
                 entries : SUBSET (Keys \X Value), unmatched : BOOLEAN,
                 removed : SUBSET (Keys \X Value)]
  BY <1>2 DEF ReadKey, KeyInv, KeyTypeOK, UnmatchedResult, new
<1>4. KeyTypeOK'
  BY <1>1, <1>3 DEF KeyInv, KeyTypeOK
<1>5. ~keyOp'.unmatched => AreDurable(keyOp.entries)'
  <2> SUFFICES ASSUME ~keyOp'.unmatched, NEW j \in ResultKeys,
                      NEW v \in Payloads \ Unreadable, <<j, v>> \in keyOp'.entries
               PROVE  v \in durable[j]
    BY <1>1 DEF AreDurable
  <2>1. CASE <<j, v>> \in keyOp.entries
    BY <1>1, <2>1 DEF KeyInv, HasRead, AreDurable
  <2>2. CASE <<j, v>> = new
    <3>1. j = k /\ v = store[k] /\ k \in ResultKeys
      BY <1>2, <2>2, KindsApart
    <3> QED BY <1>1, <3>1 DEF UnmatchedResult
  <2> QED BY <1>1, <2>1, <2>2
<1>6. HasRead'
  BY <1>1, <1>2, <1>5 DEF KeyInv, HasRead
<1>7. AppliesReviewed'
  BY <1>1, <1>2 DEF KeyInv, AppliesReviewed
<1>8. ReportsHold' /\ DeletesReviewed' /\ ErasedResultsDurable' /\ ErasedWereReviewed'
  BY <1>1 DEF KeyInv, ReportsHold, DeletesReviewed, ErasedResultsDurable,
              ErasedWereReviewed, AreDurable
<1> QED BY <1>4, <1>6, <1>7, <1>8 DEF KeyInv

(* The report is what was read.                                            *)
LEMMA WriteKeyReportKeeps == KeyInv /\ WriteKeyReport => KeyInv'
<1> SUFFICES ASSUME KeyInv, WriteKeyReport PROVE KeyInv'
  OBVIOUS
<1>1. /\ keyOp.step = "read" /\ keyOp.kind \in Kinds /\ keyOp' = KeyIdle
      /\ keyReport' = [keyReport EXCEPT ![keyOp.kind] =
                         [mode |-> "dry-run", entries |-> keyOp.entries,
                          unmatched |-> keyOp.unmatched, observed |-> FALSE]]
      /\ UNCHANGED <<store, durable, producing, writes, erased>>
  BY DEF WriteKeyReport, world, KeyInv, HasRead
<1>2. KeyTypeOK'
  BY <1>1 DEF KeyInv, KeyTypeOK, KeyIdle
<1>3. ReportsHold'
  BY <1>1 DEF KeyInv, KeyTypeOK, ReportsHold, HasRead, AreDurable
<1>4. HasRead' /\ AppliesReviewed' /\ DeletesReviewed' /\ ErasedWereReviewed'
  BY <1>1 DEF HasRead, AppliesReviewed, DeletesReviewed, ErasedWereReviewed, KeyIdle
<1>5. ErasedResultsDurable'
  BY <1>1 DEF KeyInv, ErasedResultsDurable
<1> QED BY <1>2, <1>3, <1>4, <1>5 DEF KeyInv

(* Only what was reviewed is deleted.                                      *)
LEMMA CheckKeysKeeps == KeyInv /\ CheckKeys => KeyInv'
<1> SUFFICES ASSUME KeyInv, CheckKeys PROVE KeyInv'
  OBVIOUS
<1>1. CASE keyOp' = KeyIdle
  BY <1>1, IdleKeeps DEF CheckKeys, world
<1>2. CASE keyOp' # KeyIdle
  <2> DEFINE named == {entry[1] : entry \in keyOp.entries}
  <2>1. /\ keyOp' = [keyOp EXCEPT !.step = "delete", !.todo = named] /\ Reviewed
        /\ keyOp.cmd = "apply" /\ keyOp.step = "read"
        /\ UNCHANGED <<store, durable, producing, writes, keyReport, erased>>
    BY <1>2 DEF CheckKeys, world
  <2>2. named \subseteq Keys /\ named \subseteq KeysOf(keyOp.kind)
    BY <2>1 DEF KeyInv, KeyTypeOK, HasRead
  <2>3. /\ keyOp'.cmd = "apply" /\ keyOp'.kind = keyOp.kind /\ keyOp'.step = "delete"
        /\ keyOp'.todo = named /\ keyOp'.entries = keyOp.entries
        /\ keyOp'.removed = keyOp.removed /\ keyOp'.unmatched = keyOp.unmatched
    BY <2>1 DEF KeyInv, KeyTypeOK
  <2>4. KeyTypeOK'
    BY <2>1, <2>2 DEF KeyInv, KeyTypeOK
  <2>5. DeletesReviewed'
    BY <2>1, <2>3 DEF DeletesReviewed, Reviewed
  <2> HIDE DEF named
  <2>6. HasRead' /\ ReportsHold'
    BY <2>1, <2>2, <2>3 DEF KeyInv, HasRead, ReportsHold, AreDurable
  <2>7. AppliesReviewed' /\ ErasedResultsDurable' /\ ErasedWereReviewed'
    BY <2>1, <2>3 DEF KeyInv, AppliesReviewed, ErasedResultsDurable, ErasedWereReviewed
  <2> QED BY <2>4, <2>5, <2>6, <2>7 DEF KeyInv
<1> QED BY <1>1, <1>2

(* What is deleted is what was read, or was gone.                          *)
LEMMA DeleteKeyKeeps ==
    ASSUME KeyInv, NEW k \in Keys, DeleteKey(k)
    PROVE  KeyInv'
<1> DEFINE gone == IF store[k] = None THEN {} ELSE {<<k, store[k]>>}
<1>1. /\ keyOp.step = "delete" /\ k \in keyOp.todo
      /\ store' = [store EXCEPT ![k] = None] /\ erased' = erased \cup gone
      /\ keyOp' = [keyOp EXCEPT !.todo = @ \ {k}, !.removed = @ \cup gone]
      /\ UNCHANGED <<durable, producing, writes, keyReport>>
  BY DEF DeleteKey
<1>2. /\ keyOp'.cmd = keyOp.cmd /\ keyOp'.kind = keyOp.kind /\ keyOp'.step = "delete"
      /\ keyOp'.todo = keyOp.todo \ {k} /\ keyOp'.entries = keyOp.entries
      /\ keyOp'.removed = keyOp.removed \cup gone
      /\ keyOp'.unmatched = keyOp.unmatched
  BY <1>1 DEF KeyInv, KeyTypeOK
<1>3. gone \subseteq Keys \X Value /\ store[k] \in Value
  BY DEF KeyInv, KeyTypeOK
<1>4. PICK entry \in keyOp.entries : entry[1] = k
  BY <1>1 DEF KeyInv, DeletesReviewed
<1>5. /\ keyOp.cmd = "apply" /\ entry \in keyReport[keyOp.kind].entries
      /\ keyOp.kind \in Kinds /\ k \in KeysOf(keyOp.kind)
      /\ entry = <<k, entry[2]>>
      /\ k \in OrphanKeys => entry[2] = None
      /\ k \notin OrphanKeys => store[k] \in {entry[2], None} /\ keyOp.kind = "view"
  BY <1>1, <1>4, KindsApart
     DEF KeyInv, KeyTypeOK, DeletesReviewed, HasRead, AppliesReviewed, Reviewed, Kinds
<1>6. \A g \in gone : Entry(g[1], g[2]) \in keyReport[keyOp.kind].entries
  BY <1>5 DEF Entry, KeyEntry, ViewEntry
<1>7. \A j \in ResultKeys, v \in Payloads \ Unreadable :
          <<j, v>> \in gone => v \in durable[j]
  <2> SUFFICES ASSUME NEW v \in Payloads \ Unreadable, k \in ResultKeys,
                      v = store[k], v # None
               PROVE  v \in durable[k]
    OBVIOUS
  <2>1. keyOp.kind = "view" /\ <<k, v>> \in keyReport["view"].entries
    BY <1>5, KindsApart
  <2>2. ~keyReport["view"].unmatched
    BY <1>5, <2>1 DEF KeyInv, AppliesReviewed
  <2> QED BY <2>1, <2>2 DEF KeyInv, ReportsHold, AreDurable, Kinds
<1> HIDE DEF gone
<1>8. KeyTypeOK'
  BY <1>1, <1>3 DEF KeyInv, KeyTypeOK, Value
<1>9. HasRead' /\ ReportsHold'
  BY <1>1, <1>2 DEF KeyInv, HasRead, ReportsHold, AreDurable
<1>10. AppliesReviewed'
  BY <1>1, <1>2 DEF KeyInv, KeyTypeOK, AppliesReviewed
<1>11. DeletesReviewed' /\ ErasedResultsDurable'
  BY <1>1, <1>2, <1>7 DEF KeyInv, DeletesReviewed, Reviewed, ErasedResultsDurable
<1>12. ErasedWereReviewed'
  BY <1>1, <1>2, <1>6 DEF KeyInv, ErasedWereReviewed
<1> QED BY <1>8, <1>9, <1>10, <1>11, <1>12 DEF KeyInv

(* A system that stops its old producers keeps the invariant.              *)
LEMMA ExitKeepsKeys ==
    ASSUME ~ProducersDuringApply
    PROVE  KeyInv /\ [ExitNext]_exitVars => KeyInv'
<1>1. [ExitNext]_exitVars => [KeyNext]_keyVars
  BY DEF ExitNext, RetireLists, RetireKeys, HandOverEvents, exitVars
<1>2. ASSUME KeyInv, UNCHANGED keyVars PROVE KeyInv'
  BY <1>2 DEF keyVars, world, KeyInv, KeyTypeOK, HasRead, ReportsHold, AppliesReviewed,
     DeletesReviewed, Reviewed, ErasedResultsDurable, ErasedWereReviewed, AreDurable
<1> QED BY <1>1, <1>2, WorldKeeps, CommandsKeep, ScanKeeps, ReadKeyKeeps,
           WriteKeyReportKeeps, CheckKeysKeeps, DeleteKeyKeeps DEF KeyNext

(* With the old producers stopped no legible result is deleted from Redis  *)
(* before PostgreSQL holds it.                                             *)
THEOREM ResultsDurable ==
    ASSUME ~ProducersDuringApply
    PROVE  ExitSpec => []ErasedResultsDurable
<1>1. KeyInv => ErasedResultsDurable
  BY DEF KeyInv
<1>2. ExitInit => KeyInv
  BY InitKeyInv DEF ExitInit
<1> QED BY <1>1, <1>2, ExitKeepsKeys, PTL DEF ExitSpec

(* With the old producers stopped what an apply deletes was reviewed.      *)
THEOREM DeletedWereReviewed ==
    ASSUME ~ProducersDuringApply
    PROVE  ExitSpec => []ErasedWereReviewed
<1>1. KeyInv => ErasedWereReviewed
  BY DEF KeyInv
<1>2. ExitInit => KeyInv
  BY InitKeyInv DEF ExitInit
<1> QED BY <1>1, <1>2, ExitKeepsKeys, PTL DEF ExitSpec
-----------------------------------------------------------------------------
(* The lists of work.  What a command plans to remove names a row, and a   *)
(* row never goes.                                                         *)
Counts == [Families -> [Lists -> Bag]]

Planned ==
    /\ op.plan \in [Lists -> Bag]
    /\ \A q \in Lists, v \in Values :
          op.plan[q][v] > 0 => op.fam \in Families /\ row[op.fam][v] # "absent"

(* The fields of a command.                                                *)
IsCommand ==
    op = [cmd |-> op.cmd, step |-> op.step, fam |-> op.fam, left |-> op.left,
          total |-> op.total, inv |-> op.inv, plan |-> op.plan,
          retry |-> op.retry, removed |-> op.removed]

(* A removal inventories its own family only, an apply compares first.     *)
OwnFamily ==
    /\ op.cmd \in {"typed", "alone", "apply"} => op.fam \in Families
    /\ op.cmd \in {"typed", "alone"} /\ op.step \in {"count", "read"} =>
          op.left = <<op.fam>>
    /\ op.step = "compare" => op.cmd = "apply"

(* The inductive invariant of the lists.                                   *)
ListInv ==
    /\ list \in Counts /\ owed \in Counts
    /\ row \in [Families -> [Values -> Status]]
    /\ IsCommand /\ Planned /\ OwnFamily
    /\ \A f \in Families, q \in Lists, v \in Values :
          list[f][q][v] <= owed[f][q][v]
    /\ EvidenceKept

LEMMA InitListInv == Init => ListInv
<1> SUFFICES ASSUME Init PROVE ListInv
  OBVIOUS
<1> USE RetirementAssumption DEF Init
<1>1. /\ list \in Counts /\ owed \in Counts
      /\ row \in [Families -> [Values -> Status]]
      /\ \A f \in Families, q \in Lists, v \in Values :
            list[f][q][v] <= owed[f][q][v]
  BY DEF Counts, Status, Bag
<1>2. IsCommand /\ Planned /\ OwnFamily
  BY DEF IsCommand, Planned, OwnFamily, Idle, Nothing, Bag
<1>3. EvidenceKept
  BY DEF EvidenceKept
<1> QED BY <1>1, <1>2, <1>3 DEF ListInv

(* Pushes and pops count on both sides, and rows never go.                 *)
LEMMA ApplicationKeeps == ListInv /\ Application => ListInv'
<1> SUFFICES ASSUME ListInv, Application PROVE ListInv'
  OBVIOUS
<1>1. ASSUME NEW f \in Families, NEW v \in Values, NEW q \in Lists,
             Push(f, q, v) \/ (q = "queue" /\ Consume(f, v))
      PROVE  ListInv'
  <2>1. /\ list \in Counts /\ owed \in Counts /\ list[f][q][v] <= owed[f][q][v]
        /\ list[f][q][v] \in Nat /\ owed[f][q][v] \in Nat
    BY DEF ListInv, Counts, Bag
  <2>2. UNCHANGED <<row, op>>
    BY <1>1 DEF Push, Consume
  <2>3. (row \in [Families -> [Values -> Status]] /\ IsCommand /\ Planned /\ OwnFamily)'
    BY <2>2 DEF ListInv, IsCommand, Planned, OwnFamily
  <2>4. PICK n \in {1, -1} :
            /\ list[f][q][v] + n \in Nat /\ owed[f][q][v] + n \in Nat
            /\ list' = [list EXCEPT ![f][q][v] = list[f][q][v] + n]
            /\ owed' = [owed EXCEPT ![f][q][v] = owed[f][q][v] + n]
    <3>1. CASE Push(f, q, v)
      BY <2>1, <3>1 DEF Push
    <3>2. CASE q = "queue" /\ Consume(f, v)
      <4>1. /\ list[f][q][v] + (-1) \in Nat /\ owed[f][q][v] + (-1) \in Nat
            /\ list[f][q][v] - 1 = list[f][q][v] + (-1)
            /\ owed[f][q][v] - 1 = owed[f][q][v] + (-1)
        BY <2>1, <3>2 DEF Consume
      <4>2. /\ list' = [list EXCEPT ![f][q][v] = list[f][q][v] - 1]
            /\ owed' = [owed EXCEPT ![f][q][v] = owed[f][q][v] - 1]
        BY <3>2 DEF Consume
      <4> QED BY <4>1, <4>2
    <3> QED BY <1>1, <3>1, <3>2
  <2>5. /\ list' \in Counts
        /\ \A g \in Families, r \in Lists, w \in Values :
              list'[g][r][w] = IF g = f /\ r = q /\ w = v THEN list[f][q][v] + n
                               ELSE list[g][r][w]
    BY <2>1, <2>4 DEF Counts, Bag
  <2>6. /\ owed' \in Counts
        /\ \A g \in Families, r \in Lists, w \in Values :
              owed'[g][r][w] = IF g = f /\ r = q /\ w = v THEN owed[f][q][v] + n
                               ELSE owed[g][r][w]
    BY <2>1, <2>4 DEF Counts, Bag
  <2>7. EvidenceKept'
    BY <2>2, <2>5, <2>6 DEF ListInv, EvidenceKept
  <2>8. \A g \in Families, r \in Lists, w \in Values : list'[g][r][w] <= owed'[g][r][w]
    BY <2>1, <2>5, <2>6 DEF ListInv
  <2> QED BY <2>3, <2>5, <2>6, <2>7, <2>8 DEF ListInv
<1>2. ASSUME NEW f \in Families, NEW v \in Values, MoveRow(f, v) PROVE ListInv'
  <2>1. PICK m \in Moves : row[f][v] = m[1] /\ row' = [row EXCEPT ![f][v] = m[2]]
    BY <1>2 DEF MoveRow
  <2>2. m[2] \in Status /\ m[2] # "absent"
    BY DEF Moves, Status
  <2>3. /\ row' \in [Families -> [Values -> Status]]
        /\ \A g \in Families, w \in Values :
              row'[g][w] = "absent" => row[g][w] = "absent"
    BY <2>1, <2>2 DEF ListInv
  <2>4. UNCHANGED <<list, op, owed>>
    BY <1>2 DEF MoveRow
  <2>5. Planned'
    BY <2>3, <2>4 DEF ListInv, Planned
  <2> QED BY <2>3, <2>4, <2>5 DEF ListInv, IsCommand, OwnFamily, EvidenceKept
<1>3. ASSUME SwitchVersion PROVE ListInv'
  BY <1>3 DEF SwitchVersion, ListInv, IsCommand, Planned, OwnFamily, EvidenceKept
<1> QED BY <1>1, <1>2, <1>3 DEF Application, Lists

(* An inventory plans only entries that name a row.                        *)
LEMMA ReadKeeps == ListInv /\ Read => ListInv'
<1> SUFFICES ASSUME ListInv, Read PROVE ListInv'
  OBVIOUS
<1> DEFINE f == Head(op.left)
           Seen(queue, dead) == [q \in Lists |-> IF q = "queue" THEN queue ELSE dead]
           acts == op.cmd \in {"typed", "alone"}
<1>1. PICK queue \in Prefixes(list[f]["queue"]), dead \in Prefixes(list[f]["dead"]),
           next \in IF Len(op.left) > 1 THEN {"count"} ELSE AfterInventory :
          op' = IF next = "end" THEN Idle
                ELSE [op EXCEPT
                        !.step = next, !.left = Tail(@), !.total = Idle.total,
                        !.inv[f] = [truncated |-> IsTruncated(Seen(queue, dead)),
                                    seen |-> IF acts THEN Idle.plan
                                             ELSE Seen(queue, dead)],
                        !.plan = IF acts THEN Eligible(f, Seen(queue, dead)) ELSE @,
                        !.retry = IF next = "recover"
                                  THEN TransientDeadLetters(f, Seen(queue, dead)) ELSE {}]
  BY DEF Read
<1> DEFINE seen == Seen(queue, dead)
<1>2. UNCHANGED <<list, row, owed>>
  BY DEF Read
<1>3. CASE op' = Idle
  BY <1>2, <1>3 DEF ListInv, IsCommand, Planned, OwnFamily, EvidenceKept, Idle, Nothing, Bag
<1>4. ASSUME next # "end" PROVE ListInv'
  <2>1. /\ op'.cmd = op.cmd /\ op'.fam = op.fam /\ op'.step = next
        /\ op'.left = Tail(op.left)
        /\ op'.plan = IF acts THEN Eligible(f, seen) ELSE op.plan
        /\ IsCommand'
    BY <1>1, <1>4 DEF ListInv, IsCommand
  <2>2. acts => /\ f = op.fam /\ op.fam \in Families /\ Len(op.left) = 1
                /\ queue \in Bag /\ dead \in Bag
    <3>1. op.step = "read"
      BY DEF Read
    <3>2. acts => op.fam \in Families /\ op.left = <<op.fam>>
      BY <3>1 DEF ListInv, OwnFamily
    <3>3. acts => queue \in Bag /\ dead \in Bag
      <4>1. \A b \in Bag : Prefixes(b) \subseteq Bag
        BY RetirementAssumption DEF Prefixes, Bag
      <4>2. acts => \A q \in Lists : list[f][q] \in Bag
        BY <3>2 DEF ListInv, Counts
      <4> QED BY <4>1, <4>2 DEF Lists
    <3>4. acts => Head(op.left) = op.fam /\ Len(op.left) = 1
      <4>1. \A x : Head(<<x>>) = x /\ Len(<<x>>) = 1
        OBVIOUS
      <4> QED BY <3>2, <4>1
    <3> QED BY <3>2, <3>3, <3>4
  <2>3. Planned'
    <3>1. CASE acts
      <4>1. op'.plan = [q \in Lists |-> [v \in Values |->
                          IF Removable(f, q, row[f][v]) THEN seen[q][v] ELSE 0]]
        BY <2>1, <3>1 DEF Eligible
      <4>2. seen \in [Lists -> Bag]
        BY <2>2, <3>1
      <4>3. op'.plan \in [Lists -> Bag]
        BY <4>1, <4>2 DEF Bag
      <4>4. ASSUME NEW q \in Lists, NEW v \in Values, op'.plan[q][v] > 0
            PROVE  op.fam \in Families /\ row[op.fam][v] # "absent"
        <5>1. Removable(f, q, row[f][v])
          BY <4>1, <4>4
        <5> QED BY <2>2, <3>1, <5>1
                DEF Removable, RemovableIA, RemovableAudio, RemovableImage
      <4> QED BY <1>2, <2>1, <4>3, <4>4 DEF Planned
    <3>2. CASE ~acts
      BY <1>2, <2>1, <3>2 DEF ListInv, Planned
    <3> QED BY <3>1, <3>2
  <2>4. OwnFamily'
    <3>1. /\ acts => next \notin {"count", "read", "compare"}
          /\ next = "compare" => op.cmd = "apply"
      <4>1. next \in IF Len(op.left) > 1 THEN {"count"} ELSE AfterInventory
        BY <1>1
      <4>2. /\ op.cmd = "typed" => AfterInventory = {"retire"}
            /\ op.cmd = "dry" => AfterInventory = {"write"}
            /\ op.cmd \notin {"dry", "apply", "typed"} =>
                  AfterInventory = {"recover", "retire", "end"}
        BY DEF AfterInventory
      <4>3. CASE Len(op.left) > 1
        <5>1. ~acts
          <6> SUFFICES ASSUME acts PROVE FALSE
            OBVIOUS
          <6>1. Len(op.left) = 1
            BY <2>2
          <6>2. ~(1 > 1)
            OBVIOUS
          <6> QED BY <4>3, <6>1, <6>2, Zenon
        <5>2. next = "count"
          BY <4>1, <4>3
        <5> QED BY <5>1, <5>2
      <4>4. CASE ~(Len(op.left) > 1)
        <5>1. next \in AfterInventory
          BY <4>1, <4>4
        <5>2. CASE op.cmd = "apply"
          BY <5>2
        <5>3. CASE op.cmd = "typed"
          BY <4>2, <5>1, <5>3
        <5>4. CASE op.cmd = "dry"
          BY <4>2, <5>1, <5>4
        <5>5. CASE op.cmd \notin {"dry", "apply", "typed"}
          BY <4>2, <5>1, <5>5
        <5> QED BY <5>2, <5>3, <5>4, <5>5
      <4> QED BY <4>3, <4>4
    <3> QED BY <2>1, <3>1 DEF ListInv, OwnFamily
  <2> QED BY <1>2, <2>1, <2>3, <2>4 DEF ListInv, EvidenceKept
<1> QED BY <1>1, <1>3, <1>4

(* The commands that touch neither the lists nor the rows.                 *)
LEMMA CommandKeeps ==
    ASSUME ListInv,
           DryRun \/ Count \/ WriteReport \/ Compare \/ FinishRetire
             \/ FinishRecover \/ Interrupt
             \/ \E f \in Families : Apply(f) \/ Standalone(f)
    PROVE  ListInv'
<1>1. UNCHANGED <<list, row, owed>>
  BY DEF DryRun, Count, WriteReport, Compare, FinishRetire, FinishRecover,
         Interrupt, Apply, Standalone
<1> SUFFICES IsCommand' /\ Planned' /\ OwnFamily'
  BY <1>1 DEF ListInv, EvidenceKept
<1>2. CASE op' = Idle
  BY <1>2 DEF IsCommand, Planned, OwnFamily, Idle, Nothing, Bag
<1>3. CASE DryRun
  <2>1. /\ op'.cmd = "dry" /\ op'.fam = "none" /\ op'.step = "count"
        /\ op'.plan = [q \in Lists |-> [v \in Values |-> 0]] /\ IsCommand'
    BY <1>3 DEF DryRun, Idle, Nothing, IsCommand
  <2>2. Planned'
    <3>1. op'.plan \in [Lists -> Bag]
      BY <2>1 DEF Bag
    <3> QED BY <2>1, <3>1 DEF Planned
  <2>3. OwnFamily'
    BY <2>1 DEF OwnFamily
  <2> QED BY <2>1, <2>2, <2>3
<1>4. ASSUME NEW f \in Families, Apply(f) \/ Standalone(f)
      PROVE  IsCommand' /\ Planned' /\ OwnFamily'
  <2>1. /\ op'.cmd \in {"apply", "alone"} /\ op'.fam = f /\ op'.step = "count"
        /\ op'.cmd = "alone" => op'.left = <<f>>
        /\ op'.plan = [q \in Lists |-> [v \in Values |-> 0]] /\ IsCommand'
    <3>1. CASE Apply(f)
      BY <3>1 DEF Apply, Idle, Nothing, IsCommand
    <3>2. CASE Standalone(f)
      BY <3>2 DEF Standalone, Idle, Nothing, IsCommand
    <3> QED BY <1>4, <3>1, <3>2
  <2>2. Planned'
    <3>1. op'.plan \in [Lists -> Bag]
      BY <2>1 DEF Bag
    <3> QED BY <2>1, <3>1 DEF Planned
  <2>3. OwnFamily'
    BY <2>1 DEF OwnFamily
  <2> QED BY <2>1, <2>2, <2>3
<1>5. CASE Count
  <2>1. /\ op'.cmd = op.cmd /\ op'.fam = op.fam /\ op'.left = op.left
        /\ op.step = "count" /\ op'.step = "read"
        /\ op'.plan = op.plan /\ IsCommand'
    BY <1>5 DEF Count, ListInv, IsCommand
  <2> QED BY <1>1, <2>1 DEF ListInv, Planned, OwnFamily
<1>6. CASE Compare /\ SecondSnapshot
  <2>1. /\ op'.cmd = "typed" /\ op'.fam = op.fam /\ op'.left = <<op.fam>>
        /\ op'.step = "count" /\ op'.plan = op.plan /\ IsCommand'
    BY <1>6 DEF Compare, ListInv, IsCommand
  <2>2. op.fam \in Families
    BY <1>6 DEF Compare, ListInv, OwnFamily
  <2> QED BY <1>1, <2>1, <2>2 DEF ListInv, Planned, OwnFamily
<1>7. CASE FinishRecover /\ op' # Idle
  <2>1. /\ op'.cmd = op.cmd /\ op'.fam = op.fam /\ op'.left = op.left
        /\ op'.step = "retire" /\ op'.plan = op.plan /\ IsCommand'
    BY <1>7 DEF FinishRecover, ListInv, IsCommand
  <2> QED BY <1>1, <2>1 DEF ListInv, Planned, OwnFamily
<1> QED BY <1>2, <1>3, <1>4, <1>5, <1>6, <1>7
        DEF WriteReport, Compare, FinishRetire, Interrupt

LEMMA RecoverKeeps ==
    ASSUME ListInv, NEW v \in Values, RecoverTransient(v)
    PROVE  ListInv'
<1>1. /\ op'.cmd = op.cmd /\ op'.fam = op.fam /\ op'.left = op.left
      /\ op'.step = op.step /\ op'.plan = op.plan /\ IsCommand'
  BY DEF RecoverTransient, ListInv, IsCommand
<1>2. /\ row' \in [Families -> [Values -> Status]]
      /\ \A g \in Families, w \in Values :
            row'[g][w] = "absent" => row[g][w] = "absent"
  BY DEF RecoverTransient, ListInv, Status
<1>3. UNCHANGED <<list, owed>>
  BY DEF RecoverTransient
<1>4. Planned'
  BY <1>1, <1>2 DEF ListInv, Planned
<1> QED BY <1>1, <1>2, <1>3, <1>4 DEF ListInv, OwnFamily, EvidenceKept

(* A removal takes an entry of the plan, and so one with a row.            *)
LEMMA RemoveKeeps ==
    ASSUME ListInv, NEW q \in Lists, NEW v \in Values, RemoveEntry(q, v)
    PROVE  ListInv'
<1> DEFINE f == op.fam
<1>1. f \in Families /\ row[f][v] # "absent" /\ op.plan[q][v] \in Nat \ {0}
  BY DEF RemoveEntry, ListInv, Planned, Bag
<1>2. UNCHANGED <<row, owed>>
  BY DEF RemoveEntry
<1>3. list[f][q][v] \in Nat /\ LRem(f, q, v) \in Nat /\ LRem(f, q, v) <= list[f][q][v]
  BY <1>1 DEF ListInv, Counts, Bag, LRem
<1>4. /\ list' \in Counts
      /\ \A g \in Families, r \in Lists, w \in Values :
            list'[g][r][w] = IF g = f /\ r = q /\ w = v THEN LRem(f, q, v)
                             ELSE list[g][r][w]
  <2> DEFINE bag == [list[f][q] EXCEPT ![v] = LRem(f, q, v)]
             both == [list[f] EXCEPT ![q] = bag]
  <2>1. /\ list \in [Families -> [Lists -> Bag]] /\ list[f] \in [Lists -> Bag]
        /\ list[f][q] \in [Values -> Nat]
    BY <1>1 DEF ListInv, Counts, Bag
  <2>2. /\ bag \in Bag
        /\ \A w \in Values : bag[w] = IF w = v THEN LRem(f, q, v) ELSE list[f][q][w]
    BY <1>3, <2>1 DEF Bag
  <2>3. list' = [list EXCEPT ![f] = both]
    BY DEF RemoveEntry
  <2> HIDE DEF bag, f
  <2>4. /\ both \in [Lists -> Bag]
        /\ \A r \in Lists : both[r] = IF r = q THEN bag ELSE list[f][r]
    BY <2>1, <2>2
  <2> HIDE DEF both
  <2>5. /\ list' \in [Families -> [Lists -> Bag]]
        /\ \A g \in Families : list'[g] = IF g = f THEN both ELSE list[g]
    BY <1>1, <2>1, <2>3, <2>4
  <2>6. \A g \in Families, r \in Lists, w \in Values :
            list'[g][r][w] = IF g = f /\ r = q /\ w = v THEN LRem(f, q, v)
                             ELSE list[g][r][w]
    BY <2>2, <2>4, <2>5
  <2> QED BY <2>5, <2>6 DEF Counts
<1>5. \A g \in Families, r \in Lists, w \in Values : list'[g][r][w] <= owed[g][r][w]
  <2>1. ASSUME NEW g \in Families, NEW r \in Lists, NEW w \in Values
        PROVE  list'[g][r][w] <= owed[g][r][w]
    <3>1. /\ list[g][r][w] \in Nat /\ owed[g][r][w] \in Nat
          /\ list[g][r][w] <= owed[g][r][w]
      BY DEF ListInv, Counts, Bag
    <3>2. list'[g][r][w] <= list[g][r][w] /\ list'[g][r][w] \in Nat
      <4>1. CASE g = f /\ r = q /\ w = v
        BY <1>3, <1>4, <4>1
      <4>2. CASE ~(g = f /\ r = q /\ w = v)
        BY <1>4, <3>1, <4>2
      <4> QED BY <4>1, <4>2
    <3> QED BY <3>1, <3>2
  <2> QED BY <2>1
<1>6. EvidenceKept'
  BY <1>1, <1>2, <1>4 DEF ListInv, EvidenceKept
<1>7. /\ op'.cmd = op.cmd /\ op'.fam = op.fam /\ op'.left = op.left
      /\ op'.step = op.step /\ op'.plan = [op.plan EXCEPT ![q][v] = @ - 1]
      /\ IsCommand'
  BY DEF RemoveEntry, ListInv, IsCommand
<1>8. Planned'
  <2>1. /\ op'.plan \in [Lists -> Bag]
        /\ \A r \in Lists, w \in Values : op'.plan[r][w] <= op.plan[r][w]
    <3>1. op.plan \in [Lists -> Bag] /\ op.plan[q][v] - 1 \in Nat
      BY <1>1 DEF ListInv, Planned
    <3>2. /\ op'.plan \in [Lists -> Bag]
          /\ \A r \in Lists, w \in Values :
                op'.plan[r][w] = IF r = q /\ w = v THEN op.plan[q][v] - 1
                                 ELSE op.plan[r][w]
      BY <1>7, <3>1 DEF Bag
    <3>3. \A r \in Lists, w \in Values : op.plan[r][w] \in Nat
      BY <3>1 DEF Bag
    <3> QED BY <3>2, <3>3
  <2>2. \A r \in Lists, w \in Values : op'.plan[r][w] > 0 => op.plan[r][w] > 0
    BY <2>1 DEF ListInv, Planned, Bag
  <2> QED BY <1>2, <1>7, <2>1, <2>2 DEF ListInv, Planned
<1> QED BY <1>2, <1>4, <1>5, <1>6, <1>7, <1>8 DEF ListInv, OwnFamily

LEMMA ListsKeep == ListInv /\ Next => ListInv'
BY ApplicationKeeps, ReadKeeps, CommandKeeps, RecoverKeeps, RemoveKeeps
   DEF Next, Command

LEMMA ExitKeepsLists == ListInv /\ [ExitNext]_exitVars => ListInv'
<1> SUFFICES ASSUME ListInv, [ExitNext]_exitVars PROVE ListInv'
  OBVIOUS
<1>1. CASE RetireLists
  BY <1>1, ListsKeep DEF RetireLists
<1>2. CASE UNCHANGED vars
  BY <1>2 DEF ListInv, Planned, IsCommand, OwnFamily, EvidenceKept, vars
<1> QED BY <1>1, <1>2 DEF ExitNext, RetireKeys, HandOverEvents, exitVars

(* An entry that names no row stays in its list, whatever the commands and *)
(* the application do and wherever a command dies.                         *)
THEOREM EvidenceStays == ExitSpec => []EvidenceKept
<1>1. ListInv => EvidenceKept
  BY DEF ListInv
<1>2. ExitInit => ListInv
  BY InitListInv DEF ExitInit
<1> QED BY <1>1, <1>2, ExitKeepsLists, PTL DEF ExitSpec
-----------------------------------------------------------------------------
(* What an apply of the coordinator removes.  With no old instance about,  *)
(* the family is as the second snapshot saw it, which is as the report     *)
(* shows it, until the apply removes something.                            *)
Reviewing ==
    op.cmd \in {"apply", "typed"} =>
        ~old /\ op.fam \in Families /\ op.fam \notin report.applied

(* The family is still to be read, or longer than what may be read, or it  *)
(* was seen as it is.                                                      *)
Seen ==
    \/ op.fam \in Range(op.left)
    \/ op.inv[op.fam].truncated
    \/ \A q \in Lists : op.inv[op.fam].seen[q] = list[op.fam][q]

Snapshot ==
    op.cmd = "apply" =>
        /\ op.step \in {"count", "read", "compare"}
        /\ op.left \in Seq(Families) /\ (op.left = <<>> <=> op.step = "compare")
        /\ op.inv = [g \in Families |-> op.inv[g]]
        /\ op.removed = [q \in Lists |-> Nothing]
        /\ op.step = "read" =>
              \A q \in Lists : op.total[q] = Size(list[Head(op.left)][q])
        /\ Seen

(* What is gone from a list of the family was removed by the apply.        *)
Accounted ==
    op.cmd = "typed" =>
        /\ op.step \in {"count", "read", "retire"}
        /\ op.removed \in [Lists -> Bag]
        /\ \A q \in Lists, v \in Values :
              list[op.fam][q][v] + op.removed[q][v] = report.inv[op.fam].seen[q][v]

(* The inductive invariant of an apply.                                    *)
ReviewInv == ListInv /\ Reviewing /\ Snapshot /\ Accounted

(* No apply runs.                                                          *)
NoApply == op.cmd \notin {"apply", "typed"}

LEMMA NoApplyKeeps ==
    ASSUME NoApply'
    PROVE  Reviewing' /\ Snapshot' /\ Accounted'
  BY DEF NoApply, Reviewing, Snapshot, Accounted

(* While an apply runs, the application touches no list.                   *)
LEMMA ApplicationReviewed ==
    ASSUME ~OldInstancesDuringApply, ReviewInv, Application
    PROVE  ReviewInv'
<1>1. ListInv'
  BY ApplicationKeeps DEF ReviewInv
<1>2. UNCHANGED <<op, report>>
  BY DEF Application, Push, Consume, MoveRow, SwitchVersion
<1>3. CASE NoApply
  BY <1>1, <1>2, <1>3, NoApplyKeeps DEF ReviewInv, NoApply
<1>4. CASE ~NoApply
  <2>1. ~old
    BY <1>4 DEF ReviewInv, Reviewing, NoApply
  <2>2. UNCHANGED <<list, old>>
    BY <1>4, <2>1 DEF Application, Push, Consume, MoveRow, SwitchVersion, OldMayRun, NoApply
  <2>3. Seen' <=> Seen
    BY <1>2, <2>2 DEF Seen
  <2> QED BY <1>1, <1>2, <2>2, <2>3 DEF ReviewInv, Reviewing, Snapshot, Accounted
<1> QED BY <1>3, <1>4

LEMMA ApplyReviewed ==
    ASSUME ~OldInstancesDuringApply, ReviewInv, NEW f \in Families, Apply(f)
    PROVE  ReviewInv'
<1>1. ListInv'
  BY CommandKeeps DEF ReviewInv
<1>2. /\ op'.cmd = "apply" /\ op'.step = "count" /\ op'.fam = f /\ op'.left = Order
      /\ op'.inv = [g \in Families |-> NoInventory]
      /\ op'.removed = [q \in Lists |-> Nothing]
      /\ f \notin report'.applied /\ ~old'
  BY DEF Apply, Idle, NoInventories
<1>3. Order \in Seq(Families) /\ Order # <<>>
  BY RetirementAssumption DEF Families, Range
<1>4. Seen'
  BY <1>2 DEF Seen, Families
<1> QED BY <1>1, <1>2, <1>3, <1>4 DEF ReviewInv, Reviewing, Snapshot, Accounted
(* What is not truncated is the whole list.                                *)
LEMMA WholeList ==
    ASSUME NEW b, NEW s \in Prefixes(b), NEW n, n = Size(b), ~(n > Size(s))
    PROVE  s = b
<1>1. ASSUME Size(b) > MaxItems PROVE FALSE
  <2>1. Size(s) = MaxItems
    BY <1>1 DEF Prefixes
  <2> QED BY <1>1, <2>1
<1> QED BY <1>1 DEF Prefixes

(* What is left after a family.                                            *)
LEMMA LeftOver ==
    ASSUME NEW s \in Seq(Families), s # <<>>
    PROVE  /\ Head(s) \in Families /\ Tail(s) \in Seq(Families)
           /\ Range(s) \subseteq Range(Tail(s)) \cup {Head(s)}
           /\ Tail(s) = <<>> <=> ~(Len(s) > 1)
<1>1. /\ Len(s) \in Nat \ {0} /\ DOMAIN s = 1..Len(s)
      /\ Head(s) = s[1] /\ s[1] \in Families
      /\ Tail(s) \in Seq(Families) /\ Len(Tail(s)) = Len(s) - 1
      /\ DOMAIN Tail(s) = 1..(Len(s) - 1)
      /\ \A i \in 1..(Len(s) - 1) : Tail(s)[i] = s[i + 1]
  OBVIOUS
<1>2. ASSUME NEW i \in DOMAIN s PROVE s[i] \in Range(Tail(s)) \cup {Head(s)}
  <2>1. CASE i = 1
    BY <1>1, <2>1
  <2>2. CASE i # 1
    <3>1. i - 1 \in DOMAIN Tail(s) /\ s[i] = Tail(s)[i - 1]
      BY <1>1, <2>2
    <3> QED BY <3>1 DEF Range
  <2> QED BY <2>1, <2>2
<1>3. Range(s) \subseteq Range(Tail(s)) \cup {Head(s)}
  BY <1>2 DEF Range
<1>4. Tail(s) = <<>> <=> Len(s) = 1
  <2>1. Tail(s) = <<>> <=> Len(Tail(s)) = 0
    BY <1>1, EmptySeq
  <2> QED BY <1>1, <2>1
<1> QED BY <1>1, <1>3, <1>4

LEMMA CountReviewed ==
    ASSUME ReviewInv, Count
    PROVE  ReviewInv'
<1>1. ListInv'
  BY CommandKeeps DEF ReviewInv
<1>2. /\ op'.cmd = op.cmd /\ op'.fam = op.fam /\ op'.left = op.left /\ op'.inv = op.inv
      /\ op'.removed = op.removed /\ op'.step = "read" /\ op.step = "count"
      /\ op'.total = [q \in Lists |-> Size(list[Head(op.left)][q])]
  BY DEF Count, ReviewInv, ListInv, IsCommand
<1>3. UNCHANGED <<list, report, old>>
  BY DEF Count
<1>4. Seen' <=> Seen
  BY <1>2, <1>3 DEF Seen
<1>5. Reviewing' /\ Accounted'
  BY <1>2, <1>3 DEF ReviewInv, Reviewing, Accounted
<1>6. Snapshot'
  BY <1>2, <1>3, <1>4 DEF ReviewInv, Snapshot
<1> QED BY <1>1, <1>5, <1>6 DEF ReviewInv
(* An inventory of an apply sees its family as it is, or says that it does *)
(* not.                                                                    *)
LEMMA ReadReviewed ==
    ASSUME ReviewInv, Read
    PROVE  ReviewInv'
<1> DEFINE f == Head(op.left)
           Shown(queue, dead) == [q \in Lists |-> IF q = "queue" THEN queue ELSE dead]
           acts == op.cmd \in {"typed", "alone"}
<1>1. PICK queue \in Prefixes(list[f]["queue"]), dead \in Prefixes(list[f]["dead"]),
           next \in IF Len(op.left) > 1 THEN {"count"} ELSE AfterInventory :
          op' = IF next = "end" THEN Idle
                ELSE [op EXCEPT
                        !.step = next, !.left = Tail(@), !.total = Idle.total,
                        !.inv[f] = [truncated |-> IsTruncated(Shown(queue, dead)),
                                    seen |-> IF acts THEN Idle.plan
                                             ELSE Shown(queue, dead)],
                        !.plan = IF acts THEN Eligible(f, Shown(queue, dead)) ELSE @,
                        !.retry = IF next = "recover"
                                  THEN TransientDeadLetters(f, Shown(queue, dead)) ELSE {}]
  BY DEF Read
<1>2. ListInv' /\ UNCHANGED <<list, report, old>> /\ op.step = "read" /\ IsCommand
  BY ReadKeeps DEF ReviewInv, ListInv, Read
<1> DEFINE seen == Shown(queue, dead)
           shown == [truncated |-> IsTruncated(seen),
                     seen |-> IF acts THEN Idle.plan ELSE seen]
<1>3. CASE op' = Idle
  BY <1>2, <1>3, NoApplyKeeps DEF NoApply, Idle, ReviewInv
<1>4. CASE next # "end"
  <2>1. /\ op'.cmd = op.cmd /\ op'.fam = op.fam /\ op'.step = next
        /\ op'.left = Tail(op.left) /\ op'.removed = op.removed
        /\ op'.inv = [op.inv EXCEPT ![f] = shown]
    BY <1>1, <1>2, <1>4 DEF IsCommand
  <2> HIDE DEF shown
  <2>2. Reviewing'
    BY <1>2, <2>1 DEF ReviewInv, Reviewing
  <2>3. ASSUME op.cmd = "typed" PROVE Accounted'
    <3>1. op.left = <<op.fam>>
      BY <1>2, <2>3 DEF ReviewInv, ListInv, OwnFamily
    <3>2. next \in {"count", "retire"}
      BY <1>1, <2>3 DEF AfterInventory
    <3> QED BY <1>2, <2>1, <2>3, <3>2 DEF ReviewInv, Accounted
  <2>4. op.cmd # "typed" => Accounted'
    BY <2>1 DEF Accounted
  <2>5. ASSUME op.cmd = "apply" PROVE Snapshot'
    <3>1. /\ op.left \in Seq(Families) /\ op.left # <<>>
          /\ op.inv = [g \in Families |-> op.inv[g]]
          /\ op.removed = [q \in Lists |-> Nothing]
          /\ \A q \in Lists : op.total[q] = Size(list[f][q])
          /\ Seen
      BY <1>2, <2>5 DEF ReviewInv, Snapshot
    <3>2. /\ f \in Families /\ Tail(op.left) \in Seq(Families)
          /\ Range(op.left) \subseteq Range(Tail(op.left)) \cup {f}
          /\ Tail(op.left) = <<>> <=> ~(Len(op.left) > 1)
      BY <3>1, LeftOver
    <3>3. next = IF Len(op.left) > 1 THEN "count" ELSE "compare"
      BY <1>1, <2>5 DEF AfterInventory
    <3>4. /\ op'.inv = [g \in Families |-> op'.inv[g]]
          /\ op'.inv[f] = shown
          /\ \A g \in Families \ {f} : op'.inv[g] = op.inv[g]
      BY <2>1, <3>1, <3>2
    <3>5. shown.seen = seen /\ shown.truncated = IsTruncated(seen)
      BY <2>5 DEF shown
    <3>6. ASSUME ~IsTruncated(seen) PROVE \A q \in Lists : seen[q] = list[f][q]
      <4>1. /\ "queue" \in Lists /\ "dead" \in Lists /\ Lists = {"queue", "dead"}
            /\ seen["queue"] = queue /\ seen["dead"] = dead
        BY DEF Lists
      <4>2. \A q \in Lists : ~(op.total[q] > Size(seen[q]))
        BY <3>6 DEF IsTruncated
      <4>3. queue = list[f]["queue"]
        BY <3>1, <4>1, <4>2, WholeList
      <4>4. dead = list[f]["dead"]
        BY <3>1, <4>1, <4>2, WholeList
      <4> QED BY <4>1, <4>3, <4>4
    <3> HIDE DEF f, seen
    <3>7. op.fam \in Families
      BY <2>5 DEF ReviewInv, Reviewing
    <3>8. Seen'
      <4>1. CASE op.fam = f
        <5>1. CASE IsTruncated(seen)
          BY <2>1, <3>4, <3>5, <4>1, <5>1 DEF Seen
        <5>2. CASE ~IsTruncated(seen)
          BY <1>2, <2>1, <3>4, <3>5, <3>6, <4>1, <5>2 DEF Seen
        <5> QED BY <5>1, <5>2
      <4>2. CASE op.fam # f
        <5>1. op'.inv[op.fam] = op.inv[op.fam]
          BY <3>4, <3>7, <4>2
        <5>2. op.fam \in Range(op.left) => op.fam \in Range(op'.left)
          BY <2>1, <3>2, <4>2
        <5>3. op'.fam = op.fam /\ list' = list
          BY <1>2, <2>1
        <5>4. CASE op.fam \in Range(op.left)
          BY <5>2, <5>3, <5>4 DEF Seen
        <5>5. CASE op.fam \notin Range(op.left)
          <6>1. PICK i : i = op.inv[op.fam]
            OBVIOUS
          <6>2. i.truncated \/ \A q \in Lists : i.seen[q] = list[op.fam][q]
            BY <3>1, <5>5, <6>1 DEF Seen
          <6>3. op'.inv[op'.fam] = i /\ list'[op'.fam] = list[op.fam]
            BY <5>1, <5>3, <6>1
          <6> QED BY <6>2, <6>3 DEF Seen
        <5> QED BY <5>4, <5>5
      <4> QED BY <4>1, <4>2
    <3>9. next \in {"count", "compare"} /\ (op'.left = <<>> <=> next = "compare")
      BY <2>1, <3>2, <3>3
    <3>10. op'.step # "read" /\ op'.step \in {"count", "compare"}
      BY <2>1, <3>9
    <3> QED BY <2>1, <3>1, <3>2, <3>4, <3>8, <3>9, <3>10 DEF Snapshot
  <2>6. op.cmd # "apply" => Snapshot'
    BY <2>1 DEF Snapshot
  <2> QED BY <1>2, <2>2, <2>3, <2>4, <2>5, <2>6 DEF ReviewInv
<1> QED BY <1>1, <1>3, <1>4
(* The removal begins with the lists of the report.                        *)
LEMMA CompareReviewed ==
    ASSUME ReviewInv, Compare
    PROVE  ReviewInv'
<1>1. ListInv' /\ UNCHANGED <<list, report, old>> /\ op.step = "compare" /\ op.cmd = "apply"
  BY CommandKeeps DEF Compare, ReviewInv, ListInv, OwnFamily
<1>2. CASE op' = Idle
  BY <1>1, <1>2, NoApplyKeeps DEF NoApply, Idle, ReviewInv
<1>3. CASE SecondSnapshot
  <2>1. /\ op'.cmd = "typed" /\ op'.fam = op.fam /\ op'.step = "count"
        /\ op'.removed = op.removed
    BY <1>3 DEF Compare, ReviewInv, ListInv, IsCommand
  <2>2. /\ op.fam \in Families /\ op.fam \notin report.applied /\ ~old
        /\ op.removed = [q \in Lists |-> Nothing] /\ op.left = <<>> /\ Seen
    BY <1>1 DEF ReviewInv, Reviewing, Snapshot
  <2>3. \A q \in Lists : op.inv[op.fam].seen[q] = report.inv[op.fam].seen[q]
    BY <1>3, <2>2 DEF SecondSnapshot
  <2>4. \A q \in Lists : op.inv[op.fam].seen[q] = list[op.fam][q]
    <3>1. op.fam \notin Range(op.left)
      BY <2>2 DEF Range
    <3>2. ~op.inv[op.fam].truncated
      BY <1>3, <2>2 DEF SecondSnapshot, Complete
    <3> QED BY <2>2, <3>1, <3>2 DEF Seen
  <2>5. /\ op'.removed \in [Lists -> Bag]
        /\ \A q \in Lists, v \in Values : op'.removed[q][v] = 0
    BY <2>1, <2>2 DEF Nothing, Bag
  <2>6. ASSUME NEW q \in Lists, NEW v \in Values
        PROVE  list[op.fam][q][v] + 0 = report.inv[op.fam].seen[q][v]
    <3>1. list[op.fam][q][v] \in Nat
      BY <2>2 DEF ReviewInv, ListInv, Counts, Bag
    <3> QED BY <2>3, <2>4, <3>1
  <2>7. Accounted'
    BY <1>1, <2>1, <2>5, <2>6 DEF Accounted
  <2> QED BY <1>1, <2>1, <2>2, <2>7 DEF ReviewInv, Reviewing, Snapshot
<1> QED BY <1>2, <1>3 DEF Compare

(* What a removal takes from a list it counts.                             *)
LEMMA RemoveReviewed ==
    ASSUME ReviewInv, NEW q \in Lists, NEW v \in Values, RemoveEntry(q, v)
    PROVE  ReviewInv'
<1> DEFINE f == op.fam
           gone == list[f][q][v] - LRem(f, q, v)
<1>1. /\ ListInv' /\ UNCHANGED <<report, old>> /\ op.step = "retire"
      /\ list \in Counts /\ f \in Families
      /\ op'.cmd = op.cmd /\ op'.fam = op.fam /\ op'.step = op.step
      /\ op'.removed = [op.removed EXCEPT ![q][v] = @ + list[f][q][v] - LRem(f, q, v)]
      /\ list' = [list EXCEPT ![f][q][v] = LRem(f, q, v)]
  BY RemoveKeeps DEF RemoveEntry, ReviewInv, ListInv, IsCommand, Planned
<1>2. op.cmd # "apply"
  BY <1>1 DEF ReviewInv, Snapshot
<1>3. ASSUME op.cmd = "typed" PROVE Accounted'
  <2>1. /\ op.removed \in [Lists -> Bag]
        /\ \A r \in Lists, w \in Values :
              list[f][r][w] + op.removed[r][w] = report.inv[f].seen[r][w]
    BY <1>3 DEF ReviewInv, Accounted
  <2>2. list[f][q][v] \in Nat /\ LRem(f, q, v) \in Nat /\ LRem(f, q, v) <= list[f][q][v]
    BY <1>1 DEF Counts, Bag, LRem
  <2>3. op.removed[q][v] \in Nat
    BY <2>1 DEF Bag
  <2>4. PICK l \in Nat : l = LRem(f, q, v)
    BY <2>2
  <2>5. PICK n \in Nat : n = op.removed[q][v] + list[f][q][v] - l
    BY <2>2, <2>3, <2>4
  <2>6. op'.removed = [op.removed EXCEPT ![q][v] = n] /\ list' = [list EXCEPT ![f][q][v] = l]
    BY <1>1, <2>4, <2>5
  <2>7. /\ op'.removed \in [Lists -> Bag]
        /\ \A r \in Lists, w \in Values :
              op'.removed[r][w] = IF r = q /\ w = v THEN n ELSE op.removed[r][w]
    BY <2>1, <2>6 DEF Bag
  <2>8. \A r \in Lists, w \in Values :
            list'[f][r][w] = IF r = q /\ w = v THEN l ELSE list[f][r][w]
    BY <1>1, <2>6 DEF Counts, Bag
  <2>9. ASSUME NEW r \in Lists, NEW w \in Values
        PROVE  list'[f][r][w] + op'.removed[r][w] = report.inv[f].seen[r][w]
    <3>1. CASE r = q /\ w = v
      <4>1. list'[f][q][v] = l /\ op'.removed[q][v] = n
        BY <2>7, <2>8
      <4>2. l + n = list[f][q][v] + op.removed[q][v]
        BY <2>2, <2>3, <2>5
      <4> QED BY <2>1, <3>1, <4>1, <4>2
    <3>2. CASE ~(r = q /\ w = v)
      BY <2>1, <2>7, <2>8, <3>2
    <3> QED BY <3>1, <3>2
  <2> HIDE DEF f
  <2>10. op'.fam = f
    BY <1>1 DEF f
  <2> QED BY <1>1, <2>7, <2>9, <2>10 DEF Accounted
<1>4. Reviewing' /\ Snapshot'
  BY <1>1, <1>2 DEF ReviewInv, Reviewing, Snapshot
<1>5. op.cmd # "typed" => Accounted'
  BY <1>1 DEF Accounted
<1> QED BY <1>1, <1>3, <1>4, <1>5 DEF ReviewInv

(* The other steps of commands are of no apply, or end one.                *)
LEMMA OthersReviewed ==
    ASSUME ReviewInv,
           DryRun \/ WriteReport \/ FinishRetire \/ FinishRecover \/ Interrupt
             \/ (\E f \in Families : Standalone(f))
             \/ (\E v \in Values : RecoverTransient(v))
    PROVE  ReviewInv'
<1>1. ListInv'
  BY CommandKeeps, RecoverKeeps DEF ReviewInv
<1>2. CASE WriteReport \/ FinishRetire \/ Interrupt
  BY <1>1, <1>2, NoApplyKeeps DEF WriteReport, FinishRetire, Interrupt, NoApply, Idle, ReviewInv
<1>3. CASE DryRun \/ \E f \in Families : Standalone(f)
  <2>1. op'.cmd \in {"dry", "alone"}
    BY <1>3 DEF DryRun, Standalone, Idle
  <2> QED BY <1>1, <2>1, NoApplyKeeps DEF NoApply, ReviewInv
<1>4. CASE FinishRecover \/ \E v \in Values : RecoverTransient(v)
  <2>1. op.step = "recover" /\ (op'.cmd = op.cmd \/ op' = Idle)
    BY <1>4 DEF FinishRecover, RecoverTransient, ReviewInv, ListInv, IsCommand
  <2>2. op'.cmd \notin {"apply", "typed"}
    BY <2>1 DEF ReviewInv, Snapshot, Accounted, Idle
  <2> QED BY <1>1, <2>2, NoApplyKeeps DEF NoApply, ReviewInv
<1> QED BY <1>2, <1>3, <1>4

LEMMA ExitKeepsReview ==
    ASSUME ~OldInstancesDuringApply
    PROVE  ReviewInv /\ [ExitNext]_exitVars => ReviewInv'
<1> SUFFICES ASSUME ReviewInv, [ExitNext]_exitVars PROVE ReviewInv'
  OBVIOUS
<1>1. CASE Next
  BY <1>1, ApplicationReviewed, ApplyReviewed, CountReviewed, ReadReviewed,
     CompareReviewed, RemoveReviewed, OthersReviewed DEF Next, Command
<1>2. CASE UNCHANGED vars
  <2>1. UNCHANGED <<list, row, report, op, old, pushes, owed>>
    BY <1>2 DEF vars
  <2>2. ListInv'
    BY <1>2, ExitKeepsLists DEF exitVars, ReviewInv, ListInv, Planned, IsCommand, OwnFamily,
       EvidenceKept, vars
  <2>3. Seen' <=> Seen
    BY <2>1 DEF Seen
  <2> QED BY <2>1, <2>2, <2>3 DEF ReviewInv, Reviewing, Snapshot, Accounted
<1> QED BY <1>1, <1>2 DEF ExitNext, RetireLists, RetireKeys, HandOverEvents, exitVars

(* With the old instances stopped, an apply of the coordinator removes of  *)
(* each entry no more than the report it was given shows: the second       *)
(* snapshot is compared, and LREM counts what it took.                     *)
THEOREM RemovedReviewed ==
    ASSUME ~OldInstancesDuringApply
    PROVE  ExitSpec => []RemovedWereReviewed
<1>1. ASSUME ReviewInv PROVE RemovedWereReviewed
  <2> SUFFICES ASSUME op.cmd = "typed", NEW q \in Lists, NEW v \in Values
               PROVE  op.removed[q][v] <= report.inv[op.fam].seen[q][v]
    BY DEF RemovedWereReviewed
  <2>1. /\ op.removed[q][v] \in Nat
        /\ list[op.fam][q][v] + op.removed[q][v] = report.inv[op.fam].seen[q][v]
    BY <1>1 DEF ReviewInv, Accounted, Bag
  <2>2. list[op.fam][q][v] \in Nat
    BY <1>1 DEF ReviewInv, Reviewing, ListInv, Counts, Bag
  <2> QED BY <2>1, <2>2
<1>2. ASSUME ExitInit PROVE ReviewInv
  <2>1. ListInv /\ op.cmd = "none"
    BY <1>2, InitListInv DEF ExitInit, Init, Idle
  <2> QED BY <2>1 DEF ReviewInv, Reviewing, Snapshot, Accounted
<1> QED BY <1>1, <1>2, ExitKeepsReview, PTL DEF ExitSpec
=============================================================================
