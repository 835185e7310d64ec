-------------------------- MODULE HydrationProofs --------------------------
(***************************************************************************)
(* Theorems about contact snapshots and their hydration, for any contacts, *)
(* pollers, snapshots and faults.                                          *)
(*                                                                         *)
(* A field never goes back because it is never newer than the time of its  *)
(* row (Ordered): a snapshot that passes the comparison of times is then   *)
(* as new as the field it replaces.  That rests on snapshots that date     *)
(* their own fields; the merge of repeated contacts breaks it.             *)
(***************************************************************************)
EXTENDS ContactHydration, TLAPS

(* A field is at most as new as its row or its snapshot.                   *)
Ordered(row) == row.field <= row.updated

RowsOrdered == \A c \in Contacts : Ordered(contact[c])

(* What a poller carries from one step to the next.                        *)
Carries(p) ==
    /\ poller[p].at # "idle" => poller[p].on \in Contacts
    /\ poller[p].at = "publish" => poller[p].got \in Snapshots
    /\ poller[p].at = "succeed" => contact[poller[p].on].source = "provider"

(* The inductive invariant.                                                *)
IInv ==
    /\ TypeOK
    /\ RowsOrdered
    /\ \A p \in Pollers : Carries(p)
    /\ SucceededHasData
-----------------------------------------------------------------------------
(* Whatever is merged, a row has data, its type, and stays ordered.        *)
LEMMA MergedFits ==
    ASSUME NEW row \in Contact, Ordered(row), NEW s \in Snapshot, Ordered(s)
    PROVE  /\ Merged(row, s) \in Contact
           /\ Merged(row, s).source = "provider"
           /\ Ordered(Merged(row, s))
  BY DEF Merged, Later, Ordered, Contact, Snapshot, Undated, Null

(* A snapshot that dates its field never takes a row back.                 *)
LEMMA MergedNeverOlder ==
    ASSUME NEW row \in Contact, Ordered(row), NEW s \in Snapshot,
           s.field \in {Null, s.updated}
    PROVE  Merged(row, s).field >= row.field
  BY DEF Merged, Later, Ordered, Contact, Snapshot, Undated, Null

(* Two complete dated snapshots give one row in either order.              *)
THEOREM OrderDoesNotMatter ==
    ASSUME NEW row \in Contact, Ordered(row),
           NEW a \in Snapshot, NEW b \in Snapshot,
           a.updated # Undated, a.field = a.updated, a.created,
           b.updated # Undated, b.field = b.updated, b.created
    PROVE  Merged(Merged(row, a), b) = Merged(Merged(row, b), a)
  BY DEF Merged, Later, Ordered, Contact, Snapshot, Undated, Null

(* What a webhook, a poller or an acquisition may publish.                 *)
LEMMA PublishedFits ==
    /\ \A s \in Snapshots : s \in Snapshot /\ Ordered(s)
    /\ \A s \in Acquired : s \in Snapshot /\ Ordered(s)
    /\ ~Repeated => Acquired = Snapshots
<1>1. \A s \in Snapshots : s \in Snapshot /\ Ordered(s)
  BY HydrationAssumption DEF HydrationAssumption, Snapshot, Ordered, Null
<1>2. ASSUME NEW a \in Snapshot, NEW b \in Snapshot, Ordered(a), Ordered(b)
      PROVE  /\ MergedDuplicates(a, b) \in Snapshot
             /\ Ordered(MergedDuplicates(a, b))
  BY <1>2 DEF MergedDuplicates, Snapshot, Ordered, Null
<1> QED
  BY <1>1, <1>2 DEF Acquired

LEMMA IdleIsJob == Idle \in Job /\ Idle.at = "idle"
  BY DEF Idle, Job, Nothing, Snapshot, Undated, Null

LEMMA FaultTyped ==
    ASSUME TypeOK, Fault PROVE faults' \in 0..MaxFaults
  BY HydrationAssumption DEF TypeOK, Fault, HydrationAssumption
-----------------------------------------------------------------------------
LEMMA InitIInv == Init => IInv
<1> SUFFICES ASSUME Init PROVE IInv
  OBVIOUS
<1>1. Absent \in Contact /\ Ordered(Absent)
  BY DEF Absent, Contact, Ordered, Undated, Null
<1>2. NoEntry \in Entry /\ NoEntry.status = "none"
  BY HydrationAssumption DEF NoEntry, Entry, HydrationAssumption
<1>3. Idle \in Job /\ Idle.at = "idle"
  BY IdleIsJob
<1>4. TypeOK
  BY <1>1, <1>2, <1>3, HydrationAssumption DEF Init, TypeOK, HydrationAssumption
<1> QED
  BY <1>1, <1>2, <1>3, <1>4
     DEF Init, IInv, RowsOrdered, Carries, SucceededHasData

(* A step that changes contacts only by merging, or not at all.            *)
LEMMA ContactsMerge ==
    ASSUME IInv, contact' \in [Contacts -> Contact],
           \A c \in Contacts :
               \/ contact'[c] = contact[c]
               \/ \E s \in Acquired \cup Snapshots :
                      contact'[c] = Merged(contact[c], s)
    PROVE  /\ RowsOrdered'
           /\ \A c \in Contacts : contact[c].source = "provider"
                                      => contact'[c].source = "provider"
<1>1. ASSUME NEW c \in Contacts
      PROVE  /\ Ordered(contact'[c])
             /\ contact[c].source = "provider" => contact'[c].source = "provider"
  <2>1. contact[c] \in Contact /\ Ordered(contact[c])
    BY DEF IInv, TypeOK, RowsOrdered
  <2>2. CASE contact'[c] = contact[c]
    BY <2>1, <2>2
  <2>3. ASSUME NEW s \in Acquired \cup Snapshots,
               contact'[c] = Merged(contact[c], s)
        PROVE  Ordered(contact'[c]) /\ contact'[c].source = "provider"
    BY <2>1, <2>3, PublishedFits, MergedFits
  <2> QED
    BY <2>2, <2>3
<1> QED
  BY <1>1 DEF RowsOrdered

(* What ends in a known status is a row of the queue.                      *)
LEMMA EndedFits ==
    ASSUME NEW e \in Entry, NEW due \in BOOLEAN,
           NEW status \in {"succeeded", "failed"}
    PROVE  /\ Ended(e, status) \in Entry
           /\ Ended(e, status).status = status
           /\ [Ended(e, status) EXCEPT !.due = due] \in Entry
           /\ [Ended(e, status) EXCEPT !.due = due].status = status
<1>1. Ended(e, status) \in Entry /\ Ended(e, status).status = status
  BY DEF Ended, Entry
<1> DEFINE ended == Ended(e, status)
<1> HIDE DEF ended
<1>2. ASSUME ended \in Entry
      PROVE  /\ [ended EXCEPT !.due = due] \in Entry
             /\ [ended EXCEPT !.due = due].status = ended.status
  BY <1>2 DEF Entry
<1> QED
  BY <1>1, <1>2 DEF ended

LEMMA ReferKeeps ==
    ASSUME IInv, NEW c \in Contacts, Refer(c)
    PROVE  IInv'
<1>1. \A d \in Contacts :
          /\ contact[d] \in Contact
          /\ contact'[d] \in Contact
          /\ contact'[d].field = contact[d].field
          /\ contact'[d].updated = contact[d].updated
          /\ contact[d].source = "provider" => contact'[d].source = "provider"
  BY DEF Refer, IInv, TypeOK, Contact
<1>2. \A d \in Contacts :
          /\ queue'[d] \in Entry
          /\ queue'[d].status = "succeeded" => queue[d].status = "succeeded"
  BY DEF Refer, IInv, TypeOK, Entry
<1>3. TypeOK'
  BY <1>1, <1>2 DEF Refer, IInv, TypeOK
<1> QED
  BY <1>1, <1>2, <1>3
     DEF Refer, IInv, RowsOrdered, Ordered, Carries, SucceededHasData

LEMMA TicketWebhookKeeps ==
    ASSUME IInv, NEW c \in Contacts, TicketWebhook(c)
    PROVE  IInv'
<1>1. PICK s \in Snapshots : contact' = [contact EXCEPT ![c] = Merged(@, s)]
  BY DEF TicketWebhook
<1>2. /\ contact[c] \in Contact /\ Ordered(contact[c])
      /\ s \in Snapshot /\ Ordered(s)
  BY PublishedFits DEF IInv, TypeOK, RowsOrdered
<1>3. /\ Merged(contact[c], s) \in Contact
      /\ Merged(contact[c], s).source = "provider"
  BY <1>2, MergedFits
<1>4. /\ contact' \in [Contacts -> Contact] /\ contact'[c].source = "provider"
      /\ RowsOrdered'
      /\ \A d \in Contacts : contact[d].source = "provider"
                                 => contact'[d].source = "provider"
  <2>1. contact' \in [Contacts -> Contact] /\ contact'[c].source = "provider"
    BY <1>1, <1>3 DEF IInv, TypeOK
  <2>2. \A d \in Contacts : \/ contact'[d] = contact[d]
                            \/ contact'[d] = Merged(contact[d], s)
    BY <1>1 DEF IInv, TypeOK
  <2> QED
    BY <2>1, <2>2, ContactsMerge
<1>5. /\ \A d \in Contacts : queue'[d] \in Entry
      /\ \A d \in Contacts \ {c} : queue'[d] = queue[d]
      /\ queue' \in [Contacts -> Entry]
  <2> DEFINE entry == IF queue[c].status = "none" THEN queue[c]
                      ELSE [Ended(queue[c], "succeeded") EXCEPT !.due = TRUE]
  <2>1. queue \in [Contacts -> Entry] /\ queue[c] \in Entry
    BY DEF IInv, TypeOK
  <2>2. entry \in Entry
    BY <2>1, EndedFits
  <2>3. queue' = [queue EXCEPT ![c] = entry]
    BY DEF TicketWebhook
  <2> HIDE DEF entry
  <2> QED
    BY <2>1, <2>2, <2>3
<1>6. TypeOK'
  BY <1>4, <1>5 DEF TicketWebhook, IInv, TypeOK
<1> QED
  BY <1>4, <1>5, <1>6 DEF TicketWebhook, IInv, Carries, SucceededHasData

LEMMA BackfillKeeps ==
    ASSUME IInv, Backfill
    PROVE  IInv'
<1>1. PICK C \in (SUBSET Contacts) \ {{}} : \E got \in [C -> Acquired] :
          contact' = [c \in Contacts |-> IF c \in C THEN Merged(contact[c], got[c])
                                                    ELSE contact[c]]
  BY DEF Backfill
<1>2. PICK got \in [C -> Acquired] :
          contact' = [c \in Contacts |-> IF c \in C THEN Merged(contact[c], got[c])
                                                    ELSE contact[c]]
  BY <1>1
<1>3. ASSUME NEW c \in Contacts
      PROVE  /\ contact'[c] \in Contact
             /\ \/ contact'[c] = contact[c]
                \/ \E s \in Acquired \cup Snapshots :
                       contact'[c] = Merged(contact[c], s)
  <2>1. contact[c] \in Contact /\ Ordered(contact[c])
    BY DEF IInv, TypeOK, RowsOrdered
  <2>2. CASE c \in C
    <3>1. got[c] \in Acquired /\ contact'[c] = Merged(contact[c], got[c])
      BY <1>2, <2>2
    <3> QED
      BY <2>1, <3>1, PublishedFits, MergedFits
  <2>3. CASE c \notin C
    BY <1>2, <2>1, <2>3
  <2> QED
    BY <2>2, <2>3
<1>4. contact' \in [Contacts -> Contact]
  BY <1>2, <1>3
<1>5. /\ RowsOrdered'
      /\ \A d \in Contacts : contact[d].source = "provider"
                                 => contact'[d].source = "provider"
  BY <1>3, <1>4, ContactsMerge
<1> QED
  BY <1>4, <1>5 DEF Backfill, IInv, TypeOK, Carries, SucceededHasData
-----------------------------------------------------------------------------
(* A poller that leaves its row carries nothing.                           *)
LEMMA LeaveKeeps ==
    ASSUME IInv, NEW p \in Pollers, Leave(p)
    PROVE  /\ poller' \in [Pollers -> Job]
           /\ poller'[p].at = "idle"
           /\ \A q \in Pollers \ {p} : poller'[q] = poller[q]
  BY IdleIsJob DEF IInv, TypeOK, Leave

LEMMA ClaimKeeps ==
    ASSUME IInv, NEW p \in Pollers, Claim(p)
    PROVE  IInv'
<1>1. PICK c \in Contacts :
          /\ queue' = [queue EXCEPT ![c] =
                [status |-> "running", due |-> TRUE, lease |-> p,
                 attempts |-> IF @.attempts < Limit THEN @.attempts + 1 ELSE Limit,
                 expired |-> FALSE]]
          /\ poller' = [poller EXCEPT ![p].at = "fetch", ![p].on = c]
  BY DEF Claim
<1>2. UNCHANGED <<contact, faults>>
  BY DEF Claim
<1>3. /\ queue' \in [Contacts -> Entry]
      /\ \A d \in Contacts : queue'[d].status = "succeeded"
                                 => queue[d].status = "succeeded"
  BY <1>1, HydrationAssumption DEF IInv, TypeOK, Entry, HydrationAssumption
<1>4. /\ poller' \in [Pollers -> Job]
      /\ poller'[p].at = "fetch" /\ poller'[p].on \in Contacts
      /\ \A q \in Pollers \ {p} : poller'[q] = poller[q]
  BY <1>1 DEF IInv, TypeOK, Job
<1>5. TypeOK'
  BY <1>2, <1>3, <1>4 DEF IInv, TypeOK
<1> QED
  BY <1>2, <1>3, <1>4, <1>5
     DEF IInv, RowsOrdered, Ordered, Carries, SucceededHasData

LEMMA FetchKeeps ==
    ASSUME IInv, NEW p \in Pollers, Fetch(p)
    PROVE  IInv'
<1>1. /\ UNCHANGED <<contact, queue>>
      /\ poller[p].on \in Contacts
  BY DEF Fetch, IInv, Carries
<1>2. /\ poller' \in [Pollers -> Job]
      /\ poller'[p].on = poller[p].on
      /\ poller'[p].at \in {"publish", "retry", "fail"}
      /\ poller'[p].at = "publish" => poller'[p].got \in Snapshots
      /\ \A q \in Pollers \ {p} : poller'[q] = poller[q]
  <2>1. CASE Goto(p, "retry") \/ Goto(p, "fail")
    BY <2>1 DEF Goto, IInv, TypeOK, Job
  <2>2. ASSUME NEW s \in Snapshots,
               poller' = [poller EXCEPT ![p].at = "publish", ![p].got = s]
        PROVE  /\ poller' \in [Pollers -> Job]
               /\ poller'[p].on = poller[p].on
               /\ poller'[p].at = "publish" /\ poller'[p].got \in Snapshots
               /\ \A q \in Pollers \ {p} : poller'[q] = poller[q]
    <3>1. poller \in [Pollers -> Job] /\ poller[p] \in Job
      BY DEF IInv, TypeOK
    <3>2. s \in Snapshot
      BY PublishedFits
    <3> DEFINE new == [poller[p] EXCEPT !.at = "publish", !.got = s]
    <3>3. /\ new \in Job /\ new.on = poller[p].on
          /\ new.at = "publish" /\ new.got = s
      BY <3>1, <3>2 DEF Job
    <3>4. poller' = [poller EXCEPT ![p] = new]
      BY <2>2
    <3> HIDE DEF new
    <3> QED
      BY <3>1, <3>3, <3>4
  <2> QED
    BY <2>1, <2>2 DEF Fetch
<1>3. faults' \in 0..MaxFaults
  BY FaultTyped DEF Fetch, IInv, TypeOK
<1>4. TypeOK'
  BY <1>1, <1>2, <1>3 DEF IInv, TypeOK
<1> QED
  BY <1>1, <1>2, <1>4
     DEF IInv, RowsOrdered, Ordered, Carries, SucceededHasData

LEMMA PublishKeeps ==
    ASSUME IInv, NEW p \in Pollers, Publish(p)
    PROVE  IInv'
<1> DEFINE c == poller[p].on
           s == poller[p].got
<1>1. /\ c \in Contacts /\ s \in Snapshots
      /\ contact[c] \in Contact /\ Ordered(contact[c])
      /\ s \in Snapshot /\ Ordered(s)
      /\ UNCHANGED queue
  BY PublishedFits DEF Publish, IInv, Carries, TypeOK, RowsOrdered
<1>2. /\ contact' \in [Contacts -> Contact]
      /\ RowsOrdered'
      /\ \A d \in Contacts : contact[d].source = "provider"
                                 => contact'[d].source = "provider"
      /\ \/ contact'[c].source = "provider" /\ Goto(p, "succeed")
         \/ Goto(p, "fail")
  <2>1. CASE UNCHANGED contact /\ Goto(p, "fail")
    BY <2>1 DEF IInv, TypeOK, RowsOrdered, Ordered
  <2>2. CASE /\ contact' = [contact EXCEPT ![c] = Merged(@, s)]
             /\ Goto(p, "succeed")
    <3>1. /\ Merged(contact[c], s) \in Contact
          /\ Merged(contact[c], s).source = "provider"
      BY <1>1, MergedFits
    <3>2. /\ contact' \in [Contacts -> Contact]
          /\ contact'[c].source = "provider"
      BY <1>1, <2>2, <3>1 DEF IInv, TypeOK
    <3>3. \A d \in Contacts : \/ contact'[d] = contact[d]
                              \/ contact'[d] = Merged(contact[d], s)
      BY <1>1, <2>2 DEF IInv, TypeOK
    <3> QED
      BY <1>1, <2>2, <3>2, <3>3, ContactsMerge
  <2> QED
    BY <2>1, <2>2 DEF Publish
<1>3. /\ poller' \in [Pollers -> Job]
      /\ poller'[p].on = c
      /\ poller'[p].at \in {"succeed", "fail"}
      /\ poller'[p].at = "succeed" => contact'[c].source = "provider"
      /\ \A q \in Pollers \ {p} : poller'[q] = poller[q]
  BY <1>2 DEF Goto, IInv, TypeOK, Job
<1>4. faults' \in 0..MaxFaults
  BY FaultTyped DEF Publish, IInv, TypeOK
<1>5. TypeOK'
  BY <1>1, <1>2, <1>3, <1>4 DEF IInv, TypeOK
<1> QED
  BY <1>1, <1>2, <1>3, <1>5 DEF IInv, Carries, SucceededHasData

LEMMA MarkSuccessKeeps ==
    ASSUME IInv, NEW p \in Pollers, MarkSuccess(p)
    PROVE  IInv'
<1> DEFINE c == poller[p].on
<1>1. /\ c \in Contacts /\ contact[c].source = "provider"
      /\ UNCHANGED <<contact, faults>>
  BY DEF MarkSuccess, IInv, Carries
<1>2. /\ queue' \in [Contacts -> Entry]
      /\ \A d \in Contacts \ {c} : queue'[d] = queue[d]
  <2>1. queue \in [Contacts -> Entry] /\ queue[c] \in Entry
    BY <1>1 DEF IInv, TypeOK
  <2>2. Ended(queue[c], "succeeded") \in Entry
    BY <2>1, EndedFits
  <2>3. queue' = [queue EXCEPT ![c] = IF Holds(p) THEN Ended(queue[c], "succeeded")
                                                  ELSE queue[c]]
    BY DEF MarkSuccess
  <2> QED
    BY <1>1, <2>1, <2>2, <2>3
<1>3. /\ poller' \in [Pollers -> Job]
      /\ poller'[p].at = "idle"
      /\ \A q \in Pollers \ {p} : poller'[q] = poller[q]
  BY LeaveKeeps DEF MarkSuccess
<1>4. TypeOK'
  BY <1>1, <1>2, <1>3 DEF IInv, TypeOK
<1> QED
  BY <1>1, <1>2, <1>3, <1>4
     DEF IInv, RowsOrdered, Ordered, Carries, SucceededHasData

LEMMA MarkFailureKeeps ==
    ASSUME IInv, NEW p \in Pollers, MarkFailure(p)
    PROVE  IInv'
<1> DEFINE c == poller[p].on
<1>1. c \in Contacts /\ UNCHANGED <<contact, faults>>
  BY DEF MarkFailure, IInv, Carries
<1>2. GivesUp(p) \in BOOLEAN
  BY DEF GivesUp
<1>3. /\ queue' \in [Contacts -> Entry]
      /\ \A d \in Contacts : queue'[d].status = "succeeded"
                                 => queue[d].status = "succeeded"
  <2> DEFINE entry == [Ended(queue[c], "failed") EXCEPT !.due = GivesUp(p)]
  <2>1. queue \in [Contacts -> Entry] /\ queue[c] \in Entry
    BY <1>1 DEF IInv, TypeOK
  <2>2. entry \in Entry /\ entry.status = "failed"
    BY <1>2, <2>1, EndedFits
  <2>3. queue' = [queue EXCEPT ![c] = IF Holds(p) THEN entry ELSE queue[c]]
    BY DEF MarkFailure
  <2> HIDE DEF entry
  <2> QED
    BY <1>1, <2>1, <2>2, <2>3
<1>4. /\ poller' \in [Pollers -> Job]
      /\ poller'[p].at = "idle"
      /\ \A q \in Pollers \ {p} : poller'[q] = poller[q]
  BY LeaveKeeps DEF MarkFailure
<1>5. TypeOK'
  BY <1>1, <1>3, <1>4 DEF IInv, TypeOK
<1> QED
  BY <1>1, <1>3, <1>4, <1>5
     DEF IInv, RowsOrdered, Ordered, Carries, SucceededHasData

LEMMA AbandonKeeps ==
    ASSUME IInv, NEW p \in Pollers, Abandon(p)
    PROVE  IInv'
<1>1. UNCHANGED <<contact, queue>>
  BY DEF Abandon
<1>2. /\ poller' \in [Pollers -> Job]
      /\ poller'[p].at = "idle"
      /\ \A q \in Pollers \ {p} : poller'[q] = poller[q]
  BY LeaveKeeps DEF Abandon
<1>3. faults' \in 0..MaxFaults
  BY FaultTyped DEF Abandon, IInv
<1> QED
  BY <1>1, <1>2, <1>3
     DEF IInv, TypeOK, RowsOrdered, Ordered, Carries, SucceededHasData

LEMMA TimeKeeps ==
    ASSUME IInv, NEW c \in Contacts, ComeDue(c) \/ ExpireLease(c)
    PROVE  IInv'
<1>1. UNCHANGED <<contact, poller>>
  BY DEF ComeDue, ExpireLease
<1>2. /\ queue' \in [Contacts -> Entry]
      /\ \A d \in Contacts : queue'[d].status = queue[d].status
  <2>1. CASE ComeDue(c)
    BY <2>1 DEF ComeDue, IInv, TypeOK, Entry
  <2>2. CASE ExpireLease(c)
    <3>1. queue' = [queue EXCEPT ![c].expired = TRUE]
      BY <2>2 DEF ExpireLease
    <3> QED
      BY <3>1 DEF IInv, TypeOK, Entry
  <2> QED
    BY <2>1, <2>2
<1>3. faults' \in 0..MaxFaults
  BY FaultTyped DEF ComeDue, ExpireLease, IInv, TypeOK
<1> QED
  BY <1>1, <1>2, <1>3
     DEF IInv, TypeOK, RowsOrdered, Ordered, Carries, SucceededHasData

LEMMA NextKeepsIInv ==
    ASSUME IInv, [Next]_vars
    PROVE  IInv'
<1>1. CASE UNCHANGED vars
  BY <1>1 DEF vars, IInv, TypeOK, RowsOrdered, Ordered, Carries, SucceededHasData
<1>2. ASSUME NEW c \in Contacts,
             Refer(c) \/ TicketWebhook(c) \/ ComeDue(c) \/ ExpireLease(c)
      PROVE  IInv'
  BY <1>2, ReferKeeps, TicketWebhookKeeps, TimeKeeps
<1>3. ASSUME NEW p \in Pollers, Claim(p) \/ Work(p) \/ Abandon(p)
      PROVE  IInv'
  BY <1>3, ClaimKeeps, FetchKeeps, PublishKeeps, MarkSuccessKeeps,
     MarkFailureKeeps, AbandonKeeps DEF Work
<1> QED
  BY <1>1, <1>2, <1>3, BackfillKeeps DEF Next

LEMMA Inductive == Spec => []IInv
  BY InitIInv, NextKeepsIInv, PTL DEF Spec
-----------------------------------------------------------------------------
(* Every row, claim and answer of the store and its pollers has its type.  *)
THEOREM Typed == Spec => []TypeOK
  BY Inductive, PTL DEF IInv

(* A row that is reported hydrated has provider data: a poller reports     *)
(* success only after its answer is stored.                                *)
THEOREM HydratedHasData == Spec => []SucceededHasData
  BY Inductive, PTL DEF IInv

(* Without repeated contacts in one acquisition, no field goes back or is  *)
(* erased, however webhooks, backfills and late answers are ordered.       *)
THEOREM NeverOlder ==
    ASSUME ~Repeated
    PROVE  Spec => FieldNeverOlder
<1>1. ASSUME IInv, [Next]_vars, NEW c \in Contacts
      PROVE  contact'[c].field >= contact[c].field
  <2>1. contact[c] \in Contact /\ Ordered(contact[c])
    BY <1>1 DEF IInv, TypeOK, RowsOrdered
  <2>2. \A s \in Snapshots : Merged(contact[c], s).field >= contact[c].field
    BY <2>1, MergedNeverOlder, PublishedFits, HydrationAssumption
       DEF HydrationAssumption
  <2>3. \/ contact'[c].field = contact[c].field
        \/ \E s \in Snapshots : contact'[c] = Merged(contact[c], s)
    <3>1. CASE UNCHANGED contact
      BY <3>1
    <3>2. ASSUME NEW d \in Contacts, Refer(d) \/ TicketWebhook(d)
          PROVE  <2>3
      BY <1>1, <3>2 DEF Refer, TicketWebhook, IInv, TypeOK, Contact
    <3>3. CASE Backfill
      <4>1. Acquired = Snapshots
        BY PublishedFits
      <4>2. PICK C \in (SUBSET Contacts) \ {{}} : \E got \in [C -> Snapshots] :
                contact' = [d \in Contacts |-> IF d \in C
                                              THEN Merged(contact[d], got[d])
                                              ELSE contact[d]]
        BY <3>3, <4>1 DEF Backfill
      <4>3. PICK got \in [C -> Snapshots] :
                contact' = [d \in Contacts |-> IF d \in C
                                              THEN Merged(contact[d], got[d])
                                              ELSE contact[d]]
        BY <4>2
      <4> QED
        BY <1>1, <4>3
    <3>4. ASSUME NEW p \in Pollers, Publish(p)
          PROVE  <2>3
      BY <1>1, <3>4 DEF Publish, IInv, TypeOK, Carries
    <3>5. ASSUME NEW p \in Pollers,
                 Claim(p) \/ Fetch(p) \/ MarkSuccess(p) \/ MarkFailure(p)
                          \/ Abandon(p)
          PROVE  UNCHANGED contact
      BY <3>5 DEF Claim, Fetch, MarkSuccess, MarkFailure, Abandon
    <3>6. ASSUME NEW d \in Contacts, ComeDue(d) \/ ExpireLease(d)
          PROVE  UNCHANGED contact
      BY <3>6 DEF ComeDue, ExpireLease
    <3> QED
      BY <1>1, <3>1, <3>2, <3>3, <3>4, <3>5, <3>6 DEF Next, Work, vars
  <2> QED
    BY <2>1, <2>2, <2>3 DEF Contact, Null
<1>2. IInv /\ [Next]_vars
        => [\A c \in Contacts : contact'[c].field >= contact[c].field]_vars
  BY <1>1
<1> QED
  BY <1>2, Inductive, PTL DEF Spec, FieldNeverOlder

-----------------------------------------------------------------------------
(* p reports that its work on c failed, under the claim it still holds.    *)
ReportsFailure(p, c) ==
    /\ poller[p].on = c /\ queue[c].lease = p /\ queue[c].status = "running"
    /\ poller'[p] = Idle

(* The ways the status of a row may change.                                *)
Evolves(c) ==
    \/ queue'[c].status = queue[c].status
    \/ queue[c].status = "none" /\ queue'[c].status = "pending"
    \/ queue'[c].status = "succeeded"
    \/ Due(c) /\ queue'[c].status = "running"
    \/ /\ queue'[c].status = "failed"
       /\ \E p \in Pollers : ReportsFailure(p, c)

LEMMA Evolution ==
    ASSUME IInv, [Next]_vars, NEW c \in Contacts
    PROVE  Evolves(c)
<1>1. CASE UNCHANGED queue
  BY <1>1 DEF Evolves
<1>2. ASSUME NEW d \in Contacts, Refer(d) \/ TicketWebhook(d)
      PROVE  Evolves(c)
  <2>1. CASE Refer(d)
    BY <2>1 DEF Refer, Evolves, IInv, TypeOK, Entry
  <2>2. CASE TicketWebhook(d)
    BY <2>2 DEF TicketWebhook, Ended, Evolves, IInv, TypeOK, Entry
  <2> QED
    BY <1>2, <2>1, <2>2
<1>3. ASSUME NEW d \in Contacts, ComeDue(d) \/ ExpireLease(d)
      PROVE  queue'[c].status = queue[c].status
  <2>1. \/ queue' = [queue EXCEPT ![d].due = TRUE]
        \/ queue' = [queue EXCEPT ![d].expired = TRUE]
    BY <1>3 DEF ComeDue, ExpireLease
  <2> QED
    BY <2>1 DEF IInv, TypeOK, Entry
<1>4. ASSUME NEW p \in Pollers, Claim(p)
      PROVE  Evolves(c)
  <2>1. PICK d \in Contacts :
            /\ Due(d)
            /\ queue' = [queue EXCEPT ![d] =
                  [status |-> "running", due |-> TRUE, lease |-> p,
                   attempts |-> IF @.attempts < Limit THEN @.attempts + 1
                                                      ELSE Limit,
                   expired |-> FALSE]]
    BY <1>4 DEF Claim
  <2>2. c = d => queue'[c].status = "running"
    BY <2>1 DEF IInv, TypeOK
  <2>3. c # d => queue'[c] = queue[c]
    BY <2>1 DEF IInv, TypeOK
  <2> QED
    BY <2>1, <2>2, <2>3 DEF Evolves
<1>5. ASSUME NEW p \in Pollers, MarkSuccess(p)
      PROVE  Evolves(c)
  BY <1>5 DEF MarkSuccess, Ended, Evolves, IInv, TypeOK, Carries, Entry
<1>6. ASSUME NEW p \in Pollers, MarkFailure(p)
      PROVE  Evolves(c)
  <2>1. CASE c = poller[p].on /\ Holds(p)
    <3>1. queue'[c].status = "failed"
      BY <1>6, <2>1 DEF MarkFailure, Ended, IInv, TypeOK, Entry
    <3>2. ReportsFailure(p, c)
      BY <1>6, <2>1 DEF MarkFailure, Leave, Holds, ReportsFailure, IInv, TypeOK
    <3> QED
      BY <3>1, <3>2 DEF Evolves
  <2>2. CASE ~(c = poller[p].on /\ Holds(p))
    BY <1>6, <2>2 DEF MarkFailure, Evolves, IInv, TypeOK, Carries
  <2> QED
    BY <2>1, <2>2
<1>7. ASSUME NEW p \in Pollers, Fetch(p) \/ Publish(p) \/ Abandon(p)
      PROVE  UNCHANGED queue
  BY <1>7 DEF Fetch, Publish, Abandon
<1>8. Backfill => UNCHANGED queue
  BY DEF Backfill
<1> QED
  BY <1>1, <1>2, <1>3, <1>4, <1>5, <1>6, <1>7, <1>8
     DEF Next, Work, vars, Evolves

(* A hydrated contact stays so: neither a claim nor the failure of an      *)
(* overtaken poller touches a succeeded row.                               *)
THEOREM HydratedForGood == Spec => SucceededIsFinal
<1>1. IInv /\ [Next]_vars
        => [\A c \in Contacts : queue[c].status = "succeeded"
                                 => queue'[c].status = "succeeded"]_vars
  BY Evolution DEF Evolves, Due, ReportsFailure
<1> QED
  BY <1>1, Inductive, PTL DEF Spec, SucceededIsFinal

(* Only the holder of the latest claim on a row reports its failure.       *)
THEOREM HolderReports == Spec => FailureByHolder
<1>1. IInv /\ [Next]_vars
        => [\A c \in Contacts :
               queue[c].status # "failed" /\ queue'[c].status = "failed" =>
                   \E p \in Pollers : /\ queue[c].lease = p
                                      /\ poller[p].on = c
                                      /\ poller'[p] = Idle]_vars
  BY Evolution DEF Evolves, ReportsFailure
<1> QED
  BY <1>1, Inductive, PTL DEF Spec, FailureByHolder

(* A scheduled retry is not brought forward: until it is due, only a       *)
(* snapshot from elsewhere changes the status of a failed row.             *)
THEOREM RetryWaits == Spec => BackoffKept
<1>1. IInv /\ [Next]_vars
        => [\A c \in Contacts :
               queue[c].status = "failed" /\ ~queue[c].due =>
                   queue'[c].status \in {"failed", "succeeded"}]_vars
  BY Evolution DEF Evolves, Due, ReportsFailure
<1> QED
  BY <1>1, Inductive, PTL DEF Spec, BackoffKept
=============================================================================
