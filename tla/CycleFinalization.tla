-------------------------- MODULE CycleFinalization --------------------------
(***************************************************************************)
(* Durable finalization of conversation cycles: the rows of                *)
(* conversation_processing_cycles, conversation_cycle_messages,            *)
(* ia_classifications and classification_messages, and the IA workers      *)
(* that claim a cycle and drive it from `pending` to a classification      *)
(* (IAWorker._process_cycle), and then to the admission of its Request.    *)
(*                                                                         *)
(* Every SQL transaction is one action; between two of them the worker     *)
(* holds what it read: the claimed row's snapshot and attempt count, the   *)
(* media it decided to reserve, the branch it chose.  transition_cycle     *)
(* checks the expected status where the caller passes one and never the    *)
(* lease, so LeaseOverrun tells runs in which a worker may outlive its     *)
(* lease from runs in which it may not.                                    *)
(*                                                                         *)
(* The media of a cycle are seen through the promise of their rows, the    *)
(* module MediaOutcome that DurableMedia implements.  Times are the        *)
(* comparisons the SQL makes: due or not, lease live or expired.           *)
(***************************************************************************)
EXTENDS Naturals, FiniteSets

CONSTANTS Cycles,       \* closed tickets, one row each
          Media,        \* messages with audio or image content
          Workers,      \* IA worker processes
          NoWorker,     \* lease_owner IS NULL
          NoCycle,      \* a message no cycle owns, a worker with no claim
          Histories,    \* Histories[c]: ids a history retrieval may yield
          Prepared,     \* cycles with a confirmed identity and a mapping
          MaxRetries,   \* max_retries of the IA worker
          MaxStarts,    \* bound: attempts after which no message is retried
                        \* by its worker or redelivered by the webhook
          MaxFaults,    \* bound: failures, crashes and overrun leases
          LeaseOverrun  \* whether a worker may work past its lease

ASSUME CycleAssumption ==
    /\ NoWorker \notin Workers
    /\ NoCycle \notin Cycles
    /\ Histories \in [Cycles -> SUBSET (SUBSET Media)]
    /\ Prepared \subseteq Cycles
    /\ MaxRetries \in Nat \ {0}
    /\ MaxStarts \in Nat
    /\ MaxFaults \in Nat
    /\ LeaseOverrun \in BOOLEAN

VARIABLES cycle,     \* cycle[c]: the row of cycle c
          member,    \* member[m]: the cycle that owns message m
          verdict,   \* verdict[c]: message_ids of the classification of c
          linked,    \* linked[c]: rows of classification_messages
          request,   \* request[c]: the Request operation of c
          worker,    \* worker[w]: the progress of worker w
          faults,    \* faults so far
          outcome, attempt, result    \* of the media, see MediaOutcome

rows == <<cycle, member, verdict, linked, request>>
mediaVars == <<outcome, attempt, result>>
vars == <<rows, worker, faults, mediaVars>>

Extraction == INSTANCE MediaOutcome
-----------------------------------------------------------------------------
(* Mutant of Recoverable: a failed cycle is polled like the others.        *)
RecoverableOrFailed == {"pending", "recovering_messages", "waiting_media",
                        "building_context", "summarizing", "classifying",
                        "retryable_failure", "failed"}

Recoverable == {"pending", "recovering_messages", "waiting_media",
                "building_context", "summarizing", "classifying",
                "retryable_failure"}
Completed == {"completed"}    \* with or without warnings
Terminal == Completed \cup {"failed"}
Status == {"open", "media_blocked"} \cup Recoverable \cup Terminal

(* A list of message ids that may not be there yet: the snapshot_json of a *)
(* cycle, or the message_ids of its classification.                        *)
IdList == [known : BOOLEAN, ids : SUBSET Media]
Unknown == [known |-> FALSE, ids |-> {}]
Known(S) == [known |-> TRUE, ids |-> S]

Row == [status : Status, due : BOOLEAN, owner : Workers \cup {NoWorker},
        lease : {"none", "live", "expired"}, snapshot : IdList,
        attempts : Nat, classified : BOOLEAN]

(* "open" stands for a ticket that is not closed yet.                      *)
OpenRow == [status |-> "open", due |-> TRUE, owner |-> NoWorker,
            lease |-> "none", snapshot |-> Unknown, attempts |-> 0,
            classified |-> FALSE]

(* at: the next transaction of the worker.                                 *)
Processing == {"recover", "save", "build", "read", "reserve", "block",
               "wait", "summarize", "summarized", "classify", "insert",
               "finish"}
Job == [at : {"idle", "prepare", "admit"} \cup Processing,
        cycle : Cycles \cup {NoCycle}, snapshot : IdList, attempts : Nat,
        toReserve : SUBSET Media]

Idle == [at |-> "idle", cycle |-> NoCycle, snapshot |-> Unknown,
         attempts |-> 0, toReserve |-> {}]

Init ==
    /\ cycle = [c \in Cycles |-> OpenRow]
    /\ member = [m \in Media |-> NoCycle]
    /\ verdict = [c \in Cycles |-> Unknown]
    /\ linked = [c \in Cycles |-> {}]
    /\ request = [c \in Cycles |-> "none"]
    /\ worker = [w \in Workers |-> Idle]
    /\ faults = 0
    /\ Extraction!Init

Fault ==
    /\ faults < MaxFaults
    /\ faults' = faults + 1

Goto(w, step) == worker' = [worker EXCEPT ![w].at = step]
Release(w) == worker' = [worker EXCEPT ![w] = Idle]

(* transition_cycle: the UPDATE matches the row only in an expected        *)
(* status; its caller does not look at the answer.                         *)
Transition(c, expected, row) ==
    cycle' = IF cycle[c].status \in expected
             THEN [cycle EXCEPT ![c] = row]
             ELSE cycle

(* The row in a new status, and the row with its lease given back.         *)
Moved(c, status) == [cycle[c] EXCEPT !.status = status]
Freed(c, status, due) ==
    [cycle[c] EXCEPT !.status = status, !.due = due,
                     !.owner = NoWorker, !.lease = "none"]
-----------------------------------------------------------------------------
(* close_cycle: the ticket closes, history is fetched after a delay.       *)
CloseTicket(c) ==
    /\ cycle[c].status = "open"
    /\ cycle' = [cycle EXCEPT ![c].status = "pending", ![c].due = FALSE]
    /\ UNCHANGED <<member, verdict, linked, request, worker, faults, mediaVars>>

(* next_attempt_at passes.                                                 *)
BecomeDue(c) ==
    /\ ~cycle[c].due
    /\ cycle' = [cycle EXCEPT ![c].due = TRUE]
    /\ UNCHANGED <<member, verdict, linked, request, worker, faults, mediaVars>>

(* lease_expires_at passes: a fault if its owner still works.              *)
WorksOn(w, c) == worker[w].cycle = c /\ worker[w].at \in Processing

ExpireLease(c) ==
    /\ cycle[c].lease = "live"
    /\ cycle' = [cycle EXCEPT ![c].lease = "expired"]
    /\ IF WorksOn(cycle[c].owner, c)
       THEN LeaseOverrun /\ Fault
       ELSE UNCHANGED faults
    /\ UNCHANGED <<member, verdict, linked, request, worker, mediaVars>>

(* Mutants of Claimable: leases are ignored, or are never taken over.      *)
ClaimableLeased(c) == cycle[c].status \in Recoverable /\ cycle[c].due
ClaimableUnleased(c) ==
    cycle[c].status \in Recoverable /\ cycle[c].due /\ cycle[c].lease = "none"

(* claim_next_cycle: lease a due row; its status stays what it was.        *)
Claimable(c) ==
    /\ cycle[c].status \in Recoverable
    /\ cycle[c].due
    /\ cycle[c].lease # "live"

Claim(w, c) ==
    /\ worker[w].at = "idle"
    /\ Claimable(c)
    /\ cycle' = [cycle EXCEPT ![c].owner = w, ![c].lease = "live"]
    /\ worker' = [worker EXCEPT ![w] =
           [at |-> IF cycle[c].snapshot.known THEN "read" ELSE "recover",
            cycle |-> c, snapshot |-> cycle[c].snapshot,
            attempts |-> cycle[c].attempts, toReserve |-> {}]]
    /\ UNCHANGED <<member, verdict, linked, request, faults, mediaVars>>

(* wake_unblocked_media_cycles, before a worker polls.                     *)
Exhausted(m) == outcome[m] = "failed" /\ attempt[m] >= MaxRetries

(* Mutant of WakeUnblocked: attempts are compared whatever the status is.  *)
WakeUnattempted(c) ==
    /\ \E w \in Workers : worker[w].at = "idle"
    /\ cycle[c].status = "media_blocked"
    /\ ~ \E m \in Media : member[m] = c /\ attempt[m] >= MaxRetries
    /\ cycle' = [cycle EXCEPT ![c].status = "waiting_media", ![c].due = TRUE]
    /\ UNCHANGED <<member, verdict, linked, request, worker, faults, mediaVars>>

WakeUnblocked(c) ==
    /\ \E w \in Workers : worker[w].at = "idle"
    /\ cycle[c].status = "media_blocked"
    /\ ~ \E m \in Media : member[m] = c /\ Exhausted(m)
    /\ cycle' = [cycle EXCEPT ![c].status = "waiting_media", ![c].due = TRUE]
    /\ UNCHANGED <<member, verdict, linked, request, worker, faults, mediaVars>>
-----------------------------------------------------------------------------
(* _process_cycle, one transaction at a time.                              *)
StartRecovery(w) ==
    LET c == worker[w].cycle IN
    /\ worker[w].at = "recover"
    /\ Transition(c, {"pending", "retryable_failure", "recovering_messages"},
                  Moved(c, "recovering_messages"))
    /\ Goto(w, "save")
    /\ UNCHANGED <<member, verdict, linked, request, faults, mediaVars>>

(* Mutants of SaveMessages: what the history no longer has is kept, and a  *)
(* message is taken from the cycle that owns it.                           *)
SaveMessagesKeeping(w) ==
    LET c == worker[w].cycle IN
    /\ worker[w].at = "save"
    /\ \E seen \in Histories[c] :
          LET accepted == {m \in seen : member[m] \in {c, NoCycle}} IN
          /\ member' = [m \in Media |-> IF m \in accepted THEN c ELSE member[m]]
          /\ worker' = [worker EXCEPT ![w].at = "build",
                                      ![w].snapshot = Known(accepted)]
    /\ UNCHANGED <<cycle, verdict, linked, request, faults, mediaVars>>

SaveMessagesTaking(w) ==
    LET c == worker[w].cycle IN
    /\ worker[w].at = "save"
    /\ \E seen \in Histories[c] :
          /\ member' = [m \in Media |-> IF m \in seen THEN c
                                        ELSE IF member[m] = c THEN NoCycle
                                        ELSE member[m]]
          /\ worker' = [worker EXCEPT ![w].at = "build",
                                      ![w].snapshot = Known(seen)]
    /\ UNCHANGED <<cycle, verdict, linked, request, faults, mediaVars>>

(* save_cycle_messages with the history just retrieved: replace the        *)
(* messages of the cycle by those that no other cycle owns.                *)
SaveMessages(w) ==
    LET c == worker[w].cycle IN
    /\ worker[w].at = "save"
    /\ \E seen \in Histories[c] :
          LET accepted == {m \in seen : member[m] \in {c, NoCycle}} IN
          /\ member' = [m \in Media |-> IF m \in accepted THEN c
                                        ELSE IF member[m] = c THEN NoCycle
                                        ELSE member[m]]
          /\ worker' = [worker EXCEPT ![w].at = "build",
                                      ![w].snapshot = Known(accepted)]
    /\ UNCHANGED <<cycle, verdict, linked, request, faults, mediaVars>>

BuildContext(w) ==
    LET c == worker[w].cycle IN
    /\ worker[w].at = "build"
    /\ Transition(c, {"recovering_messages"},
                  [Moved(c, "building_context") EXCEPT
                      !.snapshot = worker[w].snapshot])
    /\ Goto(w, "read")
    /\ UNCHANGED <<member, verdict, linked, request, faults, mediaVars>>

(* _ensure_media_jobs: what has no row, or failed with attempts left.      *)
ReadMedia(w) ==
    /\ worker[w].at = "read"
    /\ worker' = [worker EXCEPT ![w].at = "reserve", ![w].toReserve =
           {m \in worker[w].snapshot.ids :
               outcome[m] \in {"none", "failed"} /\ ~Exhausted(m)}]
    /\ UNCHANGED <<rows, faults, mediaVars>>

ReserveMedia(w, m) ==
    /\ worker[w].at = "reserve"
    /\ m \in worker[w].toReserve
    /\ worker' = [worker EXCEPT ![w].toReserve = @ \ {m}]
    /\ \/ Extraction!Admit(m)
       \/ outcome[m] \notin {"none", "failed"} /\ UNCHANGED mediaVars
    /\ UNCHANGED <<rows, faults>>

(* Mutant of InspectMedia: a failed extraction counts as concluded.        *)
InspectConcluded(w) ==
    LET open == {m \in worker[w].snapshot.ids :
                    outcome[m] \notin {"done", "failed"}} IN
    /\ worker[w].at = "reserve"
    /\ worker[w].toReserve = {}
    /\ Goto(w, IF open = {} THEN "classify" ELSE "wait")
    /\ UNCHANGED <<rows, faults, mediaVars>>

(* The states are read again, and decide the branch.                       *)
InspectMedia(w) ==
    LET ids == worker[w].snapshot.ids IN
    /\ worker[w].at = "reserve"
    /\ worker[w].toReserve = {}
    /\ \/ /\ \E m \in ids : Exhausted(m)
          /\ Goto(w, "block")
       \/ /\ \A m \in ids : ~Exhausted(m)
          /\ \E m \in ids : outcome[m] # "done"
          /\ Goto(w, "wait")
       \/ /\ \A m \in ids : outcome[m] = "done"
          /\ \E step \in {"summarize", "classify"} : Goto(w, step)
    /\ UNCHANGED <<rows, faults, mediaVars>>
-----------------------------------------------------------------------------
MediaPhase == {"building_context", "waiting_media", "retryable_failure"}

BlockOnMedia(w) ==
    LET c == worker[w].cycle IN
    /\ worker[w].at = "block"
    /\ Transition(c, MediaPhase,
                  [Freed(c, "media_blocked", TRUE) EXCEPT
                      !.snapshot = worker[w].snapshot])
    /\ Release(w)
    /\ UNCHANGED <<member, verdict, linked, request, faults, mediaVars>>

WaitForMedia(w) ==
    LET c == worker[w].cycle IN
    /\ worker[w].at = "wait"
    /\ Transition(c, MediaPhase,
                  [Freed(c, "waiting_media", FALSE) EXCEPT
                      !.snapshot = worker[w].snapshot])
    /\ Release(w)
    /\ UNCHANGED <<member, verdict, linked, request, faults, mediaVars>>

(* `summarizing` and `classifying` are written whatever the status is.     *)
Advance(w, from, status, to) ==
    LET c == worker[w].cycle IN
    /\ worker[w].at \in from
    /\ Transition(c, Status, [Moved(c, status) EXCEPT
                                 !.snapshot = worker[w].snapshot])
    /\ Goto(w, to)
    /\ UNCHANGED <<member, verdict, linked, request, faults, mediaVars>>

Summarize(w) == Advance(w, {"summarize"}, "summarizing", "summarized")
Classify(w) == Advance(w, {"classify", "summarized"}, "classifying", "insert")

(* insert_classification after the model answered: the idempotency key of  *)
(* the cycle keeps the first row; the links are added in either case.      *)
InsertClassification(w) ==
    LET c == worker[w].cycle
        ids == worker[w].snapshot.ids IN
    /\ worker[w].at = "insert"
    /\ verdict' = [verdict EXCEPT ![c] = IF @.known THEN @ ELSE Known(ids)]
    /\ linked' = [linked EXCEPT ![c] = @ \cup ids]
    /\ Goto(w, "finish")
    /\ UNCHANGED <<cycle, member, request, faults, mediaVars>>

Complete(w) ==
    LET c == worker[w].cycle IN
    /\ worker[w].at = "finish"
    /\ Transition(c, {"classifying"},
                  [Freed(c, "completed", TRUE) EXCEPT
                      !.snapshot = worker[w].snapshot, !.classified = TRUE])
    /\ Goto(w, "prepare")
    /\ UNCHANGED <<member, verdict, linked, request, faults, mediaVars>>

(* prepare_cycle_for_request: the cycle must be completed and prepared.    *)
PrepareRequest(w) ==
    LET c == worker[w].cycle IN
    /\ worker[w].at = "prepare"
    /\ IF cycle[c].status \in Completed /\ c \in Prepared
       THEN Goto(w, "admit")
       ELSE Release(w)
    /\ UNCHANGED <<rows, faults, mediaVars>>

(* _ensure_operation: one durable operation per cycle, whose eligibility   *)
(* is read again and kept as it was when the operation was created.        *)
AdmitRequest(w) ==
    LET c == worker[w].cycle IN
    /\ worker[w].at = "admit"
    /\ request' = [request EXCEPT ![c] =
           IF @ # "none" THEN @
           ELSE IF cycle[c].status \in Completed /\ cycle[c].classified
                THEN "admitted" ELSE "refused"]
    /\ Release(w)
    /\ UNCHANGED <<cycle, member, verdict, linked, faults, mediaVars>>
-----------------------------------------------------------------------------
(* _record_cycle_failure: a provider that will answer later is retried,    *)
(* any other error counts against the attempts read when c was claimed.    *)
RetryProvider(w) ==
    LET c == worker[w].cycle IN
    /\ worker[w].at \in {"summarized", "insert"}
    /\ Transition(c, Status, Freed(c, "retryable_failure", FALSE))
    /\ Release(w)
    /\ Fault
    /\ UNCHANGED <<member, verdict, linked, request, mediaVars>>

RecordFailure(w) ==
    LET c == worker[w].cycle
        n == worker[w].attempts + 1 IN
    /\ worker[w].at \in Processing
    /\ Transition(c, Status,
                  [(IF n >= MaxRetries
                    THEN Freed(c, "failed", TRUE)
                    ELSE Freed(c, "retryable_failure", FALSE))
                   EXCEPT !.attempts = n])
    /\ Release(w)
    /\ Fault
    /\ UNCHANGED <<member, verdict, linked, request, mediaVars>>

(* The process dies; its lease, if it has one, is left to expire.          *)
Crash(w) ==
    /\ worker[w].at # "idle"
    /\ Release(w)
    /\ Fault
    /\ UNCHANGED <<rows, mediaVars>>
-----------------------------------------------------------------------------
(* What the media workers do meanwhile, and a redelivered webhook that     *)
(* admits a message, if only a failed one, again.                          *)
StartExtraction(m) ==
    /\ outcome[m] = "queued"
    /\ Extraction!Start(m)
    /\ UNCHANGED <<rows, worker, faults>>

RetryExtraction(m) ==
    /\ attempt[m] < MaxStarts
    /\ Extraction!Requeue(m)
    /\ UNCHANGED <<rows, worker, faults>>

EndExtraction(m) ==
    /\ Extraction!Succeed(m) \/ Extraction!GiveUp(m)
    /\ UNCHANGED <<rows, worker, faults>>

DeliverMessage(m) ==
    /\ attempt[m] < MaxStarts
    /\ Extraction!Admit(m)
    /\ UNCHANGED <<rows, worker, faults>>

Progress(w) ==
    \/ StartRecovery(w) \/ SaveMessages(w) \/ BuildContext(w)
    \/ ReadMedia(w) \/ (\E m \in Media : ReserveMedia(w, m))
    \/ InspectMedia(w) \/ BlockOnMedia(w) \/ WaitForMedia(w)
    \/ Summarize(w) \/ Classify(w) \/ InsertClassification(w)
    \/ Complete(w) \/ PrepareRequest(w) \/ AdmitRequest(w)

Next ==
    \/ \E c \in Cycles : \/ CloseTicket(c) \/ BecomeDue(c) \/ ExpireLease(c)
                         \/ WakeUnblocked(c)
                         \/ \E w \in Workers : Claim(w, c)
    \/ \E w \in Workers : \/ Progress(w)
                          \/ RetryProvider(w) \/ RecordFailure(w) \/ Crash(w)
    \/ \E m \in Media : \/ StartExtraction(m) \/ RetryExtraction(m)
                        \/ EndExtraction(m) \/ DeliverMessage(m)

Spec == Init /\ [][Next]_vars
-----------------------------------------------------------------------------
(* Fairness.  The loop of a worker catches every exception and each of its *)
(* calls has a timeout; due cycles are claimed oldest first, so one that   *)
(* keeps coming back is claimed in the end; time passes; the media workers *)
(* work and conclude (see DurableMedia).                                   *)
FairSpec ==
    /\ Spec
    /\ \A w \in Workers : WF_vars(Progress(w))
    /\ \A c \in Cycles :
          /\ WF_vars(BecomeDue(c))
          /\ WF_vars(ExpireLease(c))
          /\ WF_vars(WakeUnblocked(c))
          /\ SF_vars(\E w \in Workers : Claim(w, c))
    /\ \A m \in Media : WF_vars(StartExtraction(m)) /\ WF_vars(EndExtraction(m))
-----------------------------------------------------------------------------
(* Every table and worker has its type.                                    *)
TypeOK ==
    /\ cycle \in [Cycles -> Row]
    /\ member \in [Media -> Cycles \cup {NoCycle}]
    /\ verdict \in [Cycles -> IdList]
    /\ linked \in [Cycles -> SUBSET Media]
    /\ request \in [Cycles -> {"none", "admitted", "refused"}]
    /\ worker \in [Workers -> Job]
    /\ faults \in 0..MaxFaults
    /\ outcome \in [Media -> Extraction!Outcomes]
    /\ attempt \in [Media -> Nat]
    /\ result \in [Media -> Nat]

(* The media gate: a classification only rests on messages whose           *)
(* extraction is done, whichever worker made it and however late.          *)
VerdictNeedsMedia ==
    \A c \in Cycles : \A m \in verdict[c].ids \cup linked[c] :
        outcome[m] = "done"

(* A row that says it is completed, or names a classification, has one;    *)
(* and a Request is admitted only on a classified cycle.                   *)
CompletedHasVerdict ==
    \A c \in Cycles :
        (\/ cycle[c].status \in Completed
         \/ cycle[c].classified
         \/ request[c] = "admitted") => verdict[c].known /\ cycle[c].classified

(* The preparation and the operation of a Request read the cycle in two    *)
(* transactions, and the operation keeps for good what the second one saw: *)
(* a completed cycle, which is eligible, is never found refused.           *)
CompletedIsEligible ==
    \A c \in Cycles : cycle[c].status \in Completed => request[c] # "refused"

(* While no worker outlives its lease: two workers never process the same  *)
(* cycle, and the one that does holds the live lease of the row.           *)
OneWorkerPerCycle ==
    \A w \in Workers, c \in Cycles :
        WorksOn(w, c) => cycle[c].lease = "live" /\ cycle[c].owner = w

(* A cycle that reached a terminal state stays there.                      *)
TerminalIsFinal ==
    [][\A c \in Cycles :
          cycle[c].status \in Terminal => cycle'[c].status = cycle[c].status]_vars

(* The four records of what a completed cycle rests on agree: its          *)
(* snapshot, its messages, the ids and the links of its classification.    *)
EvidenceAgrees ==
    \A c \in Cycles : cycle[c].status \in Completed =>
        /\ cycle[c].snapshot = verdict[c]
        /\ linked[c] = verdict[c].ids
        /\ {m \in Media : member[m] = c} = verdict[c].ids

(* No message is evidence of the classifications of two cycles.            *)
MessageClassifiedOnce ==
    \A c, d \in Cycles : c # d => verdict[c].ids \cap verdict[d].ids = {}

(* A closed ticket is classified, fails, or is visibly blocked on media.   *)
Settled(c) == cycle[c].status \in Terminal \cup {"media_blocked"}

EveryCycleSettles ==
    \A c \in Cycles : cycle[c].status = "pending" ~> Settled(c)

(* A cycle blocked on media that are all extracted after all is concluded. *)
BlockedCycleRecovers ==
    \A c \in Cycles :
        /\ cycle[c].status = "media_blocked"
        /\ \A m \in cycle[c].snapshot.ids : outcome[m] = "done"
        ~> cycle[c].status \in Terminal
=============================================================================
