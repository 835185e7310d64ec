---------------------------- MODULE DurableMedia ----------------------------
(***************************************************************************)
(* The PostgreSQL rows that make media extraction durable                  *)
(* (src/core/durable_media_repository.py), the polling workers that claim  *)
(* them (audio_worker.py and image_worker.py, which run the same protocol  *)
(* on two tables), and the two callers that admit work: the message        *)
(* webhook and the IA worker's _ensure_media_jobs.                         *)
(*                                                                         *)
(* Every SQL statement is one action.  A worker holds the row it claimed   *)
(* as a private copy while it calls the providers, so leases expire and    *)
(* other workers reclaim the row in between.                               *)
(*                                                                         *)
(* Time is abstracted to the comparisons the SQL makes: a lease is live or *)
(* expired, a next_attempt_at is due or not.  updated_at, the fencing      *)
(* token, is the number of writes of the row: the lease lasts at least a   *)
(* second and timestamps have microseconds, so no two writes that a token  *)
(* must tell apart carry the same one.                                     *)
(***************************************************************************)
EXTENDS Naturals, FiniteSets

CONSTANTS Media,          \* message ids with audio or image content
          Workers,        \* lease owners: polling audio/image workers
          IaWorkers,      \* IA workers that (re-)admit the media of a cycle
          NoWorker,       \* lease_owner IS NULL
          NoMsg,          \* a worker that holds no claim
          MaxAttempts,    \* max_retries of the IA worker
          MaxDeliveries,  \* bound: webhook deliveries of media messages
          MaxFaults,      \* bound: transient errors, overrun leases, lost claims
          LegacyRecovery  \* whether recover_stale_* / release_* are called

ASSUME MediaAssumption ==
    /\ NoWorker \notin Workers
    /\ NoMsg \notin Media
    /\ MaxAttempts \in Nat \ {0}
    /\ MaxDeliveries \in Nat
    /\ MaxFaults \in Nat
    /\ LegacyRecovery \in BOOLEAN

VARIABLES media,       \* media[m]: the row of message m
          job,         \* job[w]: the claim worker w is processing
          paused,      \* paused[w]: rate_limited_until is in the future
          toAdmit,     \* toAdmit[i]: ids IA worker i decided to reserve
          deliveries,  \* webhook deliveries so far
          faults       \* faults so far

vars == <<media, job, paused, toAdmit, deliveries, faults>>
-----------------------------------------------------------------------------
Status == {"absent", "pending", "processing", "completed", "failed"}

(* text is the number of the attempt that produced the stored text.        *)
Row == [status : Status, attempts : Nat, stamp : Nat, due : BOOLEAN,
        owner : Workers \cup {NoWorker},
        lease : {"none", "live", "expired"}, text : Nat]

AbsentRow == [status |-> "absent", attempts |-> 0, stamp |-> 0, due |-> FALSE,
              owner |-> NoWorker, lease |-> "none", text |-> 0]

Claims == [msg : Media \cup {NoMsg}, stamp : Nat, attempt : Nat]
NoClaim == [msg |-> NoMsg, stamp |-> 0, attempt |-> 0]

Init ==
    /\ media = [m \in Media |-> AbsentRow]
    /\ job = [w \in Workers |-> NoClaim]
    /\ paused = [w \in Workers |-> FALSE]
    /\ toAdmit = [i \in IaWorkers |-> {}]
    /\ deliveries = 0
    /\ faults = 0

(* An UPDATE of row m: the new columns, and a fresh updated_at.            *)
Write(m, row) ==
    media' = [media EXCEPT ![m] = [row EXCEPT !.stamp = media[m].stamp + 1]]

Fault ==
    /\ faults < MaxFaults
    /\ faults' = faults + 1
-----------------------------------------------------------------------------
(* INSERT ... ON CONFLICT DO UPDATE ... WHERE status = 'failed'.  The      *)
(* attempt count, the lease columns and the text are left as they are.     *)
Reserve(m) ==
    IF media[m].status \in {"absent", "failed"}
    THEN Write(m, [media[m] EXCEPT !.status = "pending", !.due = TRUE])
    ELSE UNCHANGED media

(* A delivery of a media message: the webhook reserves the row BEFORE it   *)
(* consults its idempotency ledger, so a redelivery reserves again.        *)
DeliverMessage(m) ==
    /\ deliveries < MaxDeliveries
    /\ deliveries' = deliveries + 1
    /\ Reserve(m)
    /\ UNCHANGED <<job, paused, toAdmit, faults>>

(* The first half of _ensure_media_jobs: the states were read and the loop *)
(* picks the ids that have no row or failed with attempts left.            *)
NeedsReserve(m) ==
    \/ media[m].status = "absent"
    \/ media[m].status = "failed" /\ media[m].attempts < MaxAttempts

ReadStates(i) ==
    /\ toAdmit[i] = {}
    /\ \E m \in Media : NeedsReserve(m)
    /\ toAdmit' = [toAdmit EXCEPT ![i] = {m \in Media : NeedsReserve(m)}]
    /\ UNCHANGED <<media, job, paused, deliveries, faults>>

(* The second half: one reserve per id, on a row that may have moved on.   *)
AdmitJob(i, m) ==
    /\ m \in toAdmit[i]
    /\ toAdmit' = [toAdmit EXCEPT ![i] = @ \ {m}]
    /\ Reserve(m)
    /\ UNCHANGED <<job, paused, deliveries, faults>>
-----------------------------------------------------------------------------
(* Mutants of Claimable: expired leases are not looked for, and a failed   *)
(* row is retried without being admitted again.                            *)
ClaimablePendingOnly(m) == media[m].status = "pending" /\ media[m].due
ClaimableIfFailed(m) == media[m].status \in {"pending", "failed"}

Claimable(m) ==
    \/ media[m].status = "pending" /\ media[m].due
    \/ media[m].status = "processing" /\ media[m].lease # "live"

(* poll_once of an idle worker outside its rate-limit window: claim one    *)
(* row and start working on the copy the UPDATE returned.                  *)
Claim(w, m) ==
    /\ job[w] = NoClaim
    /\ ~paused[w]
    /\ Claimable(m)
    /\ Write(m, [media[m] EXCEPT !.status = "processing", !.attempts = @ + 1,
                                 !.owner = w, !.lease = "live", !.due = FALSE])
    /\ job' = [job EXCEPT ![w] = [msg |-> m, stamp |-> media[m].stamp + 1,
                                  attempt |-> media[m].attempts + 1]]
    /\ UNCHANGED <<paused, toAdmit, deliveries, faults>>

(* Mutants of Accepted: the status alone, or the owner without the token.  *)
AcceptedByStatus(w, expected) == media[job[w].msg].status \in expected
AcceptedByOwner(w, expected) ==
    /\ media[job[w].msg].status \in expected
    /\ media[job[w].msg].owner = w

(* The WHERE clause of set_*_status with the claim's updated_at and owner. *)
Accepted(w, expected) ==
    LET row == media[job[w].msg] IN
    /\ row.status \in expected
    /\ row.stamp = job[w].stamp
    /\ row.owner = w

(* set_*_status: write the result of the claim, or discard it as stale.    *)
SetStatus(w, expected, status, text) ==
    LET m == job[w].msg IN
    /\ m # NoMsg
    /\ IF Accepted(w, expected)
       THEN Write(m, [media[m] EXCEPT !.status = status, !.text = text,
                                      !.owner = NoWorker, !.lease = "none",
                                      !.due = FALSE])
       ELSE UNCHANGED media
    /\ job' = [job EXCEPT ![w] = NoClaim]

Complete(w) ==
    /\ SetStatus(w, {"processing"}, "completed", job[w].attempt)
    /\ UNCHANGED <<paused, toAdmit, deliveries, faults>>

(* A transient provider error: the worker pauses whether or not the row    *)
(* accepts the retry, and the row becomes due when next_attempt_at passes. *)
RetryLater(w) ==
    /\ SetStatus(w, {"processing"}, "pending", media[job[w].msg].text)
    /\ paused' = [paused EXCEPT ![w] = TRUE]
    /\ Fault
    /\ UNCHANGED <<toAdmit, deliveries>>

FailForGood(w) ==
    /\ SetStatus(w, {"pending", "processing"}, "failed",
                 media[job[w].msg].text)
    /\ UNCHANGED <<paused, toAdmit, deliveries, faults>>

(* The process dies, or the write of the result raises: the claim is gone  *)
(* and only the expiry of its lease makes the row claimable again.         *)
LoseClaim(w) ==
    /\ job[w] # NoClaim
    /\ job' = [job EXCEPT ![w] = NoClaim]
    /\ Fault
    /\ UNCHANGED <<media, paused, toAdmit, deliveries>>
-----------------------------------------------------------------------------
(* The lease of m passes.  While its worker still works that is a fault    *)
(* (the extraction overran the lease), otherwise it is only time passing.  *)
HeldNow(m) == \E w \in Workers : job[w].msg = m /\ job[w].stamp = media[m].stamp

ExpireLease(m) ==
    /\ media[m].lease = "live"
    /\ media' = [media EXCEPT ![m].lease = "expired"]
    /\ IF HeldNow(m) THEN Fault ELSE UNCHANGED faults
    /\ UNCHANGED <<job, paused, toAdmit, deliveries>>

(* next_attempt_at of a pending row passes.                                *)
BecomeDue(m) ==
    /\ media[m].status = "pending"
    /\ ~media[m].due
    /\ media' = [media EXCEPT ![m].due = TRUE]
    /\ UNCHANGED <<job, paused, toAdmit, deliveries, faults>>

(* rate_limited_until of worker w passes.                                  *)
ResumePolling(w) ==
    /\ paused[w]
    /\ paused' = [paused EXCEPT ![w] = FALSE]
    /\ UNCHANGED <<media, job, toAdmit, deliveries, faults>>

(* recover_stale_*: a due row is republished, and one processed for longer *)
(* than the lease goes back to pending with the lease columns untouched.   *)
RecoverStale(m) ==
    /\ LegacyRecovery
    /\ Fault
    /\ \/ media[m].status = "pending" /\ media[m].due
       \/ media[m].status = "processing" /\ media[m].lease = "expired"
    /\ Write(m, [media[m] EXCEPT !.status = "pending", !.due = TRUE])
    /\ UNCHANGED <<job, paused, toAdmit, deliveries>>

(* release_*_publication: only updated_at of a pending row changes.        *)
ReleasePublication(m) ==
    /\ LegacyRecovery
    /\ Fault
    /\ media[m].status = "pending"
    /\ Write(m, media[m])
    /\ UNCHANGED <<job, paused, toAdmit, deliveries>>

Next ==
    \/ \E m \in Media : \/ DeliverMessage(m) \/ ExpireLease(m)
                        \/ BecomeDue(m) \/ RecoverStale(m)
                        \/ ReleasePublication(m)
    \/ \E i \in IaWorkers : \/ ReadStates(i)
                            \/ \E m \in Media : AdmitJob(i, m)
    \/ \E w \in Workers : \/ \E m \in Media : Claim(w, m)
                          \/ Complete(w) \/ RetryLater(w) \/ FailForGood(w)
                          \/ LoseClaim(w) \/ ResumePolling(w)

Spec == Init /\ [][Next]_vars
-----------------------------------------------------------------------------
(* Fairness.  The worker loops catch every exception and poll again, and   *)
(* every provider call has a timeout, so a claim always ends in one of its *)
(* outcomes; time passes; an IA worker polls while a cycle waits for m.    *)
Finish(w) == Complete(w) \/ RetryLater(w) \/ FailForGood(w) \/ LoseClaim(w)

FairSpec ==
    /\ Spec
    /\ \A w \in Workers : WF_vars(Finish(w)) /\ WF_vars(ResumePolling(w))
    /\ \A m \in Media :
          /\ WF_vars(\E w \in Workers : Claim(w, m))
          /\ WF_vars(ExpireLease(m))
          /\ WF_vars(BecomeDue(m))
    /\ \A i \in IaWorkers :
          /\ WF_vars(ReadStates(i))
          /\ \A m \in Media : WF_vars(AdmitJob(i, m))
-----------------------------------------------------------------------------
(* Every row, claim and flag has its type.                                 *)
TypeOK ==
    /\ media \in [Media -> Row]
    /\ job \in [Workers -> Claims]
    /\ paused \in [Workers -> BOOLEAN]
    /\ toAdmit \in [IaWorkers -> SUBSET Media]
    /\ deliveries \in 0..MaxDeliveries
    /\ faults \in 0..MaxFaults

(* The text a completed row shows is the one of the last attempt that was  *)
(* started: the answer of a worker whose lease was taken over is discarded *)
(* by the updated_at / lease_owner fence of _set_content_status_sync.      *)
ResultOfLastAttempt ==
    \A m \in Media :
        media[m].status = "completed" => media[m].text = media[m].attempts

(* Mutual exclusion on a row: a claim whose token still matches the row's  *)
(* updated_at is its latest claim, in processing for that worker and that  *)
(* attempt, so two workers never hold a claim the row would both accept.   *)
TokenIsHolder ==
    \A w \in Workers :
        LET m == job[w].msg IN
        m # NoMsg =>
            /\ job[w].stamp <= media[m].stamp
            /\ job[w].stamp = media[m].stamp =>
                  /\ media[m].status = "processing"
                  /\ media[m].owner = w
                  /\ media[m].attempts = job[w].attempt
                  /\ job[w].attempt > 0

(* A row in processing is never orphaned: it has an owner and a lease, so  *)
(* either its worker still works or the lease expires and a poll finds it. *)
(* A row that is concluded or absent holds no lease.                       *)
LeaseFits(row) ==
    /\ row.status = "processing" => row.owner # NoWorker /\ row.lease # "none"
    /\ row.status \in {"absent", "completed", "failed"} =>
          row.owner = NoWorker /\ row.lease = "none"

LeaseFollowsWork == \A m \in Media : LeaseFits(media[m])

(* Once completed, a row is never written again: not by a redelivered      *)
(* webhook, a stale IA admission, a late worker or the legacy recovery.    *)
CompletedIsFinal ==
    [][\A m \in Media :
          media[m].status = "completed" => media'[m] = media[m]]_vars

(* A row leaves "open work" for a verdict only by the worker that holds    *)
(* the row's latest claim, and only out of processing, although            *)
(* set_*_status would also let a pending row fail.                         *)
VerdictByLastClaimant ==
    [][\A m \in Media :
          /\ media[m].status \notin {"completed", "failed"}
          /\ media'[m].status \in {"completed", "failed"}
          => /\ media[m].status = "processing"
             /\ \E w \in Workers : /\ job[w].msg = m
                                   /\ job[w].attempt = media[m].attempts
                                   /\ job'[w] = NoClaim]_vars

(* Liveness: a message that was admitted once is eventually completed, or  *)
(* has used up the attempts the IA worker grants and blocks its cycle.     *)
Decided(m) ==
    \/ media[m].status = "completed"
    \/ media[m].status = "failed" /\ media[m].attempts >= MaxAttempts

EveryMediaDecided ==
    \A m \in Media : media[m].status # "absent" ~> Decided(m)

(* The rows, workers and callers implement the abstract promise: a reader  *)
(* of the rows cannot tell how many workers, leases and retries there are. *)
Outcome(status) ==
    CASE status = "absent" -> "none"
      [] status = "pending" -> "queued"
      [] status = "processing" -> "working"
      [] status = "completed" -> "done"
      [] status = "failed" -> "failed"

Promise == INSTANCE MediaOutcome WITH
    outcome <- [m \in Media |-> Outcome(media[m].status)],
    attempt <- [m \in Media |-> media[m].attempts],
    result  <- [m \in Media |-> media[m].text]

KeepsPromise == Promise!Spec
=============================================================================
