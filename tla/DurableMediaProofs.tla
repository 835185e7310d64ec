------------------------- MODULE DurableMediaProofs -------------------------
(***************************************************************************)
(* Safety of the durable media rows for any number of messages, workers,   *)
(* IA workers, deliveries and faults.                                      *)
(***************************************************************************)
EXTENDS DurableMedia, TLAPS

(* A worker without a claim has the empty claim, with nothing left over.   *)
IdleIsEmpty == \A w \in Workers : job[w].msg = NoMsg => job[w] = NoClaim

(* The inductive invariant.  TokenIsHolder carries the argument: a write   *)
(* of a row makes every older token stale, so what a fenced write stores   *)
(* belongs to the attempt the row counted last.                            *)
IInv ==
    /\ TypeOK
    /\ IdleIsEmpty
    /\ TokenIsHolder
    /\ ResultOfLastAttempt
    /\ LeaseFollowsWork
-----------------------------------------------------------------------------
(* A write of one well-typed row keeps the table well typed.               *)
LEMMA WriteType ==
    ASSUME TypeOK, NEW m \in Media, NEW row \in Row, Write(m, row)
    PROVE  /\ media' \in [Media -> Row]
           /\ media'[m] = [row EXCEPT !.stamp = media[m].stamp + 1]
           /\ \A n \in Media \ {m} : media'[n] = media[n]
<1>1. media[m].stamp + 1 \in Nat
  BY DEF TypeOK, Row
<1>2. [row EXCEPT !.stamp = media[m].stamp + 1] \in Row
  BY <1>1 DEF Row
<1> QED
  BY <1>2 DEF TypeOK, Write

(* What Reserve does to the table, whoever calls it.                       *)
LEMMA ReserveStep ==
    ASSUME TypeOK, NEW m \in Media, Reserve(m)
    PROVE  \/ media' = media
           \/ /\ media[m].status \in {"absent", "failed"}
              /\ media' \in [Media -> Row]
              /\ \A n \in Media \ {m} : media'[n] = media[n]
              /\ media'[m].status = "pending"
              /\ media'[m].stamp = media[m].stamp + 1
              /\ media'[m].attempts = media[m].attempts
              /\ media'[m].text = media[m].text
              /\ media'[m].owner = media[m].owner
              /\ media'[m].lease = media[m].lease
<1>1. CASE media[m].status \in {"absent", "failed"}
  <2> DEFINE row == [media[m] EXCEPT !.status = "pending", !.due = TRUE]
  <2>1. media[m] \in Row
    BY DEF TypeOK
  <2>2. row \in Row /\ row.status = "pending" /\ row.attempts = media[m].attempts
        /\ row.text = media[m].text /\ row.owner = media[m].owner
        /\ row.lease = media[m].lease
    BY <2>1 DEF Row, Status
  <2>3. Write(m, row)
    BY <1>1 DEF Reserve
  <2> HIDE DEF row
  <2>4. /\ media' \in [Media -> Row]
        /\ media'[m] = [row EXCEPT !.stamp = media[m].stamp + 1]
        /\ \A n \in Media \ {m} : media'[n] = media[n]
    BY <2>2, <2>3, WriteType
  <2> QED
    BY <1>1, <2>2, <2>4 DEF Row
<1>2. CASE media[m].status \notin {"absent", "failed"}
  BY <1>2 DEF Reserve
<1> QED
  BY <1>1, <1>2

(* A bumped stamp outdates every token of that row, and only of that row.  *)
LEMMA BumpKeepsTokens ==
    ASSUME IInv, NEW m \in Media, media' \in [Media -> Row],
           \A n \in Media \ {m} : media'[n] = media[n],
           media'[m].stamp = media[m].stamp + 1,
           NEW w \in Workers, job'[w] = job[w], job[w].msg # NoMsg
    PROVE  /\ job'[w].stamp <= media'[job'[w].msg].stamp
           /\ job'[w].stamp = media'[job'[w].msg].stamp =>
                 /\ media'[job'[w].msg].status = "processing"
                 /\ media'[job'[w].msg].owner = w
                 /\ media'[job'[w].msg].attempts = job'[w].attempt
                 /\ job'[w].attempt > 0
<1>1. job[w] \in Claims /\ job[w].msg \in Media
  BY DEF IInv, TypeOK, Claims
<1>2. job[w].stamp <= media[job[w].msg].stamp
  BY <1>1 DEF IInv, TokenIsHolder
<1>3. media[m].stamp \in Nat /\ job[w].stamp \in Nat
  BY <1>1 DEF IInv, TypeOK, Row, Claims
<1>4. CASE job[w].msg = m
  BY <1>2, <1>3, <1>4
<1>5. CASE job[w].msg # m
  BY <1>1, <1>5 DEF IInv, TokenIsHolder
<1> QED
  BY <1>4, <1>5

(* The same for all workers, when the step leaves the claims alone.        *)
LEMMA BumpKeepsHolders ==
    ASSUME IInv, NEW m \in Media, media' \in [Media -> Row],
           \A n \in Media \ {m} : media'[n] = media[n],
           media'[m].stamp = media[m].stamp + 1,
           job' = job
    PROVE  TokenIsHolder'
BY BumpKeepsTokens DEF TokenIsHolder

(* What the result of worker w does to the rows and the claims.            *)
Result(w, status, text) ==
    /\ job[w].msg \in Media
    /\ job' = [job EXCEPT ![w] = NoClaim]
    /\ \/ media' = media
       \/ /\ media[job[w].msg].status = "processing"
          /\ media[job[w].msg].attempts = job[w].attempt
          /\ job[w].attempt > 0
          /\ media' \in [Media -> Row]
          /\ \A n \in Media \ {job[w].msg} : media'[n] = media[n]
          /\ media'[job[w].msg].status = status
          /\ media'[job[w].msg].text = text
          /\ media'[job[w].msg].attempts = media[job[w].msg].attempts
          /\ media'[job[w].msg].stamp = media[job[w].msg].stamp + 1
          /\ media'[job[w].msg].owner = NoWorker
          /\ media'[job[w].msg].lease = "none"

LEMMA SetStatusStep ==
    ASSUME IInv, NEW w \in Workers,
           NEW expected, NEW status \in {"pending", "completed", "failed"},
           NEW text \in Nat,
           SetStatus(w, expected, status, text)
    PROVE  Result(w, status, text)
<1> DEFINE m == job[w].msg
           row == [media[m] EXCEPT !.status = status, !.text = text,
                                   !.owner = NoWorker, !.lease = "none",
                                   !.due = FALSE]
<1>1. m \in Media /\ media[m] \in Row
  BY DEF SetStatus, IInv, TypeOK, Claims
<1>2. row \in Row /\ row.status = status /\ row.text = text
      /\ row.attempts = media[m].attempts
      /\ row.owner = NoWorker /\ row.lease = "none"
  BY <1>1 DEF Row, Status
<1>3. CASE Accepted(w, expected)
  <2>1. media[m].status = "processing" /\ media[m].attempts = job[w].attempt
        /\ job[w].attempt > 0
    BY <1>1, <1>3 DEF Accepted, SetStatus, IInv, TokenIsHolder
  <2>2. Write(m, row)
    BY <1>3 DEF SetStatus
  <2> HIDE DEF row
  <2>3. /\ media' \in [Media -> Row]
        /\ media'[m] = [row EXCEPT !.stamp = media[m].stamp + 1]
        /\ \A n \in Media \ {m} : media'[n] = media[n]
    BY <1>1, <1>2, <2>2, WriteType DEF IInv
  <2> QED
    BY <1>1, <1>2, <2>1, <2>3 DEF Row, SetStatus, Result
<1>4. CASE ~Accepted(w, expected)
  BY <1>1, <1>4 DEF SetStatus, Result
<1> QED
  BY <1>3, <1>4

(* A result, accepted or discarded, preserves the invariant when a         *)
(* completion stores the attempt number of its claim.                      *)
LEMMA SetStatusKeepsIInv ==
    ASSUME IInv, NEW w \in Workers,
           NEW expected, NEW status \in {"pending", "completed", "failed"},
           NEW text \in Nat,
           SetStatus(w, expected, status, text),
           status = "completed" => text = job[w].attempt,
           paused' \in [Workers -> BOOLEAN], faults' \in 0..MaxFaults,
           UNCHANGED <<toAdmit, deliveries>>
    PROVE  IInv'
<1>1. Result(w, status, text)
  BY SetStatusStep
<1>2. PICK m \in Media : m = job[w].msg
  BY <1>1 DEF Result
<1>3. /\ job' = [job EXCEPT ![w] = NoClaim]
      /\ \/ media' = media
         \/ /\ media[m].attempts = job[w].attempt
            /\ media' \in [Media -> Row]
            /\ \A n \in Media \ {m} : media'[n] = media[n]
            /\ media'[m].status = status
            /\ media'[m].text = text
            /\ media'[m].attempts = media[m].attempts
            /\ media'[m].stamp = media[m].stamp + 1
            /\ media'[m].owner = NoWorker /\ media'[m].lease = "none"
  BY <1>1, <1>2 DEF Result
<1>4. TypeOK'
  <2>1. NoClaim \in Claims
    BY DEF NoClaim, Claims
  <2> QED
    BY <1>3, <2>1 DEF IInv, TypeOK
<1>5. IdleIsEmpty'
  BY <1>3 DEF IInv, IdleIsEmpty, TypeOK, NoClaim
<1>6. TokenIsHolder'
  <2> SUFFICES ASSUME NEW v \in Workers, job'[v].msg # NoMsg
               PROVE  /\ job'[v].stamp <= media'[job'[v].msg].stamp
                      /\ job'[v].stamp = media'[job'[v].msg].stamp =>
                            /\ media'[job'[v].msg].status = "processing"
                            /\ media'[job'[v].msg].owner = v
                            /\ media'[job'[v].msg].attempts = job'[v].attempt
                            /\ job'[v].attempt > 0
    BY DEF TokenIsHolder
  <2>1. v # w /\ job'[v] = job[v]
    BY <1>3 DEF IInv, TypeOK, NoClaim
  <2>2. CASE media' = media
    BY <2>1, <2>2 DEF IInv, TokenIsHolder
  <2>3. CASE media' # media
    BY <1>3, <2>1, <2>3, BumpKeepsTokens
  <2> QED
    BY <2>2, <2>3
<1>7. ResultOfLastAttempt'
  BY <1>3 DEF IInv, ResultOfLastAttempt
<1>8. LeaseFollowsWork'
  BY <1>3 DEF IInv, LeaseFollowsWork, LeaseFits
<1> QED
  BY <1>4, <1>5, <1>6, <1>7, <1>8 DEF IInv

(* Admitting a row preserves the invariant: the row was not completed and  *)
(* is not completed afterwards.                                            *)
LEMMA ReserveKeepsIInv ==
    ASSUME IInv, NEW m \in Media, Reserve(m), UNCHANGED <<job, paused>>,
           toAdmit' \in [IaWorkers -> SUBSET Media],
           deliveries' \in 0..MaxDeliveries, UNCHANGED faults
    PROVE  IInv'
<1>1. \/ media' = media
      \/ /\ media' \in [Media -> Row]
         /\ \A n \in Media \ {m} : media'[n] = media[n]
         /\ media'[m].status = "pending"
         /\ media'[m].stamp = media[m].stamp + 1
         /\ media[m].status \in {"absent", "failed"}
         /\ media'[m].owner = media[m].owner
         /\ media'[m].lease = media[m].lease
  BY ReserveStep DEF IInv
<1>2. TypeOK' /\ IdleIsEmpty'
  BY <1>1 DEF IInv, TypeOK, IdleIsEmpty
<1>3. TokenIsHolder'
  BY <1>1, BumpKeepsHolders DEF IInv, TokenIsHolder
<1>4. ResultOfLastAttempt'
  BY <1>1 DEF IInv, ResultOfLastAttempt
<1>5. LeaseFollowsWork'
  BY <1>1 DEF IInv, LeaseFollowsWork, LeaseFits
<1> QED
  BY <1>2, <1>3, <1>4, <1>5 DEF IInv

(* A claim makes the claimant the holder of the only valid token.          *)
LEMMA ClaimKeepsIInv ==
    ASSUME IInv, NEW w \in Workers, NEW m \in Media, Claim(w, m)
    PROVE  IInv'
<1> DEFINE row == [media[m] EXCEPT !.status = "processing", !.attempts = @ + 1,
                                   !.owner = w, !.lease = "live", !.due = FALSE]
           claim == [msg |-> m, stamp |-> media[m].stamp + 1,
                     attempt |-> media[m].attempts + 1]
<1>1. media[m] \in Row /\ m # NoMsg
  BY MediaAssumption DEF IInv, TypeOK
<1>2. row \in Row /\ row.status = "processing" /\ row.owner = w
      /\ row.attempts = media[m].attempts + 1
      /\ row.text = media[m].text /\ row.lease = "live"
  <2>1. media[m].attempts + 1 \in Nat
    BY <1>1 DEF Row
  <2> QED
    BY <1>1, <2>1 DEF Row, Status
<1>3. claim \in Claims
  BY <1>1 DEF Claims, Row
<1>4. Write(m, row) /\ job' = [job EXCEPT ![w] = claim]
  BY DEF Claim
<1>5. UNCHANGED <<paused, toAdmit, deliveries, faults>>
  BY DEF Claim
<1>6. /\ claim.msg = m /\ claim.stamp = media[m].stamp + 1
      /\ claim.attempt = media[m].attempts + 1
  OBVIOUS
<1> HIDE DEF row, claim
<1>7. /\ media' \in [Media -> Row]
      /\ media'[m] = [row EXCEPT !.stamp = media[m].stamp + 1]
      /\ \A n \in Media \ {m} : media'[n] = media[n]
  BY <1>2, <1>4, WriteType DEF IInv
<1>8. /\ media'[m].status = "processing" /\ media'[m].owner = w
      /\ media'[m].lease = "live"
      /\ media'[m].attempts = media[m].attempts + 1
      /\ media'[m].stamp = media[m].stamp + 1
  BY <1>2, <1>7 DEF Row
<1>9. TypeOK'
  BY <1>3, <1>4, <1>5, <1>7 DEF IInv, TypeOK
<1>10. IdleIsEmpty'
  BY <1>1, <1>4, <1>6 DEF IInv, TypeOK, IdleIsEmpty
<1>11. TokenIsHolder'
  <2> SUFFICES ASSUME NEW v \in Workers, job'[v].msg # NoMsg
               PROVE  /\ job'[v].stamp <= media'[job'[v].msg].stamp
                      /\ job'[v].stamp = media'[job'[v].msg].stamp =>
                            /\ media'[job'[v].msg].status = "processing"
                            /\ media'[job'[v].msg].owner = v
                            /\ media'[job'[v].msg].attempts = job'[v].attempt
                            /\ job'[v].attempt > 0
    BY DEF TokenIsHolder
  <2>1. CASE v = w
    BY <1>1, <1>4, <1>6, <1>8, <2>1 DEF IInv, TypeOK, Row
  <2>2. CASE v # w
    <3>1. job'[v] = job[v]
      BY <1>4, <2>2 DEF IInv, TypeOK
    <3> QED
      BY <1>7, <1>8, <3>1, BumpKeepsTokens
  <2> QED
    BY <2>1, <2>2
<1>12. ResultOfLastAttempt'
  BY <1>7, <1>8 DEF IInv, ResultOfLastAttempt
<1>13. LeaseFollowsWork'
  BY <1>7, <1>8, MediaAssumption DEF IInv, LeaseFollowsWork, LeaseFits
<1> QED
  BY <1>9, <1>10, <1>11, <1>12, <1>13 DEF IInv

(* Time passing for a row keeps its token and its holder.                  *)
LEMMA TimePassesKeepsIInv ==
    ASSUME IInv, NEW m \in Media, ExpireLease(m) \/ BecomeDue(m)
    PROVE  IInv'
<1>1. media[m] \in Row
  BY DEF IInv, TypeOK
<1>2. /\ media' \in [Media -> Row]
      /\ \A n \in Media : /\ media'[n].status = media[n].status
                          /\ media'[n].stamp = media[n].stamp
                          /\ media'[n].owner = media[n].owner
                          /\ media'[n].attempts = media[n].attempts
                          /\ media'[n].text = media[n].text
                          /\ (media'[n].lease = "none") <=> (media[n].lease = "none")
  <2>1. CASE ExpireLease(m)
    <3> DEFINE row == [media[m] EXCEPT !.lease = "expired"]
    <3>1. row \in Row
      BY <1>1 DEF Row
    <3>2. media' = [media EXCEPT ![m] = row] /\ media[m].lease = "live"
      BY <2>1 DEF ExpireLease
    <3>3. /\ row.status = media[m].status /\ row.stamp = media[m].stamp
          /\ row.owner = media[m].owner /\ row.attempts = media[m].attempts
          /\ row.text = media[m].text /\ row.lease = "expired"
      BY <1>1 DEF Row
    <3> HIDE DEF row
    <3> QED
      BY <3>1, <3>2, <3>3 DEF IInv, TypeOK
  <2>2. CASE BecomeDue(m)
    <3> DEFINE row == [media[m] EXCEPT !.due = TRUE]
    <3>1. row \in Row
      BY <1>1 DEF Row
    <3>2. media' = [media EXCEPT ![m] = row]
      BY <2>2 DEF BecomeDue
    <3>3. /\ row.status = media[m].status /\ row.stamp = media[m].stamp
          /\ row.owner = media[m].owner /\ row.attempts = media[m].attempts
          /\ row.text = media[m].text /\ row.lease = media[m].lease
      BY <1>1 DEF Row
    <3> HIDE DEF row
    <3> QED
      BY <3>1, <3>2, <3>3 DEF IInv, TypeOK
  <2> QED
    BY <2>1, <2>2
<1>3. faults' \in 0..MaxFaults
  BY MediaAssumption DEF ExpireLease, BecomeDue, Fault, IInv, TypeOK
<1>4. UNCHANGED <<job, paused, toAdmit, deliveries>>
  BY DEF ExpireLease, BecomeDue
<1>5. TypeOK'
  BY <1>2, <1>3, <1>4 DEF IInv, TypeOK
<1>6. TokenIsHolder'
  <2> SUFFICES ASSUME NEW w \in Workers, job[w].msg # NoMsg
               PROVE  /\ job[w].stamp <= media'[job[w].msg].stamp
                      /\ job[w].stamp = media'[job[w].msg].stamp =>
                            /\ media'[job[w].msg].status = "processing"
                            /\ media'[job[w].msg].owner = w
                            /\ media'[job[w].msg].attempts = job[w].attempt
                            /\ job[w].attempt > 0
    BY <1>4 DEF TokenIsHolder
  <2>1. job[w].msg \in Media
    BY DEF IInv, TypeOK, Claims
  <2> QED
    BY <1>2, <2>1 DEF IInv, TokenIsHolder
<1> QED
  BY <1>2, <1>4, <1>5, <1>6 DEF IInv, IdleIsEmpty, ResultOfLastAttempt,
                                LeaseFollowsWork, LeaseFits

(* The legacy calls write a row whose status is pending.                   *)
LEMMA LegacyStep ==
    ASSUME IInv, NEW m \in Media, RecoverStale(m) \/ ReleasePublication(m)
    PROVE  \E row \in Row : /\ Write(m, row) /\ row.status = "pending"
                            /\ row.attempts = media[m].attempts
                            /\ row.text = media[m].text
<1>1. media[m] \in Row
  BY DEF IInv, TypeOK
<1>2. CASE RecoverStale(m)
  <2> DEFINE r == [media[m] EXCEPT !.status = "pending", !.due = TRUE]
  <2>1. r \in Row /\ r.status = "pending" /\ r.attempts = media[m].attempts
        /\ r.text = media[m].text
    BY <1>1 DEF Row, Status
  <2>2. Write(m, r)
    BY <1>2 DEF RecoverStale
  <2> QED
    BY <2>1, <2>2
<1>3. CASE ReleasePublication(m)
  BY <1>1, <1>3 DEF ReleasePublication
<1> QED
  BY <1>2, <1>3

(* The legacy calls only move a row back to (or keep it in) pending.       *)
LEMMA LegacyKeepsIInv ==
    ASSUME IInv, NEW m \in Media, RecoverStale(m) \/ ReleasePublication(m)
    PROVE  IInv'
<1>1. PICK row \in Row : /\ Write(m, row) /\ row.status = "pending"
                         /\ row.attempts = media[m].attempts
                         /\ row.text = media[m].text
  BY LegacyStep
<1>2. /\ media' \in [Media -> Row]
      /\ media'[m] = [row EXCEPT !.stamp = media[m].stamp + 1]
      /\ \A n \in Media \ {m} : media'[n] = media[n]
  BY <1>1, WriteType DEF IInv
<1>3. media'[m].status = "pending" /\ media'[m].stamp = media[m].stamp + 1
  BY <1>1, <1>2 DEF Row
<1>4. faults' \in 0..MaxFaults
  BY MediaAssumption DEF RecoverStale, ReleasePublication, Fault, IInv, TypeOK
<1>5. UNCHANGED <<job, paused, toAdmit, deliveries>>
  BY DEF RecoverStale, ReleasePublication
<1>6. TypeOK' /\ IdleIsEmpty'
  BY <1>2, <1>4, <1>5 DEF IInv, TypeOK, IdleIsEmpty
<1>7. TokenIsHolder'
  BY <1>2, <1>3, <1>5, BumpKeepsHolders
<1>8. ResultOfLastAttempt'
  BY <1>2, <1>3 DEF IInv, ResultOfLastAttempt
<1>9. LeaseFollowsWork'
  BY <1>2, <1>3 DEF IInv, LeaseFollowsWork, LeaseFits
<1> QED
  BY <1>6, <1>7, <1>8, <1>9 DEF IInv
-----------------------------------------------------------------------------
(* The initial table satisfies the invariant.                              *)
LEMMA InitIInv == Init => IInv
<1> SUFFICES ASSUME Init PROVE IInv
  OBVIOUS
<1>1. AbsentRow \in Row /\ NoClaim \in Claims
  BY DEF AbsentRow, Row, Status, NoClaim, Claims
<1>2. TypeOK
  BY <1>1, MediaAssumption DEF Init, TypeOK
<1>3. IdleIsEmpty /\ TokenIsHolder
  BY DEF Init, IdleIsEmpty, TokenIsHolder, NoClaim
<1>4. ResultOfLastAttempt /\ LeaseFollowsWork
  BY DEF Init, ResultOfLastAttempt, AbsentRow, LeaseFollowsWork, LeaseFits
<1> QED
  BY <1>2, <1>3, <1>4 DEF IInv

(* Every step preserves the invariant.                                     *)
LEMMA NextIInv == IInv /\ [Next]_vars => IInv'
<1> SUFFICES ASSUME IInv, [Next]_vars PROVE IInv'
  OBVIOUS
<1>1. ASSUME NEW m \in Media, DeliverMessage(m) PROVE IInv'
  <2>1. deliveries' \in 0..MaxDeliveries
    BY <1>1, MediaAssumption DEF DeliverMessage, IInv, TypeOK
  <2> QED
    BY <1>1, <2>1, ReserveKeepsIInv DEF DeliverMessage, IInv, TypeOK
<1>2. ASSUME NEW m \in Media, ExpireLease(m) \/ BecomeDue(m) PROVE IInv'
  BY <1>2, TimePassesKeepsIInv
<1>3. ASSUME NEW m \in Media, RecoverStale(m) \/ ReleasePublication(m)
      PROVE  IInv'
  BY <1>3, LegacyKeepsIInv
<1>4. ASSUME NEW i \in IaWorkers, ReadStates(i) PROVE IInv'
  BY <1>4 DEF ReadStates, IInv, TypeOK, IdleIsEmpty, TokenIsHolder,
              ResultOfLastAttempt, LeaseFollowsWork
<1>5. ASSUME NEW i \in IaWorkers, NEW m \in Media, AdmitJob(i, m) PROVE IInv'
  <2>1. toAdmit' \in [IaWorkers -> SUBSET Media]
    BY <1>5 DEF AdmitJob, IInv, TypeOK
  <2> QED
    BY <1>5, <2>1, ReserveKeepsIInv DEF AdmitJob, IInv, TypeOK
<1>6. ASSUME NEW w \in Workers, NEW m \in Media, Claim(w, m) PROVE IInv'
  BY <1>6, ClaimKeepsIInv
<1>7. ASSUME NEW w \in Workers, Complete(w) PROVE IInv'
  <2>1. job[w].attempt \in Nat
    BY DEF IInv, TypeOK, Claims
  <2> QED
    BY <1>7, <2>1, SetStatusKeepsIInv DEF Complete, IInv, TypeOK
<1>8. ASSUME NEW w \in Workers, RetryLater(w) PROVE IInv'
  <2>1. media[job[w].msg].text \in Nat
    BY <1>8 DEF RetryLater, SetStatus, IInv, TypeOK, Claims, Row
  <2>2. faults' \in 0..MaxFaults /\ paused' \in [Workers -> BOOLEAN]
    BY <1>8, MediaAssumption DEF RetryLater, Fault, IInv, TypeOK
  <2> QED
    BY <1>8, <2>1, <2>2, SetStatusKeepsIInv DEF RetryLater
<1>9. ASSUME NEW w \in Workers, FailForGood(w) PROVE IInv'
  <2>1. media[job[w].msg].text \in Nat
    BY <1>9 DEF FailForGood, SetStatus, IInv, TypeOK, Claims, Row
  <2> QED
    BY <1>9, <2>1, SetStatusKeepsIInv DEF FailForGood, IInv, TypeOK
<1>10. ASSUME NEW w \in Workers, LoseClaim(w) PROVE IInv'
  <2>1. faults' \in 0..MaxFaults /\ NoClaim \in Claims
    BY <1>10, MediaAssumption
       DEF LoseClaim, Fault, IInv, TypeOK, NoClaim, Claims
  <2>2. TypeOK' /\ IdleIsEmpty' /\ ResultOfLastAttempt' /\ LeaseFollowsWork'
    BY <1>10, <2>1 DEF LoseClaim, IInv, TypeOK, IdleIsEmpty,
                       ResultOfLastAttempt, LeaseFollowsWork, NoClaim
  <2>3. TokenIsHolder'
    BY <1>10 DEF LoseClaim, IInv, TypeOK, TokenIsHolder, NoClaim
  <2> QED
    BY <2>2, <2>3 DEF IInv
<1>11. ASSUME NEW w \in Workers, ResumePolling(w) PROVE IInv'
  BY <1>11 DEF ResumePolling, IInv, TypeOK, IdleIsEmpty, TokenIsHolder,
               ResultOfLastAttempt, LeaseFollowsWork
<1>12. CASE UNCHANGED vars
  BY <1>12 DEF vars, IInv, TypeOK, IdleIsEmpty, TokenIsHolder,
               ResultOfLastAttempt, LeaseFollowsWork
<1> QED
  BY <1>1, <1>2, <1>3, <1>4, <1>5, <1>6, <1>7, <1>8, <1>9, <1>10, <1>11, <1>12
     DEF Next

(* The inductive invariant holds in every reachable state.                 *)
LEMMA SpecIInv == Spec => []IInv
<1> QED
  BY InitIInv, NextIInv, PTL DEF Spec
-----------------------------------------------------------------------------
(* Types hold in every reachable state.                                    *)
THEOREM TypeCorrect == Spec => []TypeOK
<1>1. IInv => TypeOK
  BY DEF IInv
<1> QED
  BY <1>1, SpecIInv, PTL

(* The token of an updated_at identifies the one worker and attempt that   *)
(* may still conclude the row.                                             *)
THEOREM TokensIdentifyHolders == Spec => []TokenIsHolder
<1>1. IInv => TokenIsHolder
  BY DEF IInv
<1> QED
  BY <1>1, SpecIInv, PTL

(* A completed row shows the text of the last attempt that was started.    *)
THEOREM LastAttemptWins == Spec => []ResultOfLastAttempt
<1>1. IInv => ResultOfLastAttempt
  BY DEF IInv
<1> QED
  BY <1>1, SpecIInv, PTL
-----------------------------------------------------------------------------
(* What a step does to the rows, for a reader: it leaves every status,     *)
(* attempt count and text alone, or it changes one row in one of the five  *)
(* ways below.                                                             *)
Looks(m, status, attempts, text) ==
    /\ media'[m].status = status
    /\ media'[m].attempts = attempts
    /\ media'[m].text = text

RowStep(m) ==
    \/ /\ media[m].status \in {"absent", "failed"}
       /\ Looks(m, "pending", media[m].attempts, media[m].text)
    \/ /\ media[m].status \in {"pending", "processing"}
       /\ Looks(m, "processing", media[m].attempts + 1, media[m].text)
    \/ /\ media[m].status \in {"pending", "processing"}
       /\ Looks(m, "pending", media[m].attempts, media[m].text)
    \/ /\ media[m].status = "processing"
       /\ media[m].attempts > 0
       /\ \/ Looks(m, "completed", media[m].attempts, media[m].attempts)
          \/ Looks(m, "failed", media[m].attempts, media[m].text)
       /\ \E w \in Workers : /\ job[w].msg = m
                             /\ job[w].attempt = media[m].attempts
                             /\ job'[w] = NoClaim
    \/ /\ media[m].status # "completed"
       /\ Looks(m, media[m].status, media[m].attempts, media[m].text)

OneRowStep(m) ==
    /\ RowStep(m)
    /\ \A n \in Media \ {m} : media'[n] = media[n]

(* The disjuncts of Next, one by one.                                      *)
LEMMA StepSummary ==
    ASSUME IInv, [Next]_vars
    PROVE  media' = media \/ \E m \in Media : OneRowStep(m)
<1>1. ASSUME NEW m \in Media, Reserve(m)
      PROVE  media' = media \/ OneRowStep(m)
  BY <1>1, ReserveStep DEF IInv, OneRowStep, RowStep, Looks
<1>2. ASSUME NEW m \in Media, ExpireLease(m) PROVE OneRowStep(m)
  <2> DEFINE row == [media[m] EXCEPT !.lease = "expired"]
  <2>1. media[m] \in Row
    BY DEF IInv, TypeOK
  <2>2. media' = [media EXCEPT ![m] = row]
    BY <1>2 DEF ExpireLease
  <2>3. row.status = media[m].status /\ row.attempts = media[m].attempts
        /\ row.text = media[m].text
    BY <2>1 DEF Row
  <2>4. media[m].status # "completed"
    BY <1>2 DEF ExpireLease, IInv, LeaseFollowsWork, LeaseFits
  <2> HIDE DEF row
  <2> QED
    BY <2>2, <2>3, <2>4 DEF OneRowStep, RowStep, Looks, IInv, TypeOK
<1>3. ASSUME NEW m \in Media, BecomeDue(m) PROVE OneRowStep(m)
  <2> DEFINE row == [media[m] EXCEPT !.due = TRUE]
  <2>1. media[m] \in Row
    BY DEF IInv, TypeOK
  <2>2. media' = [media EXCEPT ![m] = row] /\ media[m].status = "pending"
    BY <1>3 DEF BecomeDue
  <2>3. row.status = media[m].status /\ row.attempts = media[m].attempts
        /\ row.text = media[m].text
    BY <2>1 DEF Row
  <2> HIDE DEF row
  <2> QED
    BY <2>2, <2>3 DEF OneRowStep, RowStep, Looks, IInv, TypeOK
<1>4. ASSUME NEW m \in Media, RecoverStale(m) \/ ReleasePublication(m)
      PROVE  OneRowStep(m)
  <2>1. PICK row \in Row : /\ Write(m, row) /\ row.status = "pending"
                           /\ row.attempts = media[m].attempts
                           /\ row.text = media[m].text
    BY <1>4, LegacyStep
  <2>2. /\ media'[m] = [row EXCEPT !.stamp = media[m].stamp + 1]
        /\ \A n \in Media \ {m} : media'[n] = media[n]
    BY <2>1, WriteType DEF IInv
  <2>3. Looks(m, "pending", media[m].attempts, media[m].text)
    BY <2>1, <2>2 DEF Looks, Row
  <2>4. media[m].status \in {"pending", "processing"}
    BY <1>4 DEF RecoverStale, ReleasePublication
  <2> QED
    BY <2>2, <2>3, <2>4 DEF OneRowStep, RowStep
<1>5. ASSUME NEW w \in Workers, NEW m \in Media, Claim(w, m)
      PROVE  OneRowStep(m)
  <2> DEFINE row == [media[m] EXCEPT !.status = "processing", !.attempts = @ + 1,
                                     !.owner = w, !.lease = "live", !.due = FALSE]
  <2>1. media[m] \in Row
    BY DEF IInv, TypeOK
  <2>2. row \in Row /\ row.status = "processing"
        /\ row.attempts = media[m].attempts + 1 /\ row.text = media[m].text
    <3>1. media[m].attempts + 1 \in Nat
      BY <2>1 DEF Row
    <3> QED
      BY <2>1, <3>1 DEF Row, Status
  <2>3. Write(m, row) /\ media[m].status \in {"pending", "processing"}
    BY <1>5 DEF Claim, Claimable
  <2> HIDE DEF row
  <2>4. /\ media'[m] = [row EXCEPT !.stamp = media[m].stamp + 1]
        /\ \A n \in Media \ {m} : media'[n] = media[n]
    BY <2>2, <2>3, WriteType DEF IInv
  <2>5. Looks(m, "processing", media[m].attempts + 1, media[m].text)
    BY <2>2, <2>4 DEF Looks, Row
  <2> QED
    BY <2>3, <2>4, <2>5 DEF OneRowStep, RowStep
<1>6. ASSUME NEW w \in Workers, Complete(w)
      PROVE  media' = media \/ (OneRowStep(job[w].msg) /\ job[w].msg \in Media)
  <2>1. job[w].attempt \in Nat
    BY DEF IInv, TypeOK, Claims
  <2>2. SetStatus(w, {"processing"}, "completed", job[w].attempt)
    BY <1>6 DEF Complete
  <2>3. Result(w, "completed", job[w].attempt)
    BY <2>1, <2>2, SetStatusStep
  <2>4. job[w].msg \in Media /\ job'[w] = NoClaim
    BY <2>3 DEF Result, IInv, TypeOK
  <2>5. \/ media' = media
        \/ /\ media[job[w].msg].status = "processing"
           /\ media[job[w].msg].attempts = job[w].attempt
           /\ media[job[w].msg].attempts > 0
           /\ \A n \in Media \ {job[w].msg} : media'[n] = media[n]
           /\ Looks(job[w].msg, "completed", media[job[w].msg].attempts,
                    media[job[w].msg].attempts)
    BY <2>3 DEF Result, Looks
  <2> QED
    BY <2>4, <2>5 DEF OneRowStep, RowStep
<1>7. ASSUME NEW w \in Workers, RetryLater(w)
      PROVE  media' = media \/ (OneRowStep(job[w].msg) /\ job[w].msg \in Media)
  <2>1. media[job[w].msg].text \in Nat
    BY <1>7 DEF RetryLater, SetStatus, IInv, TypeOK, Claims, Row
  <2>2. SetStatus(w, {"processing"}, "pending", media[job[w].msg].text)
    BY <1>7 DEF RetryLater
  <2> QED
    BY <2>1, <2>2, SetStatusStep DEF Result, OneRowStep, RowStep, Looks
<1>8. ASSUME NEW w \in Workers, FailForGood(w)
      PROVE  media' = media \/ (OneRowStep(job[w].msg) /\ job[w].msg \in Media)
  <2>1. media[job[w].msg].text \in Nat
    BY <1>8 DEF FailForGood, SetStatus, IInv, TypeOK, Claims, Row
  <2>2. SetStatus(w, {"pending", "processing"}, "failed",
                  media[job[w].msg].text)
    BY <1>8 DEF FailForGood
  <2>3. Result(w, "failed", media[job[w].msg].text)
    BY <2>1, <2>2, SetStatusStep
  <2>4. job[w].msg \in Media /\ job'[w] = NoClaim
    BY <2>3 DEF Result, IInv, TypeOK
  <2>5. \/ media' = media
        \/ /\ media[job[w].msg].status = "processing"
           /\ media[job[w].msg].attempts = job[w].attempt
           /\ media[job[w].msg].attempts > 0
           /\ \A n \in Media \ {job[w].msg} : media'[n] = media[n]
           /\ Looks(job[w].msg, "failed", media[job[w].msg].attempts,
                    media[job[w].msg].text)
    BY <2>3 DEF Result, Looks
  <2> QED
    BY <2>4, <2>5 DEF OneRowStep, RowStep
<1> QED
  BY <1>1, <1>2, <1>3, <1>4, <1>5, <1>6, <1>7, <1>8
     DEF Next, vars, DeliverMessage, ReadStates, AdmitJob, LoseClaim,
         ResumePolling

(* A row in processing always has an owner and a lease to expire, and a    *)
(* concluded row has neither.                                              *)
THEOREM LeasesFollowWork == Spec => []LeaseFollowsWork
<1>1. IInv => LeaseFollowsWork
  BY DEF IInv
<1> QED
  BY <1>1, SpecIInv, PTL

(* No step writes a completed row.                                         *)
THEOREM CompletedRowsAreFinal == Spec => CompletedIsFinal
<1>1. IInv /\ [Next]_vars =>
        [\A m \in Media : media[m].status = "completed" =>
                            media'[m] = media[m]]_vars
  BY StepSummary DEF OneRowStep, RowStep
<1> QED
  BY <1>1, SpecIInv, PTL DEF Spec, CompletedIsFinal

(* A verdict comes out of processing, from the worker of the last attempt. *)
THEOREM VerdictsByLastClaimant == Spec => VerdictByLastClaimant
<1>1. ASSUME IInv, [Next]_vars, NEW m \in Media,
             media[m].status \notin {"completed", "failed"},
             media'[m].status \in {"completed", "failed"}
      PROVE  /\ media[m].status = "processing"
             /\ \E w \in Workers : /\ job[w].msg = m
                                   /\ job[w].attempt = media[m].attempts
                                   /\ job'[w] = NoClaim
  <2>1. RowStep(m)
    BY <1>1, StepSummary DEF OneRowStep
  <2> QED
    BY <1>1, <2>1 DEF RowStep, Looks
<1>2. IInv /\ [Next]_vars =>
        [\A m \in Media :
            /\ media[m].status \notin {"completed", "failed"}
            /\ media'[m].status \in {"completed", "failed"}
            => /\ media[m].status = "processing"
               /\ \E w \in Workers : /\ job[w].msg = m
                                     /\ job[w].attempt = media[m].attempts
                                     /\ job'[w] = NoClaim]_vars
  BY <1>1
<1> QED
  BY <1>2, SpecIInv, PTL DEF Spec, VerdictByLastClaimant
-----------------------------------------------------------------------------
(* The refinement: each step of the rows is one abstract step or a stutter. *)
LEMMA StepKeepsPromise ==
    ASSUME IInv, [Next]_vars
    PROVE  [Promise!Next]_(Promise!vars)
<1> DEFINE outcome == [m \in Media |-> Outcome(media[m].status)]
           attempt == [m \in Media |-> media[m].attempts]
           result == [m \in Media |-> media[m].text]
<1>1. CASE media' = media
  BY <1>1 DEF Promise!vars
<1>2. ASSUME NEW m \in Media, OneRowStep(m)
      PROVE  [Promise!Next]_(Promise!vars)
  <2>1. \A n \in Media \ {m} : media'[n] = media[n]
    BY <1>2 DEF OneRowStep
  <2>2. /\ media \in [Media -> Row] /\ media[m].attempts \in Nat
        /\ media[m].status \in Status
    BY DEF IInv, TypeOK, Row
  <2>3. CASE /\ media[m].status \in {"absent", "failed"}
             /\ Looks(m, "pending", media[m].attempts, media[m].text)
    <3>1. /\ outcome[m] \in {"none", "failed"}
          /\ Outcome(media'[m].status) = "queued"
      BY <2>3 DEF Outcome, Looks
    <3>2. /\ outcome' = [outcome EXCEPT ![m] = "queued"]
          /\ attempt' = attempt /\ result' = result
      BY <2>1, <2>3, <3>1 DEF Looks
    <3> QED
      BY <3>1, <3>2 DEF Promise!Next, Promise!Admit
  <2>4. CASE /\ media[m].status \in {"pending", "processing"}
             /\ Looks(m, "processing", media[m].attempts + 1, media[m].text)
    <3>1. /\ outcome[m] \in {"queued", "working"}
          /\ Outcome(media'[m].status) = "working"
      BY <2>4 DEF Outcome, Looks
    <3>2. /\ attempt' = [attempt EXCEPT ![m] = @ + 1]
          /\ outcome' = [outcome EXCEPT ![m] = "working"]
          /\ result' = result
      BY <2>1, <2>4, <3>1 DEF Looks
    <3> QED
      BY <3>1, <3>2 DEF Promise!Next, Promise!Start
  <2>5. CASE /\ media[m].status \in {"pending", "processing"}
             /\ Looks(m, "pending", media[m].attempts, media[m].text)
    <3>1. Outcome(media'[m].status) = "queued"
      BY <2>5 DEF Outcome, Looks
    <3>2. attempt' = attempt /\ result' = result
      BY <2>1, <2>5 DEF Looks
    <3>3. outcome' = [outcome EXCEPT ![m] = "queued"]
      BY <2>1, <2>5, <3>1 DEF Looks
    <3>4. CASE media[m].status = "pending"
      <4>1. outcome[m] = "queued"
        BY <3>4 DEF Outcome
      <4> QED
        BY <3>2, <3>3, <4>1 DEF Promise!vars
    <3>5. CASE media[m].status = "processing"
      <4>1. outcome[m] = "working"
        BY <3>5 DEF Outcome
      <4> QED
        BY <3>2, <3>3, <4>1 DEF Promise!Next, Promise!Requeue
    <3> QED
      BY <2>5, <3>4, <3>5
  <2>6. CASE /\ media[m].status = "processing"
             /\ media[m].attempts > 0
             /\ Looks(m, "completed", media[m].attempts, media[m].attempts)
    <3>1. outcome[m] = "working" /\ Outcome(media'[m].status) = "done"
      BY <2>6 DEF Outcome, Looks
    <3>2. /\ outcome' = [outcome EXCEPT ![m] = "done"]
          /\ result' = [result EXCEPT ![m] = attempt[m]]
          /\ attempt' = attempt
      BY <2>1, <2>6, <3>1 DEF Looks
    <3> QED
      BY <3>1, <3>2 DEF Promise!Next, Promise!Succeed
  <2>7. CASE /\ media[m].status = "processing"
             /\ media[m].attempts > 0
             /\ Looks(m, "failed", media[m].attempts, media[m].text)
    <3>1. outcome[m] = "working" /\ Outcome(media'[m].status) = "failed"
      BY <2>7 DEF Outcome, Looks
    <3>2. /\ outcome' = [outcome EXCEPT ![m] = "failed"]
          /\ result' = result /\ attempt' = attempt
      BY <2>1, <2>7, <3>1 DEF Looks
    <3> QED
      BY <3>1, <3>2 DEF Promise!Next, Promise!GiveUp
  <2>8. CASE Looks(m, media[m].status, media[m].attempts, media[m].text)
    BY <2>1, <2>8 DEF Looks, Promise!vars
  <2> QED
    BY <1>2, <2>3, <2>4, <2>5, <2>6, <2>7, <2>8 DEF OneRowStep, RowStep
<1> QED
  BY <1>1, <1>2, StepSummary

(* A reader of the rows sees the abstract life of a message: admitted,     *)
(* attempted, concluded by its last attempt, whatever workers and leases   *)
(* did.                                                                    *)
THEOREM RowsKeepPromise == Spec => KeepsPromise
<1>1. Init => Promise!Init
  BY DEF Init, Promise!Init, AbsentRow, Outcome
<1>2. IInv /\ [Next]_vars => [Promise!Next]_(Promise!vars)
  BY StepKeepsPromise
<1> QED
  BY <1>1, <1>2, SpecIInv, PTL DEF Spec, KeepsPromise, Promise!Spec
=============================================================================
