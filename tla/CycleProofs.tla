---------------------------- MODULE CycleProofs ----------------------------
(***************************************************************************)
(* Theorems about the finalization of cycles, for any cycles, messages,    *)
(* workers, histories, limits and faults.                                  *)
(*                                                                         *)
(* What a worker carries from one transaction to the next is what matters: *)
(* past the media gate its snapshot holds only messages that are done, and *)
(* a message that is done stays done; before it completes the row it has   *)
(* seen a classification. While leases are respected (~LeaseOverrun) the   *)
(* row of a cycle moreover says the same as its one worker, and nothing    *)
(* else changes the messages of a cycle whose snapshot is written.         *)
(***************************************************************************)
EXTENDS CycleFinalization, TLAPS

Reasoning == {"summarize", "summarized", "classify", "insert"}

(* What worker w has seen when it is about to make its next transaction.   *)
Carries(w) ==
    /\ worker[w].at # "idle" => worker[w].cycle \in Cycles
    /\ worker[w].at \in Reasoning =>
          \A m \in worker[w].snapshot.ids : outcome[m] = "done"
    /\ worker[w].at = "finish" => verdict[worker[w].cycle].known

AllCarry == \A w \in Workers : Carries(w)

(* The inductive invariant, leases respected or not.                       *)
IInv == TypeOK /\ AllCarry /\ VerdictNeedsMedia /\ CompletedHasVerdict
-----------------------------------------------------------------------------
(* The media of a cycle take a step of MediaOutcome, or none.              *)
MediaStep ==
    \/ \E m \in Media : \/ Extraction!Admit(m) \/ Extraction!Start(m)
                        \/ Extraction!Requeue(m) \/ Extraction!Succeed(m)
                        \/ Extraction!GiveUp(m)
    \/ UNCHANGED mediaVars

MediaTyped ==
    /\ outcome \in [Media -> Extraction!Outcomes]
    /\ attempt \in [Media -> Nat]
    /\ result \in [Media -> Nat]

DoneKept == \A m \in Media : outcome[m] = "done" => outcome'[m] = "done"
VerdictsKept == \A c \in Cycles : verdict[c].known => verdict'[c].known

LEMMA MediaKept ==
    ASSUME TypeOK, MediaStep
    PROVE  MediaTyped' /\ DoneKept
<1>1. MediaTyped
  BY DEF TypeOK, MediaTyped
<1>2. CASE UNCHANGED mediaVars
  BY <1>1, <1>2 DEF MediaTyped, mediaVars, DoneKept
<1>3. ASSUME NEW m \in Media,
             \/ Extraction!Admit(m) \/ Extraction!Start(m)
             \/ Extraction!Requeue(m) \/ Extraction!Succeed(m)
             \/ Extraction!GiveUp(m)
      PROVE  MediaTyped' /\ DoneKept
  BY <1>1, <1>3
  DEF MediaTyped, DoneKept, Extraction!Outcomes, Extraction!Admit,
      Extraction!Start, Extraction!Requeue, Extraction!Succeed,
      Extraction!GiveUp
<1> QED
  BY <1>2, <1>3 DEF MediaStep

(* The rows that a step of the table may write have the type of a row.     *)
LEMMA RowTypes ==
    ASSUME TypeOK, NEW c \in Cycles, NEW s \in Status, NEW b \in BOOLEAN,
           NEW k \in IdList, NEW n \in Nat, NEW a \in BOOLEAN
    PROVE  /\ Moved(c, s) \in Row
           /\ Freed(c, s, b) \in Row
           /\ [Moved(c, s) EXCEPT !.snapshot = k] \in Row
           /\ [Freed(c, s, b) EXCEPT !.snapshot = k] \in Row
           /\ [Freed(c, s, b) EXCEPT !.attempts = n] \in Row
           /\ [Freed(c, s, b) EXCEPT !.snapshot = k, !.classified = a] \in Row
<1>1. cycle[c] \in Row
  BY DEF TypeOK
<1> QED
  BY <1>1 DEF Moved, Freed, Row

LEMMA TransitionTyped ==
    ASSUME TypeOK, NEW c \in Cycles, NEW S, NEW row \in Row,
           Transition(c, S, row)
    PROVE  /\ cycle' \in [Cycles -> Row]
           /\ \A d \in Cycles : d # c => cycle'[d] = cycle[d]
           /\ cycle[c].status \in S => cycle'[c] = row
           /\ cycle[c].status \notin S => cycle'[c] = cycle[c]
  BY DEF TypeOK, Transition

(* A worker that goes to its next transaction, and one that is done.       *)
LEMMA GotoTyped ==
    ASSUME TypeOK, NEW w \in Workers, NEW step, Goto(w, step),
           step \in {"idle", "prepare", "admit"} \cup Processing
    PROVE  /\ worker' \in [Workers -> Job]
           /\ \A v \in Workers : v # w => worker'[v] = worker[v]
           /\ worker'[w].at = step
           /\ worker'[w].cycle = worker[w].cycle
           /\ worker'[w].snapshot = worker[w].snapshot
  BY DEF TypeOK, Goto, Job

LEMMA ReleaseTyped ==
    ASSUME TypeOK, NEW w \in Workers, Release(w)
    PROVE  /\ worker' \in [Workers -> Job]
           /\ \A v \in Workers : v # w => worker'[v] = worker[v]
           /\ worker'[w] = Idle
           /\ Idle.at = "idle"
  BY DEF TypeOK, Release, Job, Idle, Unknown, IdList

(* A step of worker w leaves the other workers with what they carry.       *)
LEMMA OthersCarry ==
    ASSUME IInv, NEW w \in Workers, DoneKept, VerdictsKept,
           \A v \in Workers : v # w => worker'[v] = worker[v],
           Carries(w)'
    PROVE  AllCarry'
<1> SUFFICES ASSUME NEW v \in Workers, v # w
             PROVE  Carries(v)'
  BY DEF AllCarry
<1>1. Carries(v) /\ worker'[v] = worker[v] /\ worker[v] \in Job
  BY DEF IInv, AllCarry, TypeOK
<1>2. worker[v].snapshot.ids \subseteq Media
  BY <1>1 DEF Job, IdList
<1> QED
  BY <1>1, <1>2 DEF Carries, DoneKept, VerdictsKept

LEMMA AllCarryOn ==
    ASSUME IInv, DoneKept, VerdictsKept, UNCHANGED worker
    PROVE  AllCarry'
<1> SUFFICES ASSUME NEW v \in Workers
             PROVE  Carries(v)'
  BY DEF AllCarry
<1>1. Carries(v) /\ worker'[v] = worker[v] /\ worker[v] \in Job
  BY DEF IInv, AllCarry, TypeOK
<1>2. worker[v].snapshot.ids \subseteq Media
  BY <1>1 DEF Job, IdList
<1> QED
  BY <1>1, <1>2 DEF Carries, DoneKept, VerdictsKept

(* The media gate holds for what was classified before.                    *)
LEMMA GateKept ==
    ASSUME IInv, DoneKept, UNCHANGED <<verdict, linked>>
    PROVE  VerdictNeedsMedia'
<1>1. \A c \in Cycles : verdict[c].ids \cup linked[c] \subseteq Media
  BY DEF IInv, TypeOK, IdList
<1> QED
  BY <1>1 DEF IInv, VerdictNeedsMedia, DoneKept

LEMMA CompletionKept ==
    ASSUME IInv, VerdictsKept, UNCHANGED request,
           \A d \in Cycles :
              /\ cycle'[d].classified = cycle[d].classified
              /\ cycle'[d].status \in Completed => cycle[d].status \in Completed
    PROVE  CompletedHasVerdict'
  BY DEF IInv, CompletedHasVerdict, VerdictsKept

LEMMA VerdictsStay == verdict' = verdict => VerdictsKept
  BY DEF VerdictsKept

LEMMA NoMediaStep ==
    ASSUME TypeOK, UNCHANGED mediaVars
    PROVE  MediaTyped' /\ DoneKept
  BY MediaKept DEF MediaStep

(* A worker moves the row of its cycle, and says nothing new about it.     *)
LEMMA MoveStep ==
    ASSUME IInv, NEW w \in Workers, NEW S, NEW row \in Row,
           worker[w].at # "idle",
           Transition(worker[w].cycle, S, row),
           row.classified = cycle[worker[w].cycle].classified,
           row.status \notin Completed,
           UNCHANGED <<member, verdict, linked, request, mediaVars>>,
           faults' \in 0..MaxFaults,
           worker' \in [Workers -> Job],
           \A v \in Workers : v # w => worker'[v] = worker[v],
           Carries(w)'
    PROVE  IInv'
<1> DEFINE c == worker[w].cycle
<1>1. c \in Cycles /\ TypeOK
  BY DEF IInv, AllCarry, Carries
<1>2. /\ cycle' \in [Cycles -> Row]
      /\ \A d \in Cycles : d # c => cycle'[d] = cycle[d]
      /\ cycle'[c] = row \/ cycle'[c] = cycle[c]
  BY <1>1, TransitionTyped
<1>3. MediaTyped' /\ DoneKept /\ VerdictsKept
  BY <1>1, NoMediaStep, VerdictsStay
<1>4. TypeOK'
  BY <1>1, <1>2, <1>3 DEF TypeOK, MediaTyped
<1>5. \A d \in Cycles :
         /\ cycle'[d].classified = cycle[d].classified
         /\ cycle'[d].status \in Completed => cycle[d].status \in Completed
  BY <1>2
<1>6. CompletedHasVerdict'
  BY <1>3, <1>5, CompletionKept
<1>7. VerdictNeedsMedia'
  BY <1>3, GateKept
<1>8. AllCarry'
  BY <1>3, OthersCarry
<1> QED
  BY <1>4, <1>6, <1>7, <1>8 DEF IInv

(* The rows do not change, one worker may.                                 *)
LEMMA WorkStep ==
    ASSUME IInv, NEW w \in Workers, UNCHANGED <<rows, faults>>, MediaStep,
           worker' \in [Workers -> Job],
           \A v \in Workers : v # w => worker'[v] = worker[v],
           Carries(w)'
    PROVE  IInv'
<1>1. TypeOK
  BY DEF IInv
<1>2. MediaTyped' /\ DoneKept /\ VerdictsKept
  BY <1>1, MediaKept, VerdictsStay DEF rows
<1>3. TypeOK'
  BY <1>1, <1>2 DEF TypeOK, MediaTyped, rows
<1>4. CompletedHasVerdict'
  BY <1>2, CompletionKept DEF rows
<1>5. VerdictNeedsMedia'
  BY <1>2, GateKept DEF rows
<1>6. AllCarry'
  BY <1>2, OthersCarry
<1> QED
  BY <1>3, <1>4, <1>5, <1>6 DEF IInv

(* Time, a closed ticket, a claim: the table moves, no worker decides.     *)
LEMMA TableStep ==
    ASSUME IInv, NEW c \in Cycles, NEW row \in Row,
           cycle' = [cycle EXCEPT ![c] = row],
           row.classified = cycle[c].classified, row.status \notin Completed
              \/ cycle[c].status \in Completed,
           UNCHANGED <<member, verdict, linked, request, mediaVars>>,
           faults' \in 0..MaxFaults,
           worker' \in [Workers -> Job], AllCarry'
    PROVE  IInv'
<1>1. TypeOK
  BY DEF IInv
<1>2. MediaTyped' /\ DoneKept /\ VerdictsKept
  BY <1>1, NoMediaStep, VerdictsStay
<1>3. TypeOK'
  BY <1>1, <1>2 DEF TypeOK, MediaTyped
<1>4. \A d \in Cycles :
         /\ cycle'[d].classified = cycle[d].classified
         /\ cycle'[d].status \in Completed => cycle[d].status \in Completed
  BY <1>1 DEF TypeOK
<1>5. CompletedHasVerdict'
  BY <1>2, <1>4, CompletionKept
<1>6. VerdictNeedsMedia'
  BY <1>2, GateKept
<1> QED
  BY <1>3, <1>5, <1>6 DEF IInv
-----------------------------------------------------------------------------
LEMMA Working ==
    ASSUME IInv, NEW w \in Workers, worker[w].at # "idle"
    PROVE  /\ TypeOK /\ Carries(w)
           /\ worker[w] \in Job
           /\ worker[w].cycle \in Cycles
           /\ worker[w].snapshot \in IdList
           /\ worker[w].snapshot.ids \subseteq Media
           /\ worker[w].attempts \in Nat
           /\ cycle[worker[w].cycle] \in Row
           /\ faults \in 0..MaxFaults
<1>1. TypeOK /\ Carries(w)
  BY DEF IInv, AllCarry
<1>2. worker[w] \in Job /\ worker[w].cycle \in Cycles
  BY <1>1 DEF TypeOK, Carries
<1> QED
  BY <1>1, <1>2 DEF TypeOK, Job, IdList

LEMMA FaultTyped ==
    ASSUME TypeOK, Fault
    PROVE  faults' \in 0..MaxFaults
  BY CycleAssumption DEF TypeOK, Fault

LEMMA TableSteps ==
    ASSUME IInv, NEW c \in Cycles,
           \/ CloseTicket(c) \/ BecomeDue(c) \/ ExpireLease(c)
           \/ WakeUnblocked(c)
    PROVE  IInv'
<1> DEFINE row == cycle[c]
<1>1. TypeOK /\ row \in Row /\ faults \in 0..MaxFaults
      /\ worker \in [Workers -> Job]
  BY DEF IInv, TypeOK
<1>2. UNCHANGED worker /\ UNCHANGED <<member, verdict, linked, request, mediaVars>>
  BY DEF CloseTicket, BecomeDue, ExpireLease, WakeUnblocked
<1>3. AllCarry' /\ worker' \in [Workers -> Job]
  BY <1>1, <1>2, AllCarryOn, NoMediaStep, VerdictsStay
<1>4. CASE CloseTicket(c)
  <2>1. cycle' = [cycle EXCEPT ![c] =
                     [row EXCEPT !.status = "pending", !.due = FALSE]]
    BY <1>1, <1>4 DEF CloseTicket, TypeOK
  <2>2. [row EXCEPT !.status = "pending", !.due = FALSE] \in Row
    BY <1>1 DEF Row, Status, Recoverable
  <2>3. "pending" \notin Completed /\ faults' \in 0..MaxFaults
    BY <1>1, <1>4 DEF Completed, CloseTicket
  <2> HIDE DEF row
  <2> QED
    BY <1>1, <1>2, <1>3, <2>1, <2>2, <2>3, TableStep DEF row, Row
<1>5. CASE BecomeDue(c)
  <2>1. cycle' = [cycle EXCEPT ![c] = [row EXCEPT !.due = TRUE]]
    BY <1>1, <1>5 DEF BecomeDue, TypeOK
  <2>2. [row EXCEPT !.due = TRUE] \in Row
    BY <1>1 DEF Row
  <2>3. faults' \in 0..MaxFaults
    BY <1>1, <1>5 DEF BecomeDue
  <2> QED
    BY <1>1, <1>2, <1>3, <2>1, <2>2, <2>3, TableStep DEF Row
<1>6. CASE ExpireLease(c)
  <2>1. cycle' = [cycle EXCEPT ![c] = [row EXCEPT !.lease = "expired"]]
    BY <1>1, <1>6 DEF ExpireLease, TypeOK
  <2>2. [row EXCEPT !.lease = "expired"] \in Row
    BY <1>1 DEF Row
  <2>3. faults' \in 0..MaxFaults
    BY <1>1, <1>6, FaultTyped DEF ExpireLease
  <2> QED
    BY <1>1, <1>2, <1>3, <2>1, <2>2, <2>3, TableStep DEF Row
<1>7. CASE WakeUnblocked(c)
  <2>1. cycle' = [cycle EXCEPT ![c] =
                     [row EXCEPT !.status = "waiting_media", !.due = TRUE]]
    BY <1>1, <1>7 DEF WakeUnblocked, TypeOK
  <2>2. [row EXCEPT !.status = "waiting_media", !.due = TRUE] \in Row
    BY <1>1 DEF Row, Status, Recoverable
  <2>3. "waiting_media" \notin Completed /\ faults' \in 0..MaxFaults
    BY <1>1, <1>7 DEF Completed, WakeUnblocked
  <2> QED
    BY <1>1, <1>2, <1>3, <2>1, <2>2, <2>3, TableStep DEF Row
<1> QED
  BY <1>4, <1>5, <1>6, <1>7

LEMMA ClaimStep ==
    ASSUME IInv, NEW w \in Workers, NEW c \in Cycles, Claim(w, c)
    PROVE  IInv'
<1> DEFINE row == [cycle[c] EXCEPT !.owner = w, !.lease = "live"]
           job == [at |-> IF cycle[c].snapshot.known THEN "read" ELSE "recover",
                   cycle |-> c, snapshot |-> cycle[c].snapshot,
                   attempts |-> cycle[c].attempts, toReserve |-> {}]
<1>1. TypeOK /\ cycle[c] \in Row /\ faults' \in 0..MaxFaults
  BY DEF IInv, TypeOK, Claim
<1>2. cycle' = [cycle EXCEPT ![c] = row] /\ row \in Row
  BY <1>1 DEF Claim, TypeOK, Row
<1>3. job \in Job /\ job.at \in {"read", "recover"} /\ job.cycle = c
  BY <1>1 DEF Job, Row, Processing
<1>4. worker' = [worker EXCEPT ![w] = job]
  BY DEF Claim
<1>5. /\ row.classified = cycle[c].classified
      /\ row.status = cycle[c].status
  BY <1>1 DEF Row
<1>6. UNCHANGED <<member, verdict, linked, request, mediaVars>>
  BY DEF Claim
<1> HIDE DEF row, job
<1>7. /\ worker' \in [Workers -> Job]
      /\ \A v \in Workers : v # w => worker'[v] = worker[v]
      /\ worker'[w] = job
  BY <1>1, <1>3, <1>4 DEF TypeOK
<1>8. Carries(w)'
  BY <1>3, <1>7 DEF Carries, Reasoning
<1>9. AllCarry'
  BY <1>1, <1>6, <1>7, <1>8, OthersCarry, NoMediaStep, VerdictsStay
<1> QED
  BY <1>1, <1>2, <1>5, <1>6, <1>7, <1>9, TableStep

(* The transactions that write the row of the worker's cycle.              *)
LEMMA RowSteps ==
    ASSUME IInv, NEW w \in Workers,
           \/ StartRecovery(w) \/ BuildContext(w)
           \/ BlockOnMedia(w) \/ WaitForMedia(w)
           \/ Summarize(w) \/ Classify(w)
           \/ RetryProvider(w) \/ RecordFailure(w)
    PROVE  IInv'
<1> DEFINE c == worker[w].cycle
<1>1. worker[w].at # "idle"
  BY DEF StartRecovery, BuildContext, BlockOnMedia, WaitForMedia, Summarize,
         Classify, Advance, RetryProvider, RecordFailure, Processing
<1>2. /\ TypeOK /\ Carries(w)
      /\ c \in Cycles /\ cycle[c] \in Row
      /\ worker[w].snapshot \in IdList /\ worker[w].attempts \in Nat
  BY <1>1, Working
<1>3. UNCHANGED <<member, verdict, linked, request, mediaVars>>
  BY DEF StartRecovery, BuildContext, BlockOnMedia, WaitForMedia, Summarize,
         Classify, Advance, RetryProvider, RecordFailure
<1>4. faults' \in 0..MaxFaults
  BY <1>2, FaultTyped
  DEF StartRecovery, BuildContext, BlockOnMedia, WaitForMedia, Summarize,
      Classify, Advance, RetryProvider, RecordFailure, TypeOK
<1>5. /\ \A s : /\ Moved(c, s).classified = cycle[c].classified
                /\ Moved(c, s).status = s
      /\ \A s, k :
            LET r == [Moved(c, s) EXCEPT !.snapshot = k]
            IN  r.classified = cycle[c].classified /\ r.status = s
  BY <1>2 DEF Moved, Row
<1>6. \A s \in Status :
         /\ Moved(c, s) \in Row
         /\ \A k \in IdList : [Moved(c, s) EXCEPT !.snapshot = k] \in Row
  BY <1>2 DEF Moved, Row
<1>7. \A s \in {"recovering_messages", "building_context", "media_blocked",
                "waiting_media", "summarizing", "classifying",
                "retryable_failure", "failed"} :
         s \in Status /\ s \notin Completed
  BY DEF Status, Recoverable, Terminal, Completed
<1>8. ASSUME NEW step \in {"save", "read", "summarized", "insert"},
             Goto(w, step),
             step \in Reasoning => worker[w].at \in Reasoning
      PROVE  /\ worker' \in [Workers -> Job]
             /\ \A v \in Workers : v # w => worker'[v] = worker[v]
             /\ Carries(w)'
  <2>1. step \in Processing
    BY DEF Processing
  <2>2. /\ worker' \in [Workers -> Job]
        /\ \A v \in Workers : v # w => worker'[v] = worker[v]
        /\ worker'[w].at = step
        /\ worker'[w].cycle = c
        /\ worker'[w].snapshot = worker[w].snapshot
    BY <1>2, <1>8, <2>1, GotoTyped
  <2>3. outcome' = outcome
    BY <1>3 DEF mediaVars
  <2> QED
    BY <1>2, <1>8, <2>2, <2>3 DEF Carries
<1>9. ASSUME Release(w)
      PROVE  /\ worker' \in [Workers -> Job]
             /\ \A v \in Workers : v # w => worker'[v] = worker[v]
             /\ Carries(w)'
  BY <1>2, <1>9, ReleaseTyped DEF Carries, Reasoning
<1> HIDE DEF c
<1>10. CASE StartRecovery(w)
  <2>1. Transition(c, {"pending", "retryable_failure", "recovering_messages"},
                   Moved(c, "recovering_messages")) /\ Goto(w, "save")
    BY <1>10 DEF StartRecovery, c
  <2>2. Moved(c, "recovering_messages") \in Row
    BY <1>6, <1>7
  <2> QED
    BY <1>1, <1>3, <1>4, <1>5, <1>7, <1>8, <2>1, <2>2, MoveStep
    DEF c, Reasoning
<1>11. CASE BuildContext(w)
  <2> DEFINE r == [Moved(c, "building_context") EXCEPT
                      !.snapshot = worker[w].snapshot]
  <2>1. Transition(c, {"recovering_messages"}, r) /\ Goto(w, "read")
    BY <1>11 DEF BuildContext, c
  <2>2. /\ r \in Row /\ r.classified = cycle[c].classified
        /\ r.status \notin Completed
    BY <1>2, <1>5, <1>6, <1>7
  <2> HIDE DEF r
  <2> QED
    BY <1>1, <1>3, <1>4, <1>8, <2>1, <2>2, MoveStep DEF c, Reasoning
<1>12. CASE BlockOnMedia(w)
  <2> DEFINE r == [Freed(c, "media_blocked", TRUE) EXCEPT
                      !.snapshot = worker[w].snapshot]
  <2>1. Transition(c, MediaPhase, r) /\ Release(w)
    BY <1>12 DEF BlockOnMedia, c
  <2>2. /\ r \in Row /\ r.classified = cycle[c].classified
        /\ r.status \notin Completed
    BY <1>2, <1>7 DEF Freed, Row
  <2> HIDE DEF r
  <2> QED
    BY <1>1, <1>3, <1>4, <1>9, <2>1, <2>2, MoveStep DEF c
<1>13. CASE WaitForMedia(w)
  <2> DEFINE r == [Freed(c, "waiting_media", FALSE) EXCEPT
                      !.snapshot = worker[w].snapshot]
  <2>1. Transition(c, MediaPhase, r) /\ Release(w)
    BY <1>13 DEF WaitForMedia, c
  <2>2. /\ r \in Row /\ r.classified = cycle[c].classified
        /\ r.status \notin Completed
    BY <1>2, <1>7 DEF Freed, Row
  <2> HIDE DEF r
  <2> QED
    BY <1>1, <1>3, <1>4, <1>9, <2>1, <2>2, MoveStep DEF c
<1>14. CASE Summarize(w)
  <2> DEFINE r == [Moved(c, "summarizing") EXCEPT
                      !.snapshot = worker[w].snapshot]
  <2>1. /\ Transition(c, Status, r) /\ Goto(w, "summarized")
        /\ worker[w].at = "summarize"
    BY <1>14 DEF Summarize, Advance, c
  <2>2. /\ r \in Row /\ r.classified = cycle[c].classified
        /\ r.status \notin Completed
    BY <1>2, <1>5, <1>6, <1>7
  <2> HIDE DEF r
  <2> QED
    BY <1>1, <1>3, <1>4, <1>8, <2>1, <2>2, MoveStep DEF c, Reasoning
<1>15. CASE Classify(w)
  <2> DEFINE r == [Moved(c, "classifying") EXCEPT
                      !.snapshot = worker[w].snapshot]
  <2>1. /\ Transition(c, Status, r) /\ Goto(w, "insert")
        /\ worker[w].at \in {"classify", "summarized"}
    BY <1>15 DEF Classify, Advance, c
  <2>2. /\ r \in Row /\ r.classified = cycle[c].classified
        /\ r.status \notin Completed
    BY <1>2, <1>5, <1>6, <1>7
  <2> HIDE DEF r
  <2> QED
    BY <1>1, <1>3, <1>4, <1>8, <2>1, <2>2, MoveStep DEF c, Reasoning
<1>16. CASE RetryProvider(w)
  <2> DEFINE r == Freed(c, "retryable_failure", FALSE)
  <2>1. Transition(c, Status, r) /\ Release(w)
    BY <1>16 DEF RetryProvider, c
  <2>2. /\ r \in Row /\ r.classified = cycle[c].classified
        /\ r.status \notin Completed
    BY <1>2, <1>7 DEF Freed, Row
  <2> HIDE DEF r
  <2> QED
    BY <1>1, <1>3, <1>4, <1>9, <2>1, <2>2, MoveStep DEF c
<1>17. CASE RecordFailure(w)
  <2> DEFINE n == worker[w].attempts + 1
             f == [Freed(c, "failed", TRUE) EXCEPT !.attempts = n]
             r == [Freed(c, "retryable_failure", FALSE) EXCEPT !.attempts = n]
  <2>1. /\ Transition(c, Status, f) \/ Transition(c, Status, r)
        /\ Release(w)
    BY <1>17 DEF RecordFailure, c
  <2> n \in Nat
    BY <1>2
  <2> HIDE DEF n
  <2>2. /\ f \in Row /\ f.classified = cycle[c].classified
        /\ f.status \notin Completed
    BY <1>2, <1>7 DEF Freed, Row
  <2>5. /\ r \in Row /\ r.classified = cycle[c].classified
        /\ r.status \notin Completed
    BY <1>2, <1>7 DEF Freed, Row
  <2> HIDE DEF f, r
  <2>3. CASE Transition(c, Status, f)
    BY <1>1, <1>3, <1>4, <1>9, <2>1, <2>2, <2>3, MoveStep DEF c
  <2>4. CASE Transition(c, Status, r)
    BY <1>1, <1>3, <1>4, <1>9, <2>1, <2>5, <2>4, MoveStep DEF c
  <2> QED
    BY <2>1, <2>3, <2>4
<1> QED
  BY <1>10, <1>11, <1>12, <1>13, <1>14, <1>15, <1>16, <1>17

(* The transactions that only read, and the end of a worker.               *)
LEMMA ReadSteps ==
    ASSUME IInv, NEW w \in Workers,
           \/ ReadMedia(w) \/ (\E m \in Media : ReserveMedia(w, m))
           \/ InspectMedia(w) \/ PrepareRequest(w)
    PROVE  IInv'
<1>1. worker[w].at # "idle"
  BY DEF ReadMedia, ReserveMedia, InspectMedia, PrepareRequest
<1>2. /\ TypeOK /\ Carries(w)
      /\ worker[w] \in Job
      /\ worker[w].cycle \in Cycles
      /\ worker[w].snapshot.ids \subseteq Media
  BY <1>1, Working
<1>3. UNCHANGED <<rows, faults>>
  BY DEF ReadMedia, ReserveMedia, InspectMedia, PrepareRequest
<1>4. ASSUME NEW step \in {"block", "wait", "summarize", "classify", "admit"},
             Goto(w, step), UNCHANGED mediaVars,
             step \in Reasoning =>
                \A m \in worker[w].snapshot.ids : outcome[m] = "done"
      PROVE  IInv'
  <2>1. step \in {"idle", "prepare", "admit"} \cup Processing
    BY DEF Processing
  <2>2. /\ worker' \in [Workers -> Job]
        /\ \A v \in Workers : v # w => worker'[v] = worker[v]
        /\ worker'[w].at = step
        /\ worker'[w].cycle = worker[w].cycle
        /\ worker'[w].snapshot = worker[w].snapshot
    BY <1>2, <1>4, <2>1, GotoTyped
  <2>3. Carries(w)'
    BY <1>2, <1>4, <2>2 DEF Carries, mediaVars
  <2> QED
    BY <1>3, <1>4, <2>2, <2>3, WorkStep DEF MediaStep
<1>5. CASE ReadMedia(w)
  <2> DEFINE S == {m \in worker[w].snapshot.ids :
                     outcome[m] \in {"none", "failed"} /\ ~Exhausted(m)}
  <2>1. S \subseteq Media
    BY <1>2
  <2>2. /\ worker' = [worker EXCEPT ![w].at = "reserve", ![w].toReserve = S]
        /\ UNCHANGED mediaVars
    BY <1>5 DEF ReadMedia
  <2> HIDE DEF S
  <2>3. /\ worker' \in [Workers -> Job]
        /\ \A v \in Workers : v # w => worker'[v] = worker[v]
        /\ worker'[w].at = "reserve"
        /\ worker'[w].cycle = worker[w].cycle
    BY <1>2, <2>1, <2>2 DEF TypeOK, Job, Processing
  <2>4. Carries(w)'
    BY <1>2, <2>3 DEF Carries, Reasoning
  <2> QED
    BY <1>3, <2>2, <2>3, <2>4, WorkStep DEF MediaStep
<1>6. ASSUME NEW m \in Media, ReserveMedia(w, m)
      PROVE  IInv'
  <2>1. /\ worker' = [worker EXCEPT ![w].toReserve = @ \ {m}]
        /\ worker[w].at = "reserve"
        /\ MediaStep
    BY <1>6 DEF ReserveMedia, MediaStep
  <2>2. /\ worker' \in [Workers -> Job]
        /\ \A v \in Workers : v # w => worker'[v] = worker[v]
        /\ worker'[w].at = "reserve"
        /\ worker'[w].cycle = worker[w].cycle
    BY <1>2, <2>1 DEF TypeOK, Job
  <2>3. Carries(w)'
    BY <1>2, <2>2 DEF Carries, Reasoning
  <2> QED
    BY <1>3, <2>1, <2>2, <2>3, WorkStep
<1>7. CASE InspectMedia(w)
  BY <1>4, <1>7 DEF InspectMedia, Reasoning
<1>8. CASE PrepareRequest(w)
  <2>1. UNCHANGED mediaVars
    BY <1>8 DEF PrepareRequest
  <2>2. CASE Goto(w, "admit")
    BY <1>4, <2>1, <2>2 DEF Reasoning
  <2>3. CASE Release(w)
    <3>1. /\ worker' \in [Workers -> Job]
          /\ \A v \in Workers : v # w => worker'[v] = worker[v]
          /\ Carries(w)'
      BY <1>2, <2>3, ReleaseTyped DEF Carries, Reasoning
    <3> QED
      BY <1>3, <2>1, <3>1, WorkStep DEF MediaStep
  <2> QED
    BY <1>8, <2>2, <2>3 DEF PrepareRequest
<1> QED
  BY <1>5, <1>6, <1>7, <1>8

LEMMA CrashStep ==
    ASSUME IInv, NEW w \in Workers, Crash(w)
    PROVE  IInv'
<1>1. TypeOK /\ faults' \in 0..MaxFaults
  BY FaultTyped DEF IInv, Crash
<1>2. /\ worker' \in [Workers -> Job]
      /\ \A v \in Workers : v # w => worker'[v] = worker[v]
      /\ Carries(w)'
  BY <1>1, ReleaseTyped DEF Crash, Carries, Reasoning
<1>3. UNCHANGED <<rows, mediaVars>>
  BY DEF Crash
<1>4. MediaTyped' /\ DoneKept /\ VerdictsKept
  BY <1>1, <1>3, NoMediaStep, VerdictsStay DEF rows
<1>5. TypeOK'
  BY <1>1, <1>2, <1>3, <1>4 DEF TypeOK, MediaTyped, rows
<1>6. CompletedHasVerdict'
  BY <1>3, <1>4, CompletionKept DEF rows
<1>7. VerdictNeedsMedia' /\ AllCarry'
  BY <1>2, <1>3, <1>4, GateKept, OthersCarry DEF rows
<1> QED
  BY <1>5, <1>6, <1>7 DEF IInv

LEMMA MediaSteps ==
    ASSUME IInv, MediaStep, UNCHANGED <<rows, worker, faults>>
    PROVE  IInv'
<1>1. TypeOK /\ worker \in [Workers -> Job]
  BY DEF IInv, TypeOK
<1>2. MediaTyped' /\ DoneKept /\ VerdictsKept
  BY <1>1, MediaKept, VerdictsStay DEF rows
<1>3. TypeOK'
  BY <1>1, <1>2 DEF TypeOK, MediaTyped, rows
<1>4. CompletedHasVerdict'
  BY <1>2, CompletionKept DEF rows
<1>5. VerdictNeedsMedia' /\ AllCarry'
  BY <1>2, GateKept, AllCarryOn DEF rows
<1> QED
  BY <1>3, <1>4, <1>5 DEF IInv

LEMMA SaveStep ==
    ASSUME IInv, NEW w \in Workers, SaveMessages(w)
    PROVE  IInv'
<1> DEFINE c == worker[w].cycle
<1>1. worker[w].at # "idle"
  BY DEF SaveMessages
<1>2. TypeOK /\ c \in Cycles
  BY <1>1, Working
<1>3. UNCHANGED <<cycle, verdict, linked, request, faults, mediaVars>>
  BY DEF SaveMessages
<1>4. PICK S \in SUBSET Media :
         /\ member' = [m \in Media |-> IF m \in S THEN c
                                       ELSE IF member[m] = c THEN NoCycle
                                       ELSE member[m]]
         /\ worker' = [worker EXCEPT ![w].at = "build", ![w].snapshot = Known(S)]
  <2>1. Histories[c] \subseteq SUBSET Media
    BY <1>2, CycleAssumption
  <2> QED
    BY <2>1 DEF SaveMessages
<1>5. member' \in [Media -> Cycles \cup {NoCycle}]
  BY <1>2, <1>4 DEF TypeOK
<1>6. Known(S) \in IdList
  BY DEF Known, IdList
<1>7. /\ worker' \in [Workers -> Job]
      /\ \A v \in Workers : v # w => worker'[v] = worker[v]
      /\ worker'[w].at = "build"
      /\ worker'[w].cycle = worker[w].cycle
  <2>1. worker \in [Workers -> Job] /\ worker[w] \in Job
    BY <1>2 DEF TypeOK
  <2> DEFINE new == [worker[w] EXCEPT !.at = "build", !.snapshot = Known(S)]
  <2>2. new \in Job /\ new.at = "build" /\ new.cycle = worker[w].cycle
    BY <1>6, <2>1 DEF Job, Processing
  <2>3. worker' = [worker EXCEPT ![w] = new]
    BY <1>4
  <2> HIDE DEF new
  <2> QED
    BY <2>1, <2>2, <2>3
<1>8. Carries(w)'
  BY <1>2, <1>7 DEF Carries, Reasoning
<1>9. MediaTyped' /\ DoneKept /\ VerdictsKept
  BY <1>2, <1>3, NoMediaStep, VerdictsStay
<1>10. TypeOK'
  BY <1>2, <1>3, <1>5, <1>7, <1>9 DEF TypeOK, MediaTyped
<1>11. CompletedHasVerdict'
  BY <1>3, <1>9, CompletionKept
<1>12. VerdictNeedsMedia' /\ AllCarry'
  BY <1>3, <1>7, <1>8, <1>9, GateKept, OthersCarry
<1> QED
  BY <1>10, <1>11, <1>12 DEF IInv

LEMMA InsertStep ==
    ASSUME IInv, NEW w \in Workers, InsertClassification(w)
    PROVE  IInv'
<1> DEFINE c == worker[w].cycle
           ids == worker[w].snapshot.ids
<1>1. worker[w].at = "insert"
  BY DEF InsertClassification
<1>2. /\ TypeOK /\ Carries(w) /\ c \in Cycles /\ ids \subseteq Media
      /\ faults \in 0..MaxFaults
  BY <1>1, Working
<1>3. /\ verdict' = [verdict EXCEPT ![c] = IF @.known THEN @ ELSE Known(ids)]
      /\ linked' = [linked EXCEPT ![c] = @ \cup ids]
      /\ Goto(w, "finish")
      /\ UNCHANGED <<cycle, member, request, faults, mediaVars>>
  BY DEF InsertClassification
<1>4. \A m \in ids : outcome[m] = "done"
  BY <1>1, <1>2 DEF Carries, Reasoning
<1> HIDE DEF c, ids
<1>5. /\ verdict' \in [Cycles -> IdList]
      /\ linked' \in [Cycles -> SUBSET Media]
      /\ \A d \in Cycles : d # c => verdict'[d] = verdict[d] /\ linked'[d] = linked[d]
      /\ linked'[c] = linked[c] \cup ids
      /\ verdict'[c].known
      /\ verdict'[c].ids \subseteq verdict[c].ids \cup ids
  <2>1. Known(ids) \in IdList /\ Known(ids).known /\ Known(ids).ids = ids
    BY <1>2 DEF Known, IdList
  <2> QED
    BY <1>2, <1>3, <2>1 DEF TypeOK
<1>6. VerdictsKept
  BY <1>5 DEF VerdictsKept
<1>7. MediaTyped' /\ DoneKept
  BY <1>2, <1>3, NoMediaStep
<1>8. "finish" \in {"idle", "prepare", "admit"} \cup Processing
  BY DEF Processing
<1>9. /\ worker' \in [Workers -> Job]
      /\ \A v \in Workers : v # w => worker'[v] = worker[v]
      /\ worker'[w].at = "finish"
      /\ worker'[w].cycle = c
  BY <1>2, <1>3, <1>8, GotoTyped DEF c
<1>10. Carries(w)'
  BY <1>2, <1>5, <1>9 DEF Carries, Reasoning
<1>11. TypeOK'
  BY <1>2, <1>3, <1>5, <1>7, <1>9 DEF TypeOK, MediaTyped
<1>12. CompletedHasVerdict'
  BY <1>3, <1>6, CompletionKept
<1>13. VerdictNeedsMedia'
  <2> SUFFICES ASSUME NEW d \in Cycles,
                      NEW m \in verdict'[d].ids \cup linked'[d]
               PROVE  outcome'[m] = "done"
    BY DEF VerdictNeedsMedia
  <2>1. m \in verdict[d].ids \cup linked[d] \/ m \in ids
    BY <1>5
  <2>2. outcome[m] = "done"
    BY <1>4, <2>1 DEF IInv, VerdictNeedsMedia
  <2> QED
    BY <1>3, <2>2 DEF mediaVars
<1>14. AllCarry'
  BY <1>6, <1>7, <1>9, <1>10, OthersCarry
<1> QED
  BY <1>11, <1>12, <1>13, <1>14 DEF IInv

LEMMA CompleteStep ==
    ASSUME IInv, NEW w \in Workers, Complete(w)
    PROVE  IInv'
<1> DEFINE c == worker[w].cycle
           row == [Freed(c, "completed", TRUE) EXCEPT
                      !.snapshot = worker[w].snapshot, !.classified = TRUE]
<1>1. worker[w].at = "finish"
  BY DEF Complete
<1>2. /\ TypeOK /\ Carries(w) /\ c \in Cycles /\ cycle[c] \in Row
      /\ worker[w].snapshot \in IdList /\ faults \in 0..MaxFaults
  BY <1>1, Working
<1>3. /\ Transition(c, {"classifying"}, row)
      /\ Goto(w, "prepare")
      /\ UNCHANGED <<member, verdict, linked, request, faults, mediaVars>>
  BY DEF Complete
<1>4. row \in Row /\ row.classified
  BY <1>2 DEF Freed, Row, Status, Terminal, Completed
<1>5. verdict[c].known
  BY <1>1, <1>2 DEF Carries
<1> HIDE DEF c, row
<1>6. /\ cycle' \in [Cycles -> Row]
      /\ \A d \in Cycles : d # c => cycle'[d] = cycle[d]
      /\ cycle'[c] = row \/ cycle'[c] = cycle[c]
  BY <1>2, <1>3, <1>4, TransitionTyped
<1>7. "prepare" \in {"idle", "prepare", "admit"} \cup Processing
  OBVIOUS
<1>8. /\ worker' \in [Workers -> Job]
      /\ \A v \in Workers : v # w => worker'[v] = worker[v]
      /\ worker'[w].at = "prepare"
      /\ worker'[w].cycle = c
  BY <1>2, <1>3, <1>7, GotoTyped DEF c
<1>9. Carries(w)'
  BY <1>2, <1>8 DEF Carries, Reasoning
<1>10. MediaTyped' /\ DoneKept /\ VerdictsKept
  BY <1>2, <1>3, NoMediaStep, VerdictsStay
<1>11. TypeOK'
  BY <1>2, <1>3, <1>6, <1>8, <1>10 DEF TypeOK, MediaTyped
<1>12. CompletedHasVerdict'
  BY <1>3, <1>4, <1>5, <1>6 DEF IInv, CompletedHasVerdict
<1>13. VerdictNeedsMedia' /\ AllCarry'
  BY <1>3, <1>8, <1>9, <1>10, GateKept, OthersCarry
<1> QED
  BY <1>11, <1>12, <1>13 DEF IInv

LEMMA AdmitStep ==
    ASSUME IInv, NEW w \in Workers, AdmitRequest(w)
    PROVE  IInv'
<1> DEFINE c == worker[w].cycle
<1>1. worker[w].at # "idle"
  BY DEF AdmitRequest
<1>2. TypeOK /\ c \in Cycles
  BY <1>1, Working
<1>3. /\ request' = [request EXCEPT ![c] =
            IF @ # "none" THEN @
            ELSE IF cycle[c].status \in Completed /\ cycle[c].classified
                 THEN "admitted" ELSE "refused"]
      /\ Release(w)
      /\ UNCHANGED <<cycle, member, verdict, linked, faults, mediaVars>>
  BY DEF AdmitRequest
<1> HIDE DEF c
<1>4. /\ worker' \in [Workers -> Job]
      /\ \A v \in Workers : v # w => worker'[v] = worker[v]
      /\ Carries(w)'
  BY <1>2, <1>3, ReleaseTyped DEF Carries, Reasoning
<1>5. MediaTyped' /\ DoneKept /\ VerdictsKept
  BY <1>2, <1>3, NoMediaStep, VerdictsStay
<1>6. request' \in [Cycles -> {"none", "admitted", "refused"}]
  BY <1>2, <1>3 DEF TypeOK
<1>7. TypeOK'
  BY <1>2, <1>3, <1>4, <1>5, <1>6 DEF TypeOK, MediaTyped
<1>8. \A d \in Cycles : request'[d] = "admitted" =>
         request[d] = "admitted" \/ cycle[d].status \in Completed
  BY <1>2, <1>3 DEF TypeOK
<1>9. CompletedHasVerdict'
  BY <1>3, <1>8 DEF IInv, CompletedHasVerdict
<1>10. VerdictNeedsMedia' /\ AllCarry'
  BY <1>3, <1>4, <1>5, GateKept, OthersCarry
<1> QED
  BY <1>7, <1>9, <1>10 DEF IInv

LEMMA Initial == Init => IInv
<1> SUFFICES ASSUME Init
             PROVE  IInv
  OBVIOUS
<1>1. OpenRow \in Row /\ Unknown \in IdList /\ Idle \in Job
  BY DEF OpenRow, Row, Unknown, IdList, Idle, Job, Status
<1>2. /\ outcome \in [Media -> Extraction!Outcomes]
      /\ attempt \in [Media -> Nat] /\ result \in [Media -> Nat]
  BY DEF Init, Extraction!Init, Extraction!Outcomes
<1>3. TypeOK
  BY <1>1, <1>2, CycleAssumption DEF Init, TypeOK
<1>4. AllCarry
  BY DEF Init, AllCarry, Carries, Idle, Reasoning
<1>5. VerdictNeedsMedia /\ CompletedHasVerdict
  BY DEF Init, VerdictNeedsMedia, CompletedHasVerdict, Unknown, OpenRow,
         Completed
<1> QED
  BY <1>3, <1>4, <1>5 DEF IInv

LEMMA Preserved == IInv /\ [Next]_vars => IInv'
<1> SUFFICES ASSUME IInv, [Next]_vars
             PROVE  IInv'
  OBVIOUS
<1>1. CASE UNCHANGED vars
  BY <1>1, MediaSteps DEF vars, MediaStep
<1>2. ASSUME NEW c \in Cycles,
             \/ CloseTicket(c) \/ BecomeDue(c) \/ ExpireLease(c)
             \/ WakeUnblocked(c) \/ (\E w \in Workers : Claim(w, c))
      PROVE  IInv'
  BY <1>2, TableSteps, ClaimStep
<1>3. ASSUME NEW w \in Workers, Progress(w)
      PROVE  IInv'
  BY <1>3, RowSteps, ReadSteps, SaveStep, InsertStep, CompleteStep, AdmitStep
  DEF Progress
<1>4. ASSUME NEW w \in Workers,
             RetryProvider(w) \/ RecordFailure(w) \/ Crash(w)
      PROVE  IInv'
  BY <1>4, RowSteps, CrashStep
<1>5. ASSUME NEW m \in Media,
             \/ StartExtraction(m) \/ RetryExtraction(m)
             \/ EndExtraction(m) \/ DeliverMessage(m)
      PROVE  IInv'
  <2>1. MediaStep /\ UNCHANGED <<rows, worker, faults>>
    BY <1>5 DEF StartExtraction, RetryExtraction, EndExtraction,
                DeliverMessage, MediaStep
  <2> QED
    BY <2>1, MediaSteps
<1> QED
  BY <1>1, <1>2, <1>3, <1>4, <1>5 DEF Next

LEMMA Inductive == Spec => []IInv
  BY Initial, Preserved, PTL DEF Spec
-----------------------------------------------------------------------------
(* TypeOK of CycleFinalization: every table and worker keeps its type.     *)
THEOREM TypeCorrect == Spec => []TypeOK
<1>1. IInv => TypeOK
  BY DEF IInv
<1> QED
  BY <1>1, Inductive, PTL

(* VerdictNeedsMedia: no classification rests on a message whose           *)
(* extraction is not done, although leases may be overrun.                 *)
THEOREM MediaGate == Spec => []VerdictNeedsMedia
<1>1. IInv => VerdictNeedsMedia
  BY DEF IInv
<1> QED
  BY <1>1, Inductive, PTL

(* CompletedHasVerdict: what is completed, or has its Request admitted,    *)
(* was classified, whichever workers got it there.                         *)
THEOREM CompletedWasClassified == Spec => []CompletedHasVerdict
<1>1. IInv => CompletedHasVerdict
  BY DEF IInv
<1> QED
  BY <1>1, Inductive, PTL
-----------------------------------------------------------------------------
(* While leases are respected.                                             *)
Members(c) == {m \in Media : member[m] = c}

Reading == {"recover", "save", "build"}

(* The cycle of a working worker is held by it, and has not ended.         *)
Held(w) ==
    worker[w].at \in Processing =>
        LET row == cycle[worker[w].cycle] IN
        /\ worker[w].cycle \in Cycles
        /\ row.lease = "live" /\ row.owner = w
        /\ row.status \in Recoverable

(* It knows of the row what the row says, or is about to write it.         *)
Informed(w) ==
    LET row == cycle[worker[w].cycle] IN
    /\ worker[w].at \in Reading => ~row.snapshot.known
    /\ worker[w].at \in {"save", "build"} => row.status = "recovering_messages"
    /\ worker[w].at = "build" =>
          worker[w].snapshot = Known(Members(worker[w].cycle))
    /\ worker[w].at \in Processing \ Reading =>
          row.snapshot.known /\ worker[w].snapshot = row.snapshot

Early == {"open", "pending", "recovering_messages", "retryable_failure",
          "failed"}

(* What the four records of a cycle rest on agrees as far as it is there.  *)
Agree(c) ==
    /\ ~cycle[c].snapshot.known => cycle[c].status \in Early
    /\ cycle[c].snapshot.known => cycle[c].snapshot = Known(Members(c))
    /\ IF verdict[c].known THEN verdict[c] = cycle[c].snapshot
                           ELSE verdict[c] = Unknown
    /\ linked[c] = verdict[c].ids

OInv ==
    /\ IInv
    /\ \A w \in Workers : Held(w) /\ Informed(w)
    /\ \A c \in Cycles : Agree(c)

(* A cycle is held by one worker.                                          *)
LEMMA HeldByOne ==
    ASSUME OInv, NEW v \in Workers, NEW w \in Workers,
           worker[v].at \in Processing, worker[w].at \in Processing,
           worker[v].cycle = worker[w].cycle
    PROVE  v = w
  BY DEF OInv, Held

(* A row that changes keeps what its worker, if it has one, knows of it.   *)
LEMMA AgreementKept ==
    ASSUME OInv, NEW c \in Cycles, NEW row,
           cycle' = [cycle EXCEPT ![c] = row],
           \A w \in Workers :
              worker[w].at \in Processing /\ worker[w].cycle = c =>
                 /\ row.lease = cycle[c].lease
                 /\ row.owner = cycle[c].owner
                 /\ row.status = cycle[c].status,
           UNCHANGED <<member, verdict, linked, worker>>,
           row.snapshot = cycle[c].snapshot,
           row.status \notin Early => cycle[c].status \notin Early
    PROVE  /\ \A w \in Workers : Held(w)' /\ Informed(w)'
           /\ \A d \in Cycles : Agree(d)'
<1>1. /\ cycle'[c] = row
      /\ \A d \in Cycles : d # c => cycle'[d] = cycle[d]
  BY DEF OInv, IInv, TypeOK
<1>2. \A d \in Cycles : Members(d)' = Members(d)
  BY DEF Members
<1>3. ASSUME NEW w \in Workers
      PROVE  Held(w)' /\ Informed(w)'
  <2>1. Held(w) /\ Informed(w) /\ worker'[w] = worker[w]
    BY DEF OInv
  <2>2. CASE worker[w].at \in Processing
    <3>1. worker[w].cycle \in Cycles
      BY <2>1, <2>2 DEF Held
    <3>2. /\ cycle'[worker[w].cycle].lease = cycle[worker[w].cycle].lease
          /\ cycle'[worker[w].cycle].owner = cycle[worker[w].cycle].owner
          /\ cycle'[worker[w].cycle].status = cycle[worker[w].cycle].status
          /\ cycle'[worker[w].cycle].snapshot = cycle[worker[w].cycle].snapshot
      BY <1>1, <2>2, <3>1
    <3> QED
      BY <1>2, <2>1, <3>1, <3>2 DEF Held, Informed
  <2>3. CASE worker[w].at \notin Processing
    BY <2>1, <2>3 DEF Held, Informed, Reading, Processing
  <2> QED
    BY <2>2, <2>3
<1>4. ASSUME NEW d \in Cycles
      PROVE  Agree(d)'
  BY <1>1, <1>2 DEF OInv, Agree
<1> QED
  BY <1>3, <1>4

(* A step of worker w that leaves the cycles of the others alone.          *)
LEMMA OthersInformed ==
    ASSUME OInv, NEW w \in Workers,
           \A v \in Workers : v # w => worker'[v] = worker[v],
           \A v \in Workers : v # w /\ worker[v].at \in Processing =>
              /\ cycle'[worker[v].cycle] = cycle[worker[v].cycle]
              /\ Members(worker[v].cycle)' = Members(worker[v].cycle),
           Held(w)', Informed(w)'
    PROVE  \A v \in Workers : Held(v)' /\ Informed(v)'
<1> SUFFICES ASSUME NEW v \in Workers, v # w
             PROVE  Held(v)' /\ Informed(v)'
  OBVIOUS
<1>1. Held(v) /\ Informed(v) /\ worker'[v] = worker[v]
  BY DEF OInv
<1>2. CASE worker[v].at \in Processing
  BY <1>1, <1>2 DEF Held, Informed
<1>3. CASE worker[v].at \notin Processing
  BY <1>1, <1>3 DEF Held, Informed, Reading, Processing
<1> QED
  BY <1>2, <1>3

(* A worker moves the row of its cycle, and what the four records say.     *)
LEMMA WorkerMoves ==
    ASSUME OInv, NEW w \in Workers, NEW c,
           c = worker[w].cycle, worker[w].at \in Processing,
           \A v \in Workers : v # w => worker'[v] = worker[v],
           \A d \in Cycles : d # c =>
              /\ cycle'[d] = cycle[d]
              /\ verdict'[d] = verdict[d]
              /\ linked'[d] = linked[d]
              /\ Members(d)' = Members(d),
           Held(w)', Informed(w)', Agree(c)'
    PROVE  /\ \A v \in Workers : Held(v)' /\ Informed(v)'
           /\ \A d \in Cycles : Agree(d)'
<1>1. ASSUME NEW v \in Workers, v # w, worker[v].at \in Processing
      PROVE  worker[v].cycle \in Cycles /\ worker[v].cycle # c
  BY <1>1, HeldByOne DEF OInv, Held
<1>2. \A v \in Workers : Held(v)' /\ Informed(v)'
  BY <1>1, OthersInformed
<1>3. ASSUME NEW d \in Cycles, d # c
      PROVE  Agree(d)'
  BY <1>3 DEF OInv, Agree
<1> QED
  BY <1>2, <1>3

(* The rows stay; a worker goes on with what it knows, or is done.         *)
LEMMA WorkerGoesOn ==
    ASSUME OInv, NEW w \in Workers,
           UNCHANGED <<cycle, member, verdict, linked>>,
           \A v \in Workers : v # w => worker'[v] = worker[v],
           \/ worker'[w].at \notin Processing
           \/ /\ worker[w].at \in Processing \ Reading
              /\ worker'[w].at \in Processing \ Reading
              /\ worker'[w].cycle = worker[w].cycle
              /\ worker'[w].snapshot = worker[w].snapshot
    PROVE  /\ \A v \in Workers : Held(v)' /\ Informed(v)'
           /\ \A d \in Cycles : Agree(d)'
<1>1. \A x : Members(x)' = Members(x)
  BY DEF Members
<1>2. Held(w) /\ Informed(w)
  BY DEF OInv
<1>3. Held(w)' /\ Informed(w)'
  BY <1>2 DEF Held, Informed, Reading, Processing
<1>4. \A v \in Workers : Held(v)' /\ Informed(v)'
  BY <1>1, <1>3, OthersInformed
<1>5. \A d \in Cycles : Agree(d)'
  BY <1>1 DEF OInv, Agree
<1> QED
  BY <1>4, <1>5

LEMMA OrderlyTableSteps ==
    ASSUME OInv, ~LeaseOverrun, NEW c \in Cycles,
           \/ CloseTicket(c) \/ BecomeDue(c) \/ ExpireLease(c)
           \/ WakeUnblocked(c)
    PROVE  /\ \A v \in Workers : Held(v)' /\ Informed(v)'
           /\ \A d \in Cycles : Agree(d)'
<1>1. cycle[c] \in Row /\ cycle \in [Cycles -> Row]
  BY DEF OInv, IInv, TypeOK
<1>2. UNCHANGED <<member, verdict, linked, worker>>
  BY DEF CloseTicket, BecomeDue, ExpireLease, WakeUnblocked
<1>3. CASE CloseTicket(c)
  <2> DEFINE row == [cycle[c] EXCEPT !.status = "pending", !.due = FALSE]
  <2>1. cycle' = [cycle EXCEPT ![c] = row] /\ cycle[c].status = "open"
    BY <1>1, <1>3 DEF CloseTicket
  <2>2. row.snapshot = cycle[c].snapshot /\ row.status \in Early
    BY <1>1 DEF Row, Early
  <2>3. \A w \in Workers :
           worker[w].at \in Processing => worker[w].cycle # c
    BY <2>1 DEF OInv, Held, Recoverable
  <2> HIDE DEF row
  <2> QED
    BY <1>2, <2>1, <2>2, <2>3, AgreementKept
<1>4. CASE BecomeDue(c)
  <2> DEFINE row == [cycle[c] EXCEPT !.due = TRUE]
  <2>1. cycle' = [cycle EXCEPT ![c] = row]
    BY <1>1, <1>4 DEF BecomeDue
  <2>2. /\ row.snapshot = cycle[c].snapshot /\ row.status = cycle[c].status
        /\ row.lease = cycle[c].lease /\ row.owner = cycle[c].owner
    BY <1>1 DEF Row
  <2> HIDE DEF row
  <2> QED
    BY <1>2, <2>1, <2>2, AgreementKept
<1>5. CASE ExpireLease(c)
  <2> DEFINE row == [cycle[c] EXCEPT !.lease = "expired"]
  <2>1. cycle' = [cycle EXCEPT ![c] = row] /\ ~WorksOn(cycle[c].owner, c)
    BY <1>1, <1>5 DEF ExpireLease
  <2>2. row.snapshot = cycle[c].snapshot /\ row.status = cycle[c].status
    BY <1>1 DEF Row
  <2>3. \A w \in Workers :
           worker[w].at \in Processing => worker[w].cycle # c
    BY <2>1 DEF OInv, Held, WorksOn
  <2> HIDE DEF row
  <2> QED
    BY <1>2, <2>1, <2>2, <2>3, AgreementKept
<1>6. CASE WakeUnblocked(c)
  <2> DEFINE row == [cycle[c] EXCEPT !.status = "waiting_media", !.due = TRUE]
  <2>1. cycle' = [cycle EXCEPT ![c] = row] /\ cycle[c].status = "media_blocked"
    BY <1>1, <1>6 DEF WakeUnblocked
  <2>2. row.snapshot = cycle[c].snapshot /\ cycle[c].status \notin Early
    BY <1>1, <2>1 DEF Row, Early
  <2>3. \A w \in Workers :
           worker[w].at \in Processing => worker[w].cycle # c
    BY <2>1 DEF OInv, Held, Recoverable
  <2> HIDE DEF row
  <2> QED
    BY <1>2, <2>1, <2>2, <2>3, AgreementKept
<1> QED
  BY <1>3, <1>4, <1>5, <1>6

LEMMA OrderlyClaim ==
    ASSUME OInv, NEW w \in Workers, NEW c \in Cycles, Claim(w, c)
    PROVE  /\ \A v \in Workers : Held(v)' /\ Informed(v)'
           /\ \A d \in Cycles : Agree(d)'
<1>1. cycle[c] \in Row /\ TypeOK
  BY DEF OInv, IInv, TypeOK
<1>2. /\ cycle'[c].lease = "live" /\ cycle'[c].owner = w
      /\ cycle'[c].status = cycle[c].status
      /\ cycle'[c].snapshot = cycle[c].snapshot
      /\ \A d \in Cycles : d # c => cycle'[d] = cycle[d]
  BY <1>1 DEF Claim, TypeOK, Row
<1>3. /\ worker'[w].at = IF cycle[c].snapshot.known THEN "read" ELSE "recover"
      /\ worker'[w].cycle = c
      /\ worker'[w].snapshot = cycle[c].snapshot
      /\ \A v \in Workers : v # w => worker'[v] = worker[v]
  BY <1>1 DEF Claim, TypeOK
<1>4. /\ UNCHANGED <<member, verdict, linked>>
      /\ cycle[c].status \in Recoverable
      /\ cycle[c].lease # "live"
  BY DEF Claim, Claimable
<1>5. \A x : Members(x)' = Members(x)
  BY <1>4 DEF Members
<1>6. Held(w)'
  BY <1>2, <1>3, <1>4 DEF Held
<1>7. Informed(w)'
  BY <1>2, <1>3 DEF Informed, Reading, Processing
<1>8. \A v \in Workers : worker[v].at \in Processing =>
         worker[v].cycle \in Cycles /\ worker[v].cycle # c
  BY <1>4 DEF OInv, Held
<1>9. \A v \in Workers : Held(v)' /\ Informed(v)'
  BY <1>2, <1>3, <1>5, <1>6, <1>7, <1>8, OthersInformed
<1>10. ASSUME NEW d \in Cycles
       PROVE  Agree(d)'
  <2>1. cycle'[d].status = cycle[d].status /\ cycle'[d].snapshot = cycle[d].snapshot
    BY <1>2
  <2> QED
    BY <1>4, <1>5, <2>1 DEF OInv, Agree
<1> QED
  BY <1>9, <1>10

(* What an orderly worker knows at the step it is at.                      *)
LEMMA Knows ==
    ASSUME OInv, NEW w \in Workers, worker[w].at \in Processing
    PROVE  /\ TypeOK
           /\ worker[w].cycle \in Cycles
           /\ cycle[worker[w].cycle] \in Row
           /\ worker[w].snapshot \in IdList
           /\ Held(w) /\ Informed(w) /\ Agree(worker[w].cycle)
<1>1. worker[w].at # "idle"
  BY DEF Processing
<1>2. worker[w].cycle \in Cycles
  BY <1>1, Working DEF OInv
<1> QED
  BY <1>1, <1>2, Working DEF OInv

(* The row of c moves to a status in which its snapshot may be, and w goes *)
(* on with it or gives it back.                                            *)
LEMMA RowMoves ==
    ASSUME OInv, NEW w \in Workers, NEW S, NEW row \in Row,
           worker[w].at \in Processing,
           Transition(worker[w].cycle, S, row),
           row.snapshot.known => row.snapshot = Known(Members(worker[w].cycle)),
           cycle[worker[w].cycle].snapshot.known =>
              row.snapshot = cycle[worker[w].cycle].snapshot,
           ~row.snapshot.known => row.status \in Early,
           UNCHANGED <<member, verdict, linked>>,
           \A v \in Workers : v # w => worker'[v] = worker[v],
           Held(w)', Informed(w)'
    PROVE  /\ \A v \in Workers : Held(v)' /\ Informed(v)'
           /\ \A d \in Cycles : Agree(d)'
<1> DEFINE c == worker[w].cycle
<1>1. PICK k \in Cycles : k = c
  BY Knows
<1>2. TypeOK /\ Agree(k)
  BY <1>1, Knows
<1>3. /\ \A d \in Cycles : d # k => cycle'[d] = cycle[d]
      /\ cycle'[k] = row \/ cycle'[k] = cycle[k]
  BY <1>1, <1>2, TransitionTyped
<1>4. \A x \in Cycles : Members(x)' = Members(x)
  BY DEF Members
<1>5. verdict[k].known => verdict[k] = cycle[k].snapshot /\ cycle[k].snapshot.known
  BY <1>2 DEF Agree
<1>6. Agree(k)'
  BY <1>1, <1>2, <1>3, <1>4, <1>5 DEF Agree
<1> QED
  BY <1>1, <1>3, <1>4, <1>6, WorkerMoves

LEMMA OrderlyRowSteps ==
    ASSUME OInv, NEW w \in Workers,
           \/ StartRecovery(w) \/ BuildContext(w)
           \/ BlockOnMedia(w) \/ WaitForMedia(w)
           \/ Summarize(w) \/ Classify(w) \/ Complete(w)
           \/ RetryProvider(w) \/ RecordFailure(w)
    PROVE  /\ \A v \in Workers : Held(v)' /\ Informed(v)'
           /\ \A d \in Cycles : Agree(d)'
<1>1. worker[w].at \in Processing
  BY DEF StartRecovery, BuildContext, BlockOnMedia, WaitForMedia, Summarize,
         Classify, Advance, Complete, RetryProvider, RecordFailure, Processing
<1>2. PICK c \in Cycles : c = worker[w].cycle
  BY <1>1, Knows
<1>3. /\ TypeOK /\ cycle[c] \in Row /\ worker[w].snapshot \in IdList
      /\ Held(w) /\ Informed(w) /\ Agree(c)
  BY <1>1, <1>2, Knows
<1>4. UNCHANGED <<member, verdict, linked>>
  BY DEF StartRecovery, BuildContext, BlockOnMedia, WaitForMedia, Summarize,
         Classify, Advance, Complete, RetryProvider, RecordFailure
<1>5. ASSUME Release(w)
      PROVE  /\ \A v \in Workers : v # w => worker'[v] = worker[v]
             /\ Held(w)' /\ Informed(w)'
  BY <1>3, <1>5, ReleaseTyped DEF Held, Informed, Processing, Reading
<1>6. /\ cycle[c].lease = "live" /\ cycle[c].owner = w
      /\ cycle[c].status \in Recoverable
      /\ \A x \in Cycles : Members(x)' = Members(x)
  BY <1>1, <1>2, <1>3, <1>4 DEF Held, Members
<1>7. CASE StartRecovery(w)
  <2> DEFINE row == Moved(c, "recovering_messages")
  <2>1. /\ Transition(c, {"pending", "retryable_failure", "recovering_messages"}, row)
        /\ Goto(w, "save") /\ worker[w].at = "recover"
    BY <1>2, <1>7 DEF StartRecovery
  <2>2. ~cycle[c].snapshot.known
    BY <1>2, <1>3, <2>1 DEF Informed, Reading
  <2>3. cycle[c].status \in {"pending", "retryable_failure", "recovering_messages"}
    BY <1>3, <1>6, <2>2 DEF Agree, Early, Recoverable
  <2>4. /\ row \in Row /\ row.snapshot = cycle[c].snapshot
        /\ row.status = "recovering_messages"
        /\ row.lease = "live" /\ row.owner = w
    BY <1>3, <1>6 DEF Moved, Row, Status, Recoverable
  <2> HIDE DEF row
  <2>5. cycle'[c] = row
    BY <1>3, <2>1, <2>3, <2>4, TransitionTyped
  <2>6. "save" \in {"idle", "prepare", "admit"} \cup Processing
    BY DEF Processing
  <2>7. /\ \A v \in Workers : v # w => worker'[v] = worker[v]
        /\ worker'[w].at = "save" /\ worker'[w].cycle = c
    BY <1>2, <1>3, <2>1, <2>6, GotoTyped
  <2>8. Held(w)' /\ Informed(w)'
    BY <2>2, <2>4, <2>5, <2>7 DEF Held, Informed, Recoverable, Reading, Processing
  <2> QED
    BY <1>1, <1>2, <1>4, <2>1, <2>2, <2>4, <2>7, <2>8, RowMoves DEF Early
<1>8. CASE BuildContext(w)
  <2> DEFINE row == [Moved(c, "building_context") EXCEPT
                        !.snapshot = worker[w].snapshot]
  <2>1. /\ Transition(c, {"recovering_messages"}, row)
        /\ Goto(w, "read") /\ worker[w].at = "build"
    BY <1>2, <1>8 DEF BuildContext
  <2>2. /\ ~cycle[c].snapshot.known
        /\ cycle[c].status = "recovering_messages"
        /\ worker[w].snapshot = Known(Members(c))
    BY <1>2, <1>3, <2>1 DEF Informed, Reading
  <2>3. /\ row \in Row /\ row.snapshot = worker[w].snapshot
        /\ row.status = "building_context"
        /\ row.lease = "live" /\ row.owner = w
    BY <1>3, <1>6 DEF Moved, Row, Status, Recoverable
  <2> HIDE DEF row
  <2>4. cycle'[c] = row
    BY <1>3, <2>1, <2>2, <2>3, TransitionTyped
  <2>5. "read" \in {"idle", "prepare", "admit"} \cup Processing
    BY DEF Processing
  <2>6. /\ \A v \in Workers : v # w => worker'[v] = worker[v]
        /\ worker'[w].at = "read" /\ worker'[w].cycle = c
        /\ worker'[w].snapshot = worker[w].snapshot
    BY <1>2, <1>3, <2>1, <2>5, GotoTyped
  <2>7. row.snapshot.known
    BY <2>2, <2>3 DEF Known
  <2>8. Held(w)' /\ Informed(w)'
    BY <2>3, <2>4, <2>6, <2>7 DEF Held, Informed, Recoverable, Reading, Processing
  <2> QED
    BY <1>1, <1>2, <1>4, <2>1, <2>2, <2>3, <2>6, <2>7, <2>8, RowMoves
<1>9. ASSUME worker[w].at \notin Reading
      PROVE  /\ worker[w].snapshot = cycle[c].snapshot
             /\ cycle[c].snapshot.known
             /\ cycle[c].snapshot = Known(Members(c))
  BY <1>1, <1>2, <1>3, <1>9 DEF Informed, Agree
<1>10. ASSUME NEW S, NEW row \in Row, Transition(c, S, row), Release(w),
              row.snapshot = cycle[c].snapshot,
              cycle[c].snapshot.known \/ row.status \in Early
       PROVE  /\ \A v \in Workers : Held(v)' /\ Informed(v)'
              /\ \A d \in Cycles : Agree(d)'
  <2>1. cycle[c].snapshot.known => cycle[c].snapshot = Known(Members(c))
    BY <1>3 DEF Agree
  <2> QED
    BY <1>1, <1>2, <1>4, <1>5, <1>10, <2>1, RowMoves
<1>11. CASE BlockOnMedia(w)
  <2> DEFINE row == [Freed(c, "media_blocked", TRUE) EXCEPT
                        !.snapshot = worker[w].snapshot]
  <2>1. Transition(c, MediaPhase, row) /\ Release(w) /\ worker[w].at = "block"
    BY <1>2, <1>11 DEF BlockOnMedia
  <2>2. row \in Row /\ row.snapshot = worker[w].snapshot
    BY <1>3 DEF Freed, Row, Status
  <2> HIDE DEF row
  <2> QED
    BY <1>9, <1>10, <2>1, <2>2 DEF Reading
<1>12. CASE WaitForMedia(w)
  <2> DEFINE row == [Freed(c, "waiting_media", FALSE) EXCEPT
                        !.snapshot = worker[w].snapshot]
  <2>1. Transition(c, MediaPhase, row) /\ Release(w) /\ worker[w].at = "wait"
    BY <1>2, <1>12 DEF WaitForMedia
  <2>2. row \in Row /\ row.snapshot = worker[w].snapshot
    BY <1>3 DEF Freed, Row, Status, Recoverable
  <2> HIDE DEF row
  <2> QED
    BY <1>9, <1>10, <2>1, <2>2 DEF Reading
<1>13. ASSUME NEW from, NEW status \in {"summarizing", "classifying"},
              NEW to \in {"summarized", "insert"},
              from \cap Reading = {},
              Advance(w, from, status, to)
       PROVE  /\ \A v \in Workers : Held(v)' /\ Informed(v)'
              /\ \A d \in Cycles : Agree(d)'
  <2> DEFINE row == [Moved(c, status) EXCEPT !.snapshot = worker[w].snapshot]
  <2>1. Transition(c, Status, row) /\ Goto(w, to) /\ worker[w].at \notin Reading
    BY <1>2, <1>13 DEF Advance
  <2>2. /\ row \in Row /\ row.snapshot = worker[w].snapshot
        /\ row.status = status
        /\ row.lease = "live" /\ row.owner = w
    BY <1>3, <1>6 DEF Moved, Row, Status, Recoverable
  <2> HIDE DEF row
  <2>3. cycle'[c] = row
    <3>1. cycle[c].status \in Status
      BY <1>3 DEF Row
    <3> QED
      BY <1>3, <2>1, <2>2, <3>1, TransitionTyped
  <2>4. to \in {"idle", "prepare", "admit"} \cup Processing
        /\ to \in Processing \ Reading
    BY DEF Processing, Reading
  <2>5. /\ \A v \in Workers : v # w => worker'[v] = worker[v]
        /\ worker'[w].at = to /\ worker'[w].cycle = c
        /\ worker'[w].snapshot = worker[w].snapshot
    BY <1>2, <1>3, <2>1, <2>4, GotoTyped
  <2>6. Held(w)'
    BY <2>2, <2>3, <2>5 DEF Held, Recoverable
  <2>7. Informed(w)'
    BY <1>9, <2>1, <2>2, <2>3, <2>4, <2>5 DEF Informed, Reading
  <2> QED
    BY <1>1, <1>2, <1>4, <1>9, <2>1, <2>2, <2>5, <2>6, <2>7, RowMoves
<1>14. CASE Summarize(w)
  BY <1>13, <1>14 DEF Summarize, Reading
<1>15. CASE Classify(w)
  BY <1>13, <1>15 DEF Classify, Reading
<1>16. CASE Complete(w)
  <2> DEFINE row == [Freed(c, "completed", TRUE) EXCEPT
                        !.snapshot = worker[w].snapshot, !.classified = TRUE]
  <2>1. /\ Transition(c, {"classifying"}, row)
        /\ Goto(w, "prepare") /\ worker[w].at = "finish"
    BY <1>2, <1>16 DEF Complete
  <2>2. row \in Row /\ row.snapshot = worker[w].snapshot
    BY <1>3 DEF Freed, Row, Status, Terminal, Completed
  <2> HIDE DEF row
  <2>3. /\ \A v \in Workers : v # w => worker'[v] = worker[v]
        /\ worker'[w].at = "prepare"
    BY <1>3, <2>1, GotoTyped
  <2>4. Held(w)' /\ Informed(w)'
    BY <2>3 DEF Held, Informed, Processing, Reading
  <2> QED
    BY <1>1, <1>2, <1>4, <1>9, <2>1, <2>2, <2>3, <2>4, RowMoves DEF Reading
<1>17. CASE RetryProvider(w)
  <2> DEFINE row == Freed(c, "retryable_failure", FALSE)
  <2>1. Transition(c, Status, row) /\ Release(w)
    BY <1>2, <1>17 DEF RetryProvider
  <2>2. /\ row \in Row /\ row.snapshot = cycle[c].snapshot
        /\ row.status \in Early
    BY <1>3 DEF Freed, Row, Status, Recoverable, Early
  <2> HIDE DEF row
  <2> QED
    BY <1>10, <2>1, <2>2
<1>18. CASE RecordFailure(w)
  <2> DEFINE n == worker[w].attempts + 1
             f == [Freed(c, "failed", TRUE) EXCEPT !.attempts = n]
             r == [Freed(c, "retryable_failure", FALSE) EXCEPT !.attempts = n]
  <2>1. /\ Transition(c, Status, f) \/ Transition(c, Status, r)
        /\ Release(w)
    BY <1>2, <1>18 DEF RecordFailure
  <2> n \in Nat
    BY <1>1, <1>2, Working DEF Processing, OInv
  <2> HIDE DEF n
  <2>2. f \in Row /\ f.snapshot = cycle[c].snapshot /\ f.status \in Early
    BY <1>3 DEF Freed, Row, Status, Terminal, Early
  <2>3. r \in Row /\ r.snapshot = cycle[c].snapshot /\ r.status \in Early
    BY <1>3 DEF Freed, Row, Status, Recoverable, Early
  <2> HIDE DEF f, r
  <2>4. CASE Transition(c, Status, f)
    BY <1>10, <2>1, <2>2, <2>4
  <2>5. CASE Transition(c, Status, r)
    BY <1>10, <2>1, <2>3, <2>5
  <2> QED
    BY <2>1, <2>4, <2>5
<1> QED
  BY <1>7, <1>8, <1>11, <1>12, <1>14, <1>15, <1>16, <1>17, <1>18

(* The messages of a cycle are replaced before its snapshot is written,    *)
(* and never by a message of another cycle.                                *)
LEMMA OrderlySave ==
    ASSUME OInv, NEW w \in Workers, SaveMessages(w)
    PROVE  /\ \A v \in Workers : Held(v)' /\ Informed(v)'
           /\ \A d \in Cycles : Agree(d)'
<1>1. worker[w].at = "save" /\ worker[w].at \in Processing
  BY DEF SaveMessages, Processing
<1>2. PICK c \in Cycles : c = worker[w].cycle
  BY <1>1, Knows
<1>3. TypeOK /\ Held(w) /\ Informed(w) /\ Agree(c)
  BY <1>1, <1>2, Knows
<1>4. UNCHANGED <<cycle, verdict, linked>>
  BY DEF SaveMessages
<1>5. PICK S \in SUBSET Media :
         /\ \A m \in S : member[m] \in {c, NoCycle}
         /\ member' = [m \in Media |-> IF m \in S THEN c
                                       ELSE IF member[m] = c THEN NoCycle
                                       ELSE member[m]]
         /\ worker' = [worker EXCEPT ![w].at = "build", ![w].snapshot = Known(S)]
  <2>1. Histories[c] \subseteq SUBSET Media
    BY CycleAssumption
  <2> QED
    BY <1>2, <2>1 DEF SaveMessages
<1>6. \A d \in Cycles : d # c => Members(d)' = Members(d)
  BY <1>5, CycleAssumption DEF Members
<1>7. Members(c)' = S
  BY <1>5, CycleAssumption DEF Members
<1>8. /\ \A v \in Workers : v # w => worker'[v] = worker[v]
      /\ worker'[w].at = "build" /\ worker'[w].cycle = c
      /\ worker'[w].snapshot = Known(S)
  BY <1>2, <1>3, <1>5 DEF TypeOK, Job
<1>9. /\ ~cycle[c].snapshot.known /\ cycle[c].status = "recovering_messages"
      /\ cycle[c].lease = "live" /\ cycle[c].owner = w
  BY <1>1, <1>2, <1>3 DEF Held, Informed, Reading
<1>10. Held(w)'
  BY <1>4, <1>8, <1>9 DEF Held, Recoverable
<1>11. Informed(w)'
  <2>1. Known(Members(worker[w].cycle))' = Known(S)
    BY <1>7, <1>8 DEF Members, Known
  <2> QED
    BY <1>4, <1>8, <1>9, <2>1 DEF Informed, Reading, Processing
<1>12. Agree(c)'
  BY <1>3, <1>4, <1>9 DEF Agree, Known
<1> QED
  BY <1>1, <1>2, <1>4, <1>6, <1>8, <1>10, <1>11, <1>12, WorkerMoves

LEMMA OrderlyInsert ==
    ASSUME OInv, NEW w \in Workers, InsertClassification(w)
    PROVE  /\ \A v \in Workers : Held(v)' /\ Informed(v)'
           /\ \A d \in Cycles : Agree(d)'
<1> DEFINE ids == worker[w].snapshot.ids
<1>1. worker[w].at = "insert" /\ worker[w].at \in Processing \ Reading
  BY DEF InsertClassification, Processing, Reading
<1>2. PICK c \in Cycles : c = worker[w].cycle
  BY <1>1, Knows
<1>3. TypeOK /\ Held(w) /\ Informed(w) /\ Agree(c)
  BY <1>1, <1>2, Knows
<1>4. /\ verdict' = [verdict EXCEPT ![c] = IF @.known THEN @ ELSE Known(ids)]
      /\ linked' = [linked EXCEPT ![c] = @ \cup ids]
      /\ Goto(w, "finish")
      /\ UNCHANGED <<cycle, member>>
  BY <1>2 DEF InsertClassification
<1>5. /\ cycle[c].snapshot.known /\ cycle[c].snapshot = Known(Members(c))
      /\ worker[w].snapshot = cycle[c].snapshot
  BY <1>1, <1>2, <1>3 DEF Informed, Agree
<1>6. ids = Members(c)
  BY <1>5 DEF Known
<1> HIDE DEF ids
<1>7. /\ \A d \in Cycles : d # c => verdict'[d] = verdict[d] /\ linked'[d] = linked[d]
      /\ verdict'[c] = IF verdict[c].known THEN verdict[c] ELSE Known(ids)
      /\ linked'[c] = linked[c] \cup ids
  BY <1>3, <1>4 DEF TypeOK
<1>8. verdict'[c] = cycle[c].snapshot /\ linked'[c] = verdict'[c].ids
  <2>1. CASE verdict[c].known
    BY <1>3, <1>5, <1>6, <1>7, <2>1 DEF Agree, Known
  <2>2. CASE ~verdict[c].known
    BY <1>3, <1>5, <1>6, <1>7, <2>2 DEF Agree, Known, Unknown
  <2> QED
    BY <2>1, <2>2
<1>9. \A d \in Cycles : Members(d)' = Members(d)
  BY <1>4 DEF Members
<1>10. Agree(c)'
  BY <1>4, <1>5, <1>8, <1>9 DEF Agree
<1>11. "finish" \in {"idle", "prepare", "admit"} \cup Processing
  BY DEF Processing
<1>12. /\ \A v \in Workers : v # w => worker'[v] = worker[v]
       /\ worker'[w].at = "finish" /\ worker'[w].cycle = c
       /\ worker'[w].snapshot = worker[w].snapshot
  BY <1>2, <1>3, <1>4, <1>11, GotoTyped
<1>13. Held(w)'
  BY <1>1, <1>2, <1>3, <1>4, <1>12 DEF Held
<1>14. Informed(w)'
  BY <1>4, <1>5, <1>12 DEF Informed, Reading
<1> QED
  BY <1>1, <1>2, <1>4, <1>7, <1>9, <1>10, <1>12, <1>13, <1>14, WorkerMoves

LEMMA OrderlyReadSteps ==
    ASSUME OInv, NEW w \in Workers,
           \/ ReadMedia(w) \/ (\E m \in Media : ReserveMedia(w, m))
           \/ InspectMedia(w) \/ PrepareRequest(w) \/ AdmitRequest(w)
           \/ Crash(w)
    PROVE  /\ \A v \in Workers : Held(v)' /\ Informed(v)'
           /\ \A d \in Cycles : Agree(d)'
<1>1. TypeOK
  BY DEF OInv, IInv
<1>2. UNCHANGED <<cycle, member, verdict, linked>>
  BY DEF ReadMedia, ReserveMedia, InspectMedia, PrepareRequest, AdmitRequest,
         Crash, rows
<1>3. ASSUME NEW step \in {"block", "wait", "summarize", "classify"},
             Goto(w, step), worker[w].at = "reserve"
      PROVE  /\ \A v \in Workers : Held(v)' /\ Informed(v)'
             /\ \A d \in Cycles : Agree(d)'
  <2>1. /\ step \in {"idle", "prepare", "admit"} \cup Processing
        /\ step \in Processing \ Reading
        /\ worker[w].at \in Processing \ Reading
    BY <1>3 DEF Processing, Reading
  <2>2. /\ \A v \in Workers : v # w => worker'[v] = worker[v]
        /\ worker'[w].at = step
        /\ worker'[w].cycle = worker[w].cycle
        /\ worker'[w].snapshot = worker[w].snapshot
    BY <1>1, <1>3, <2>1, GotoTyped
  <2> QED
    BY <1>2, <2>1, <2>2, WorkerGoesOn
<1>4. ASSUME Release(w)
      PROVE  /\ \A v \in Workers : Held(v)' /\ Informed(v)'
             /\ \A d \in Cycles : Agree(d)'
  <2>1. /\ \A v \in Workers : v # w => worker'[v] = worker[v]
        /\ worker'[w].at \notin Processing
    BY <1>1, <1>4, ReleaseTyped DEF Processing
  <2> QED
    BY <1>2, <2>1, WorkerGoesOn
<1>5. ASSUME ReadMedia(w) \/ (\E m \in Media : ReserveMedia(w, m))
      PROVE  /\ \A v \in Workers : Held(v)' /\ Informed(v)'
             /\ \A d \in Cycles : Agree(d)'
  <2>1. /\ \A v \in Workers : v # w => worker'[v] = worker[v]
        /\ worker'[w].at = "reserve" /\ worker[w].at \in {"read", "reserve"}
        /\ worker'[w].cycle = worker[w].cycle
        /\ worker'[w].snapshot = worker[w].snapshot
    BY <1>1, <1>5 DEF ReadMedia, ReserveMedia, TypeOK, Job
  <2> QED
    BY <1>2, <2>1, WorkerGoesOn DEF Processing, Reading
<1>6. CASE InspectMedia(w)
  BY <1>3, <1>6 DEF InspectMedia
<1>7. CASE PrepareRequest(w)
  <2>1. CASE Goto(w, "admit")
    <3>1. /\ \A v \in Workers : v # w => worker'[v] = worker[v]
          /\ worker'[w].at \notin Processing
      BY <1>1, <2>1, GotoTyped DEF Processing
    <3> QED
      BY <1>2, <3>1, WorkerGoesOn
  <2> QED
    BY <1>4, <1>7, <2>1 DEF PrepareRequest
<1> QED
  BY <1>4, <1>5, <1>6, <1>7 DEF AdmitRequest, Crash

LEMMA OrderlyInductive ==
    ASSUME ~LeaseOverrun
    PROVE  Spec => []OInv
<1>1. Init => OInv
  <2> SUFFICES ASSUME Init
               PROVE  (\A w \in Workers : Held(w) /\ Informed(w))
                      /\ (\A c \in Cycles : Agree(c))
    BY Initial DEF OInv
  <2>1. \A w \in Workers : Held(w) /\ Informed(w)
    BY DEF Init, Held, Informed, Idle, Processing, Reading
  <2>2. \A c \in Cycles : Agree(c)
    BY DEF Init, Agree, OpenRow, Unknown, Early
  <2> QED
    BY <2>1, <2>2
<1>2. OInv /\ [Next]_vars => OInv'
  <2> SUFFICES ASSUME OInv, [Next]_vars
               PROVE  (\A w \in Workers : Held(w)' /\ Informed(w)')
                      /\ (\A c \in Cycles : Agree(c)')
    BY Preserved DEF OInv
  <2>1. CASE UNCHANGED <<rows, worker>>
    <3>1. UNCHANGED <<cycle, member, verdict, linked, worker>>
      BY <2>1 DEF rows
    <3>2. \A w \in Workers : Held(w)'
      BY <3>1 DEF OInv, Held
    <3>3. \A c \in Cycles : Members(c)' = Members(c)
      BY <3>1 DEF Members
    <3>4. ASSUME NEW w \in Workers PROVE Informed(w)'
      <4>1. Members(worker[w].cycle)' = Members(worker[w].cycle)
        BY <3>1 DEF Members
      <4> QED
        BY <3>1, <4>1 DEF OInv, Informed
    <3>5. ASSUME NEW c \in Cycles PROVE Agree(c)'
      BY <3>1, <3>3 DEF OInv, Agree
    <3> QED
      BY <3>2, <3>4, <3>5
  <2>2. ASSUME NEW c \in Cycles,
               \/ CloseTicket(c) \/ BecomeDue(c) \/ ExpireLease(c)
               \/ WakeUnblocked(c) \/ (\E w \in Workers : Claim(w, c))
        PROVE  (\A w \in Workers : Held(w)' /\ Informed(w)')
               /\ (\A d \in Cycles : Agree(d)')
    BY <2>2, OrderlyTableSteps, OrderlyClaim
  <2>3. ASSUME NEW w \in Workers,
               \/ Progress(w) \/ RetryProvider(w) \/ RecordFailure(w)
               \/ Crash(w)
        PROVE  (\A v \in Workers : Held(v)' /\ Informed(v)')
               /\ (\A d \in Cycles : Agree(d)')
    BY <2>3, OrderlyRowSteps, OrderlySave, OrderlyInsert, OrderlyReadSteps
    DEF Progress
  <2>4. ASSUME NEW m \in Media,
               \/ StartExtraction(m) \/ RetryExtraction(m)
               \/ EndExtraction(m) \/ DeliverMessage(m)
        PROVE  UNCHANGED <<rows, worker>>
    BY <2>4 DEF StartExtraction, RetryExtraction, EndExtraction, DeliverMessage
  <2> QED
    BY <2>1, <2>2, <2>3, <2>4 DEF Next, vars
<1> QED
  BY <1>1, <1>2, PTL DEF Spec

(* OneWorkerPerCycle: while leases are respected, the worker that          *)
(* processes a cycle holds its live lease, so there is no second one.      *)
THEOREM OneWorker ==
    ASSUME ~LeaseOverrun
    PROVE  Spec => []OneWorkerPerCycle
<1>1. OInv => OneWorkerPerCycle
  BY DEF OInv, Held, OneWorkerPerCycle, WorksOn
<1> QED
  BY <1>1, OrderlyInductive, PTL

(* EvidenceAgrees: while leases are respected, the snapshot of a completed *)
(* cycle, its messages, and the ids and the links of its classification    *)
(* are the same.                                                           *)
THEOREM EvidenceIsOne ==
    ASSUME ~LeaseOverrun
    PROVE  Spec => []EvidenceAgrees
<1>1. OInv => EvidenceAgrees
  <2> SUFFICES ASSUME OInv, NEW c \in Cycles, cycle[c].status \in Completed
               PROVE  /\ cycle[c].snapshot = verdict[c]
                      /\ linked[c] = verdict[c].ids
                      /\ Members(c) = verdict[c].ids
    BY DEF EvidenceAgrees, Members
  <2>1. verdict[c].known /\ Agree(c)
    BY DEF OInv, IInv, CompletedHasVerdict
  <2>2. cycle[c].snapshot = verdict[c] /\ verdict[c] = Known(Members(c))
    BY <2>1 DEF Agree
  <2> QED
    BY <2>1, <2>2 DEF Agree, Known
<1> QED
  BY <1>1, OrderlyInductive, PTL

(* MessageClassifiedOnce: while leases are respected, no message is        *)
(* evidence of the classifications of two cycles.                          *)
THEOREM ClassifiedOnce ==
    ASSUME ~LeaseOverrun
    PROVE  Spec => []MessageClassifiedOnce
<1>1. OInv => MessageClassifiedOnce
  <2>1. ASSUME OInv, NEW c \in Cycles
        PROVE  verdict[c].ids \subseteq Members(c)
    <3>1. Agree(c)
      BY <2>1 DEF OInv
    <3>2. CASE verdict[c].known
      BY <3>1, <3>2 DEF Agree, Known
    <3>3. CASE ~verdict[c].known
      BY <3>1, <3>3 DEF Agree, Unknown
    <3> QED
      BY <3>2, <3>3
  <2>2. \A c, d \in Cycles : c # d => Members(c) \cap Members(d) = {}
    BY DEF Members
  <2> QED
    BY <2>1, <2>2 DEF MessageClassifiedOnce
<1> QED
  BY <1>1, OrderlyInductive, PTL

(* While leases are respected, no step leaves a terminal state.            *)
LEMMA TerminalKept ==
    ASSUME OInv, Next, NEW c \in Cycles, cycle[c].status \in Terminal
    PROVE  cycle'[c].status = cycle[c].status
<1>1. /\ cycle \in [Cycles -> Row] /\ cycle[c] \in Row
      /\ cycle[c].status \notin Recoverable
      /\ cycle[c].status \notin {"open", "media_blocked"}
  BY DEF OInv, IInv, TypeOK, Terminal, Completed, Recoverable
<1>2. ASSUME NEW d \in Cycles,
             \/ CloseTicket(d) \/ BecomeDue(d) \/ ExpireLease(d)
             \/ WakeUnblocked(d) \/ (\E w \in Workers : Claim(w, d))
      PROVE  cycle'[c].status = cycle[c].status
  <2>1. CASE c = d
    <3>1. CASE BecomeDue(d)
      BY <1>1, <2>1, <3>1 DEF BecomeDue, Row
    <3>2. CASE ExpireLease(d)
      BY <1>1, <2>1, <3>2 DEF ExpireLease, Row
    <3>3. ASSUME NEW w \in Workers, Claim(w, d)
          PROVE  cycle'[c].status = cycle[c].status
      BY <1>1, <2>1, <3>3 DEF Claim, Row
    <3> QED
      BY <1>1, <1>2, <2>1, <3>1, <3>2, <3>3 DEF CloseTicket, WakeUnblocked
  <2>2. CASE c # d
    BY <1>1, <1>2, <2>2
    DEF CloseTicket, BecomeDue, ExpireLease, WakeUnblocked, Claim
  <2> QED
    BY <2>1, <2>2
<1>3. ASSUME NEW w \in Workers, worker[w].at \in Processing,
             \E S, row : Transition(worker[w].cycle, S, row)
      PROVE  cycle'[c].status = cycle[c].status
  <2>1. worker[w].cycle \in Cycles /\ worker[w].cycle # c
    BY <1>1, <1>3 DEF OInv, Held
  <2> QED
    BY <1>1, <1>3, <2>1 DEF Transition
<1>4. ASSUME NEW w \in Workers,
             \/ StartRecovery(w) \/ BuildContext(w)
             \/ BlockOnMedia(w) \/ WaitForMedia(w)
             \/ Summarize(w) \/ Classify(w) \/ Complete(w)
             \/ RetryProvider(w) \/ RecordFailure(w)
      PROVE  cycle'[c].status = cycle[c].status
  <2>1. worker[w].at \in Processing
    BY <1>4
    DEF StartRecovery, BuildContext, BlockOnMedia, WaitForMedia, Summarize,
        Classify, Advance, Complete, RetryProvider, RecordFailure, Processing
  <2>2. \E S, row : Transition(worker[w].cycle, S, row)
    BY <1>4, Zenon
    DEF StartRecovery, BuildContext, BlockOnMedia, WaitForMedia, Summarize,
        Classify, Advance, Complete, RetryProvider, RecordFailure
  <2> QED
    BY <1>3, <2>1, <2>2
<1>5. ASSUME NEW w \in Workers,
             Progress(w) \/ RetryProvider(w) \/ RecordFailure(w) \/ Crash(w)
      PROVE  cycle'[c].status = cycle[c].status
  <2>1. CASE UNCHANGED cycle
    BY <2>1
  <2> QED
    BY <1>4, <1>5, <2>1
    DEF Progress, SaveMessages, ReadMedia, ReserveMedia, InspectMedia,
        InsertClassification, PrepareRequest, AdmitRequest, Crash, rows
<1>6. ASSUME NEW m \in Media,
             \/ StartExtraction(m) \/ RetryExtraction(m)
             \/ EndExtraction(m) \/ DeliverMessage(m)
      PROVE  cycle'[c].status = cycle[c].status
  BY <1>6 DEF StartExtraction, RetryExtraction, EndExtraction,
              DeliverMessage, rows
<1> QED
  BY <1>2, <1>5, <1>6 DEF Next

(* TerminalIsFinal: while leases are respected, no worker writes a cycle   *)
(* that was completed or has failed.                                       *)
THEOREM TerminalStays ==
    ASSUME ~LeaseOverrun
    PROVE  Spec => TerminalIsFinal
<1>1. OInv /\ [Next]_vars =>
         [\A c \in Cycles : cycle[c].status \in Terminal =>
             cycle'[c].status = cycle[c].status]_vars
  BY TerminalKept DEF vars
<1> QED
  BY <1>1, OrderlyInductive, PTL DEF Spec, TerminalIsFinal

(* What a worker about to admit a Request saw of its cycle still holds, so *)
(* no Request is refused.                                                  *)
Eligible ==
    /\ \A w \in Workers : worker[w].at = "admit" =>
          cycle[worker[w].cycle].status \in Completed
    /\ \A c \in Cycles : request[c] # "refused"

(* Where a worker is after a step, if it is about to admit a Request.      *)
LEMMA AdmitsNext ==
    ASSUME OInv, Next, NEW v \in Workers, worker'[v].at = "admit"
    PROVE  \/ worker'[v] = worker[v]
           \/ /\ worker'[v].cycle = worker[v].cycle
              /\ worker[v].at = "prepare"
              /\ cycle[worker[v].cycle].status \in Completed
<1>1. TypeOK
  BY DEF OInv, IInv
<1>2. CASE UNCHANGED worker
  BY <1>2
<1>3. ASSUME NEW w \in Workers, NEW c \in Cycles, Claim(w, c)
      PROVE  worker'[v] = worker[v]
  <2>1. worker'[w].at # "admit"
    BY <1>1, <1>3 DEF Claim, TypeOK
  <2> QED
    BY <1>1, <1>3, <2>1 DEF Claim, TypeOK
<1>4. ASSUME NEW w \in Workers, NEW step, step # "admit", Goto(w, step)
      PROVE  worker'[v] = worker[v]
  BY <1>1, <1>4 DEF Goto, TypeOK, Job
<1>5. ASSUME NEW w \in Workers, Release(w)
      PROVE  worker'[v] = worker[v]
  BY <1>1, <1>5 DEF Release, TypeOK, Idle
<1>6. ASSUME NEW w \in Workers, PrepareRequest(w)
      PROVE  \/ worker'[v] = worker[v]
             \/ /\ worker'[v].cycle = worker[v].cycle
                /\ worker[v].at = "prepare"
                /\ cycle[worker[v].cycle].status \in Completed
  BY <1>1, <1>5, <1>6 DEF PrepareRequest, Goto, TypeOK, Job
<1>7. ASSUME NEW w \in Workers,
             SaveMessages(w) \/ ReadMedia(w) \/ (\E m \in Media : ReserveMedia(w, m))
      PROVE  worker'[v] = worker[v]
  BY <1>1, <1>7 DEF SaveMessages, ReadMedia, ReserveMedia, TypeOK, Job
<1>8. ASSUME NEW w \in Workers,
             \/ StartRecovery(w) \/ BuildContext(w) \/ InspectMedia(w)
             \/ Summarize(w) \/ Classify(w) \/ InsertClassification(w)
             \/ Complete(w)
      PROVE  worker'[v] = worker[v]
  BY <1>4, <1>8
  DEF StartRecovery, BuildContext, InspectMedia, Summarize, Classify, Advance,
      InsertClassification, Complete
<1>9. ASSUME NEW w \in Workers,
             \/ BlockOnMedia(w) \/ WaitForMedia(w) \/ AdmitRequest(w)
             \/ RetryProvider(w) \/ RecordFailure(w) \/ Crash(w)
      PROVE  worker'[v] = worker[v]
  BY <1>5, <1>9
  DEF BlockOnMedia, WaitForMedia, AdmitRequest, RetryProvider, RecordFailure,
      Crash
<1> QED
  BY <1>2, <1>3, <1>6, <1>7, <1>8, <1>9
  DEF Next, Progress, CloseTicket, BecomeDue, ExpireLease, WakeUnblocked,
      StartExtraction, RetryExtraction, EndExtraction, DeliverMessage

LEMMA EligibleKept ==
    ASSUME OInv, Next, Eligible
    PROVE  Eligible'
<1>1. /\ \A w \in Workers : worker[w].at # "idle" => worker[w].cycle \in Cycles
      /\ request \in [Cycles -> {"none", "admitted", "refused"}]
  BY DEF OInv, IInv, AllCarry, Carries, TypeOK
<1>2. ASSUME NEW v \in Workers, worker'[v].at = "admit"
      PROVE  cycle'[worker'[v].cycle].status \in Completed
  <2>1. /\ worker'[v].cycle = worker[v].cycle /\ worker[v].at # "idle"
        /\ cycle[worker[v].cycle].status \in Completed
    BY <1>2, AdmitsNext DEF Eligible
  <2>2. cycle'[worker[v].cycle].status = cycle[worker[v].cycle].status
    BY <1>1, <2>1, TerminalKept DEF Terminal
  <2> QED
    BY <2>1, <2>2
<1>3. ASSUME NEW c \in Cycles PROVE request'[c] # "refused"
  <2>1. CASE UNCHANGED request
    BY <2>1 DEF Eligible
  <2>2. ASSUME NEW w \in Workers, AdmitRequest(w)
        PROVE  request'[c] # "refused"
    <3>1. cycle[worker[w].cycle].status \in Completed
      BY <2>2 DEF Eligible, AdmitRequest
    <3>2. cycle[worker[w].cycle].classified
      BY <1>1, <2>2, <3>1 DEF OInv, IInv, CompletedHasVerdict, AdmitRequest
    <3> QED
      BY <1>1, <2>2, <3>1, <3>2 DEF Eligible, AdmitRequest
  <2> QED
    BY <2>1, <2>2
    DEF Next, CloseTicket, BecomeDue, ExpireLease, WakeUnblocked, Claim,
        Progress, StartRecovery, SaveMessages, BuildContext, ReadMedia,
        ReserveMedia, InspectMedia, BlockOnMedia, WaitForMedia, Summarize,
        Classify, Advance, InsertClassification, Complete, PrepareRequest,
        RetryProvider, RecordFailure, Crash, StartExtraction,
        RetryExtraction, EndExtraction, DeliverMessage, rows
<1> QED
  BY <1>2, <1>3 DEF Eligible

(* CompletedIsEligible: while leases are respected, a completed cycle does *)
(* not change between the reads of its preparation and of its operation,   *)
(* so its Request is never refused for the state of the cycle.             *)
THEOREM CompletedAdmitted ==
    ASSUME ~LeaseOverrun
    PROVE  Spec => []CompletedIsEligible
<1>1. Init => Eligible
  BY DEF Init, Eligible, Idle
<1>2. OInv /\ Eligible /\ [Next]_vars => Eligible'
  <2>1. ASSUME Eligible, UNCHANGED vars PROVE Eligible'
    BY <2>1 DEF Eligible, vars, rows
  <2> QED
    BY <2>1, EligibleKept
<1>3. Eligible => CompletedIsEligible
  BY DEF Eligible, CompletedIsEligible
<1> QED
  BY <1>1, <1>2, <1>3, OrderlyInductive, PTL DEF Spec
=============================================================================
