--------------------------- MODULE RequestProofs ---------------------------
(***************************************************************************)
(* At most one Request per cycle, for any number of operations, callers,   *)
(* commands of the operator and faults.                                    *)
(*                                                                         *)
(* The argument.  A POST starts only under a live right to it, from a row  *)
(* that has left no Request behind, and only after post_started_at was     *)
(* stored.  From then on the row can leave "attempting" without an answer  *)
(* in one way, to reconciliation_required, and from there only by a proof  *)
(* about the provider.  RowFits says what a row's state promises about the *)
(* provider, JobFits what a caller may still rely on although others may   *)
(* have taken its claim away.                                              *)
(***************************************************************************)
EXTENDS RequestOperation, TLAPS

(* The claim of k on a row in progress: Holds, of a row given as argument. *)
Mine(k, row) == row.state = "attempting" /\ row.owner = k

NoRequest == {"absent", "not_started", "retryable_failure",
              "definitive_failure"}

(* What a row says about the number n of Requests at the provider.         *)
RowFits(row, n) ==
    /\ n <= 1
    /\ row.state \in NoRequest => n = 0
    /\ ~row.posted => n = 0
    /\ IF row.state = "completed" THEN row.sol \in 1..n ELSE row.sol = 0

(* A POST on its way: the row still shows that it was started.             *)
InPost(k, row, n) ==
    /\ n = 0
    /\ row.posted
    /\ Mine(k, row) \/ row.state = "reconciliation_required"

(* An answer on its way to the row.                                        *)
AnswerFits(answer, n) ==
    /\ answer.state \in {"completed", "reconciliation_required",
                         "retryable_failure", "definitive_failure"}
    /\ IF answer.state = "completed" THEN answer.sol \in 1..n
                                     ELSE answer.sol = 0

(* What caller k, with progress j, may rely on about its row.              *)
JobFits(k, j, row, n) ==
    /\ j.at = "post" => InPost(k, row, n)
    /\ j.at \in {"load", "check", "block", "mark"} /\ Mine(k, row) => n = 0
    /\ j.at = "finish" =>
          /\ AnswerFits(j.answer, n)
          /\ Mine(k, row) /\ j.answer.state \in NoRequest => n = 0

EveryRowFits == \A o \in Operations : RowFits(op[o], remote[o])

EveryJobFits ==
    \A k \in Callers : caller[k].at # "idle" =>
        /\ caller[k].op \in Operations
        /\ JobFits(k, caller[k], op[caller[k].op], remote[caller[k].op])

(* The inductive invariant.                                                *)
IInv ==
    /\ TypeOK
    /\ EveryRowFits
    /\ EveryJobFits
    /\ OnePostAtATime
-----------------------------------------------------------------------------
(* The bookkeeping that no theorem depends on keeps its type.              *)
RestTyped ==
    /\ audit \in [Keys -> Operations \cup {NoOp}]
    /\ mapped \in [Operations -> BOOLEAN]
    /\ confident \in [Operations -> BOOLEAN]
    /\ faults \in 0..MaxFaults

(* A caller keeps what it relies on when another one writes its row, as    *)
(* long as it gains no claim and its POST stays visible in the row.        *)
LEMMA Bystander ==
    ASSUME NEW i, NEW j, NEW row, NEW n \in Nat, NEW row2, NEW n2 \in Nat,
           JobFits(i, j, row, n), n <= n2,
           Mine(i, row2) => Mine(i, row) /\ n2 = n,
           j.at = "post" => InPost(i, row2, n2)
    PROVE  JobFits(i, j, row2, n2)
<1>1. AnswerFits(j.answer, n) => AnswerFits(j.answer, n2)
  BY DEF AnswerFits
<1> QED
  BY <1>1 DEF JobFits

(* A step that writes one row and possibly callers that work on it.        *)
LEMMA StepKeepsIInv ==
    ASSUME IInv, RestTyped', OnePostAtATime',
           NEW o \in Operations, NEW row \in Row, NEW n \in Nat,
           op' = [op EXCEPT ![o] = row],
           remote' = [remote EXCEPT ![o] = n],
           caller' \in [Callers -> Job],
           RowFits(row, n),
           \A i \in Callers : \/ caller'[i] = caller[i]
                              \/ caller'[i].at = "idle"
                              \/ caller'[i].op = o,
           \A i \in Callers :
               caller'[i].at # "idle" /\ caller'[i].op = o
                   => JobFits(i, caller'[i], row, n)
    PROVE  IInv'
<1>1. /\ op' \in [Operations -> Row] /\ remote' \in [Operations -> Nat]
      /\ op'[o] = row /\ remote'[o] = n
      /\ \A p \in Operations \ {o} : op'[p] = op[p] /\ remote'[p] = remote[p]
  BY DEF IInv, TypeOK
<1>2. TypeOK'
  BY <1>1 DEF TypeOK, RestTyped
<1>3. EveryRowFits'
  <2> SUFFICES ASSUME NEW p \in Operations
               PROVE  RowFits(op'[p], remote'[p])
    BY DEF EveryRowFits
  <2> QED
    BY <1>1 DEF IInv, EveryRowFits
<1>4. EveryJobFits'
  <2> SUFFICES ASSUME NEW i \in Callers, caller'[i].at # "idle"
               PROVE  /\ caller'[i].op \in Operations
                      /\ JobFits(i, caller'[i], op'[caller'[i].op],
                                 remote'[caller'[i].op])
    BY DEF EveryJobFits
  <2>1. CASE caller'[i].op = o
    BY <1>1, <2>1
  <2>2. CASE caller'[i].op # o
    <3>1. caller'[i] = caller[i]
      BY <2>2
    <3>2. /\ caller[i].op \in Operations
          /\ JobFits(i, caller[i], op[caller[i].op], remote[caller[i].op])
      BY <3>1 DEF IInv, EveryJobFits
    <3> QED
      BY <1>1, <2>2, <3>1, <3>2
  <2> QED
    BY <2>1, <2>2
<1> QED
  BY <1>2, <1>3, <1>4 DEF IInv

(* Caller k becomes j and writes row o, which then has n Requests.         *)
CallerWrites(k, o, row, n, j) ==
    /\ op' = [op EXCEPT ![o] = row]
    /\ remote' = [remote EXCEPT ![o] = n]
    /\ caller' = [caller EXCEPT ![k] = j]

(* A step of caller k on its row; the others are bystanders.               *)
LEMMA CallerKeepsIInv ==
    ASSUME IInv, RestTyped',
           NEW k \in Callers, NEW o \in Operations,
           NEW row \in Row, NEW n \in Nat, NEW j \in Job,
           CallerWrites(k, o, row, n, j),
           RowFits(row, n),
           j.at # "idle" => j.op = o /\ JobFits(k, j, row, n),
           remote[o] <= n,
           \A i \in Callers \ {k} : Mine(i, row) => Mine(i, op[o]) /\ n = remote[o],
           \A i \in Callers \ {k} :
               /\ caller[i].at = "post" /\ caller[i].op = o
               /\ InPost(i, op[o], remote[o])
               => j.at # "post" /\ InPost(i, row, n)
    PROVE  IInv'
<1>0. /\ op' = [op EXCEPT ![o] = row]
      /\ remote' = [remote EXCEPT ![o] = n]
      /\ caller' = [caller EXCEPT ![k] = j]
  BY DEF CallerWrites
<1>1. /\ caller' \in [Callers -> Job] /\ caller'[k] = j
      /\ \A i \in Callers \ {k} : caller'[i] = caller[i]
      /\ remote[o] \in Nat
  BY <1>0 DEF IInv, TypeOK
<1>2. \A i \in Callers : caller'[i].at # "idle" /\ caller'[i].op = o
                             => JobFits(i, caller'[i], row, n)
  <2> SUFFICES ASSUME NEW i \in Callers \ {k},
                      caller[i].at # "idle", caller[i].op = o
               PROVE  JobFits(i, caller[i], row, n)
    BY <1>1
  <2>1. JobFits(i, caller[i], op[o], remote[o])
    BY DEF IInv, EveryJobFits
  <2>2. caller[i].at = "post" => InPost(i, row, n)
    BY <2>1 DEF JobFits
  <2> QED
    BY <1>1, <2>1, <2>2, Bystander
<1>3. OnePostAtATime'
  <2> SUFFICES ASSUME NEW h \in Callers, NEW i \in Callers, h # i,
                      caller'[h].at = "post", caller'[i].at = "post",
                      caller'[h].op = caller'[i].op
               PROVE  FALSE
    BY DEF OnePostAtATime
  <2>1. CASE h # k /\ i # k
    BY <1>1, <2>1 DEF IInv, OnePostAtATime
  <2>2. ASSUME NEW g \in Callers \ {k}, caller[g].at = "post", caller[g].op = o,
               j.at = "post"
        PROVE  FALSE
    <3>1. JobFits(g, caller[g], op[o], remote[o])
      BY <2>2 DEF IInv, EveryJobFits
    <3> QED
      BY <2>2, <3>1 DEF JobFits
  <2>3. CASE h = k
    BY <1>1, <2>2, <2>3
  <2>4. CASE i = k
    BY <1>1, <2>2, <2>4
  <2> QED
    BY <2>1, <2>3, <2>4
<1>4. \A i \in Callers : \/ caller'[i] = caller[i] \/ caller'[i].at = "idle"
                         \/ caller'[i].op = o
  BY <1>1
<1> QED
  BY <1>0, <1>1, <1>2, <1>3, <1>4, StepKeepsIInv

(* A step of the operator or of time on a row, with no caller moving.      *)
LEMMA RowKeepsIInv ==
    ASSUME IInv, RestTyped',
           NEW o \in Operations, NEW row \in Row,
           op' = [op EXCEPT ![o] = row],
           UNCHANGED <<remote, caller>>,
           RowFits(row, remote[o]),
           \A i \in Callers : Mine(i, row) => Mine(i, op[o]),
           \A i \in Callers :
               /\ caller[i].at = "post" /\ caller[i].op = o
               /\ InPost(i, op[o], remote[o])
               => InPost(i, row, remote[o])
    PROVE  IInv'
<1>1. /\ remote' = [remote EXCEPT ![o] = remote[o]]
      /\ remote[o] \in Nat /\ caller' \in [Callers -> Job]
  BY DEF IInv, TypeOK
<1>2. \A i \in Callers : caller'[i].at # "idle" /\ caller'[i].op = o
                             => JobFits(i, caller'[i], row, remote[o])
  <2> SUFFICES ASSUME NEW i \in Callers, caller[i].at # "idle", caller[i].op = o
               PROVE  JobFits(i, caller[i], row, remote[o])
    OBVIOUS
  <2>1. JobFits(i, caller[i], op[o], remote[o])
    BY DEF IInv, EveryJobFits
  <2>2. caller[i].at = "post" => InPost(i, row, remote[o])
    BY <2>1 DEF JobFits
  <2> QED
    BY <1>1, <2>1, <2>2, Bystander
<1>3. OnePostAtATime'
  BY DEF IInv, OnePostAtATime
<1>4. \A i \in Callers : caller'[i] = caller[i]
  OBVIOUS
<1> QED
  BY <1>1, <1>2, <1>3, <1>4, StepKeepsIInv

(* What holds at any step of caller k that has work.                       *)
LEMMA WorkFacts ==
    ASSUME IInv, NEW k \in Callers, caller[k].at # "idle"
    PROVE  /\ caller[k] \in Job
           /\ caller[k].op \in Operations
           /\ op[caller[k].op] \in Row
           /\ remote[caller[k].op] \in Nat
           /\ RowFits(op[caller[k].op], remote[caller[k].op])
           /\ JobFits(k, caller[k], op[caller[k].op], remote[caller[k].op])
  BY DEF IInv, TypeOK, EveryRowFits, EveryJobFits

(* A transaction of caller k on its row, while nothing else moves.         *)
LEMMA TransactionKeepsIInv ==
    ASSUME IInv, UNCHANGED <<world, faults>>,
           NEW k \in Callers, NEW o \in Operations,
           NEW row \in Row, NEW j \in Job,
           Put(o, row),
           caller' = [caller EXCEPT ![k] = j],
           RowFits(row, remote[o]),
           j.at # "idle" => j.op = o /\ JobFits(k, j, row, remote[o]),
           \A i \in Callers \ {k} : Mine(i, row) => Mine(i, op[o]),
           \A i \in Callers \ {k} : InPost(i, op[o], remote[o])
               => j.at # "post" /\ InPost(i, row, remote[o])
    PROVE  IInv'
<1>1. RestTyped'
  BY DEF IInv, TypeOK, RestTyped, world
<1>2. /\ remote[o] \in Nat /\ remote[o] <= remote[o]
      /\ CallerWrites(k, o, row, remote[o], j)
  BY DEF IInv, TypeOK, world, Put, CallerWrites
<1> QED
  BY <1>1, <1>2, CallerKeepsIInv

(* A caller that only moves to a step that relies on no more than before.  *)
LEMMA MoveKeepsIInv ==
    ASSUME IInv, UNCHANGED <<op, world, faults>>,
           NEW k \in Callers, caller[k].at # "idle", NEW j \in Job,
           caller' = [caller EXCEPT ![k] = j],
           j.at \notin {"idle", "post"},
           j.op = caller[k].op,
           JobFits(k, j, op[j.op], remote[j.op])
    PROVE  IInv'
<1>1. /\ j.op \in Operations /\ op[j.op] \in Row
      /\ RowFits(op[j.op], remote[j.op])
  BY WorkFacts
<1>2. Put(j.op, op[j.op])
  BY <1>1 DEF Put, IInv, TypeOK
<1> QED
  BY <1>1, <1>2, TransactionKeepsIInv

LEMMA IdleIsJob ==
    ASSUME RequestAssumption
    PROVE  Idle \in Job /\ Idle.at = "idle"
  BY DEF Idle, Job, Answer, NoAnswer, Steps, State
-----------------------------------------------------------------------------
(* The initial states.                                                     *)
LEMMA InitIInv == Init => IInv
<1> SUFFICES ASSUME Init PROVE IInv
  OBVIOUS
<1>1. /\ AbsentRow \in Row /\ AbsentRow.state = "absent" /\ AbsentRow.sol = 0
  BY DEF AbsentRow, Row, State
<1>2. Idle \in Job /\ Idle.at = "idle"
  BY RequestAssumption, IdleIsJob
<1>3. 0 \in 0..MaxFaults
  BY RequestAssumption DEF RequestAssumption
<1>4. TypeOK
  BY <1>1, <1>2, <1>3 DEF Init, TypeOK
<1>5. EveryRowFits
  BY <1>1 DEF Init, EveryRowFits, RowFits, NoRequest
<1>6. EveryJobFits /\ OnePostAtATime
  BY <1>2 DEF Init, EveryJobFits, OnePostAtATime
<1> QED
  BY <1>4, <1>5, <1>6 DEF IInv

LEMMA CallKeeps ==
    ASSUME IInv, NEW k \in Callers, NEW o \in Operations, Call(k, o)
    PROVE  IInv'
<1> DEFINE j == [caller[k] EXCEPT !.at = "ensure", !.op = o]
<1>1. caller' = [caller EXCEPT ![k] = j] /\ j \in Job /\ j.at = "ensure"
      /\ j.op = o
  BY DEF Call, IInv, TypeOK, Job, Steps
<1>2. op[o] \in Row /\ RowFits(op[o], remote[o]) /\ Put(o, op[o])
  BY DEF Call, IInv, TypeOK, EveryRowFits, Put
<1>3. JobFits(k, j, op[o], remote[o])
  BY <1>1 DEF JobFits
<1> HIDE DEF j
<1> QED
  BY <1>1, <1>2, <1>3, TransactionKeepsIInv DEF Call

LEMMA EnsureKeeps ==
    ASSUME IInv, NEW k \in Callers, Ensure(k)
    PROVE  IInv'
<1> DEFINE o == caller[k].op
           row == IF op[o].state = "absent" THEN Created(o) ELSE op[o]
           j == IF row.state \in {"not_started", "retryable_failure"}
                THEN [caller[k] EXCEPT !.at = "claim"] ELSE Idle
<1>0. caller[k].at = "ensure"
  BY DEF Ensure
<1>1. /\ caller[k] \in Job /\ o \in Operations /\ op[o] \in Row
      /\ remote[o] \in Nat /\ RowFits(op[o], remote[o])
  BY <1>0, WorkFacts
<1>2. Put(o, row) /\ caller' = [caller EXCEPT ![k] = j]
  BY DEF Ensure, Goto, Leave
<1>3. j \in Job /\ j.at \in {"claim", "idle"} /\ (j.at # "idle" => j.op = o)
  BY <1>1, IdleIsJob, RequestAssumption DEF Job, Steps
<1>4. CASE op[o].state = "absent"
  <2>1. row \in Row /\ row.state \in NoRequest /\ row.sol = 0
    BY <1>4, <1>1 DEF Created, AbsentRow, Row, State, NoRequest, IInv, TypeOK
  <2>2. remote[o] = 0
    BY <1>1, <1>4 DEF RowFits, NoRequest
  <2>3. RowFits(row, remote[o])
    BY <2>1, <2>2 DEF RowFits, NoRequest
  <2>4. \A i \in Callers : ~Mine(i, row) /\ ~InPost(i, op[o], remote[o])
    BY <2>1, <1>4 DEF Mine, InPost, NoRequest
  <2>5. JobFits(k, j, row, remote[o])
    BY <1>3 DEF JobFits
  <2> HIDE DEF j, row, o
  <2> QED
    BY <1>1, <1>2, <1>3, <2>1, <2>3, <2>4, <2>5, TransactionKeepsIInv DEF Ensure
<1>5. CASE op[o].state # "absent"
  <2>1. row = op[o]
    BY <1>5
  <2>2. JobFits(k, j, row, remote[o])
    BY <1>3 DEF JobFits
  <2> HIDE DEF j, row, o
  <2> QED
    BY <1>1, <1>2, <1>3, <2>1, <2>2, TransactionKeepsIInv DEF Ensure
<1> QED
  BY <1>4, <1>5

LEMMA ClaimKeeps ==
    ASSUME IInv, NEW k \in Callers, Claim(k)
    PROVE  IInv'
<1> DEFINE o == caller[k].op
           reaped == Reaped(op[o])
           free == reaped.state \in {"not_started", "retryable_failure"}
           row == IF free THEN [reaped EXCEPT !.state = "attempting",
                                              !.owner = k, !.lease = "live"]
                          ELSE reaped
           j == IF free THEN [caller[k] EXCEPT !.at = "load"] ELSE Idle
<1>0. caller[k].at = "claim"
  BY DEF Claim
<1>1. /\ caller[k] \in Job /\ o \in Operations /\ op[o] \in Row
      /\ remote[o] \in Nat /\ RowFits(op[o], remote[o])
  BY <1>0, WorkFacts
<1>2. Put(o, row) /\ caller' = [caller EXCEPT ![k] = j]
  BY DEF Claim, Goto, Leave
<1>3. j \in Job /\ (j.at # "idle" => free /\ j.at = "load" /\ j.op = o)
  BY <1>1, IdleIsJob, RequestAssumption DEF Job, Steps
<1>4. /\ reaped \in Row /\ RowFits(reaped, remote[o])
      /\ \A i \in Callers : Mine(i, reaped) => Mine(i, op[o])
      /\ \A i \in Callers : InPost(i, op[o], remote[o])
                               => InPost(i, reaped, remote[o])
  <2>1. CASE op[o].state = "attempting" /\ op[o].lease = "expired"
             /\ op[o].posted
    <3>1. reaped = Freed(op[o], "reconciliation_required")
      BY <2>1 DEF Reaped
    <3> QED
      BY <1>1, <2>1, <3>1 DEF Freed, Row, State, RowFits, NoRequest, Mine, InPost
  <2>2. CASE op[o].state = "attempting" /\ op[o].lease = "expired"
             /\ ~op[o].posted
    <3>1. reaped = Freed(op[o], "retryable_failure")
      BY <2>2 DEF Reaped
    <3> QED
      BY <1>1, <2>2, <3>1 DEF Freed, Row, State, RowFits, NoRequest, Mine, InPost
  <2>3. CASE ~(op[o].state = "attempting" /\ op[o].lease = "expired")
    BY <1>1, <2>3 DEF Reaped
  <2> QED
    BY <2>1, <2>2, <2>3
<1>5. CASE free
  <2>1. /\ row \in Row /\ row.state = "attempting" /\ row.owner = k
        /\ row.posted = reaped.posted /\ row.sol = reaped.sol
    BY <1>4, <1>5 DEF Row, State
  <2>2. remote[o] = 0 /\ reaped.sol = 0
    BY <1>4, <1>5 DEF RowFits, NoRequest
  <2>3. RowFits(row, remote[o]) /\ JobFits(k, j, row, remote[o])
    BY <1>3, <1>5, <2>1, <2>2 DEF RowFits, NoRequest, JobFits
  <2>4. \A i \in Callers \ {k} : ~Mine(i, row)
    BY <2>1 DEF Mine
  <2>5. \A i \in Callers : ~InPost(i, op[o], remote[o])
    BY <1>4, <1>5 DEF InPost, Mine
  <2> HIDE DEF j, row, o, reaped
  <2> QED
    BY <1>1, <1>2, <1>3, <2>1, <2>3, <2>4, <2>5, TransactionKeepsIInv DEF Claim
<1>6. CASE ~free
  <2>1. row = reaped /\ j.at = "idle"
    BY <1>6, IdleIsJob, RequestAssumption
  <2> HIDE DEF j, row, o, reaped
  <2> QED
    BY <1>1, <1>2, <1>3, <1>4, <2>1, TransactionKeepsIInv DEF Claim
<1> QED
  BY <1>5, <1>6

LEMMA LoadKeeps ==
    ASSUME IInv, NEW k \in Callers, Load(k)
    PROVE  IInv'
<1> DEFINE o == caller[k].op
<1>0. caller[k].at = "load"
  BY DEF Load
<1>1. /\ caller[k] \in Job /\ o \in Operations
      /\ JobFits(k, caller[k], op[o], remote[o])
  BY <1>0, WorkFacts
<1>2. CASE Goto(k, "check")
  <2> DEFINE j == [caller[k] EXCEPT !.at = "check"]
  <2>1. j \in Job /\ j.at = "check" /\ j.op = o
    BY <1>1 DEF Job, Steps
  <2>2. JobFits(k, j, op[o], remote[o])
    BY <1>0, <1>1, <2>1 DEF JobFits
  <2>3. caller' = [caller EXCEPT ![k] = j]
    BY <1>2 DEF Goto
  <2> HIDE DEF j
  <2> QED
    BY <1>0, <2>1, <2>2, <2>3, MoveKeepsIInv DEF Load
<1>3. CASE caller' = [caller EXCEPT ![k].at = "finish", ![k].answer =
                          [state |-> "retryable_failure", sol |-> 0]]
  <2> DEFINE j == [caller[k] EXCEPT !.at = "finish", !.answer =
                       [state |-> "retryable_failure", sol |-> 0]]
  <2>1. /\ j \in Job /\ j.at = "finish" /\ j.op = o
        /\ j.answer = [state |-> "retryable_failure", sol |-> 0]
    BY <1>1 DEF Job, Steps, Answer, State
  <2>2. JobFits(k, j, op[o], remote[o])
    BY <1>0, <1>1, <2>1 DEF JobFits, AnswerFits
  <2>3. caller' = [caller EXCEPT ![k] = j]
    BY <1>3
  <2> HIDE DEF j
  <2> QED
    BY <1>0, <2>1, <2>2, <2>3, MoveKeepsIInv DEF Load
<1> QED
  BY <1>2, <1>3 DEF Load

LEMMA CheckKeeps ==
    ASSUME IInv, NEW k \in Callers, Check(k)
    PROVE  IInv'
<1> DEFINE o == caller[k].op
           j == [caller[k] EXCEPT !.at = IF confident[o] THEN "mark" ELSE "block"]
<1>0. caller[k].at = "check"
  BY DEF Check
<1>1. /\ caller[k] \in Job /\ o \in Operations
      /\ JobFits(k, caller[k], op[o], remote[o])
  BY <1>0, WorkFacts
<1>2. j \in Job /\ j.at \in {"mark", "block"} /\ j.op = o
  BY <1>1 DEF Job, Steps
<1>3. JobFits(k, j, op[o], remote[o])
  BY <1>0, <1>1, <1>2 DEF JobFits
<1>4. caller' = [caller EXCEPT ![k] = j]
  BY DEF Check, Goto
<1> HIDE DEF j
<1> QED
  BY <1>0, <1>2, <1>3, <1>4, MoveKeepsIInv DEF Check

(* The gate writes a row as its claimant or not at all.                    *)
LEMMA RefusedKeeps ==
    ASSUME IInv, NEW k \in Callers, caller[k].at # "idle",
           Put(caller[k].op, Refused(k)), Leave(k),
           UNCHANGED <<world, faults>>
    PROVE  IInv'
<1> DEFINE o == caller[k].op
           row == Refused(k)
<1>1. /\ o \in Operations /\ op[o] \in Row
      /\ remote[o] \in Nat /\ RowFits(op[o], remote[o])
  BY WorkFacts
<1>2. Idle \in Job /\ Idle.at = "idle"
  BY IdleIsJob, RequestAssumption
<1>3. caller' = [caller EXCEPT ![k] = Idle] /\ Put(o, row)
  BY DEF Leave
<1>4. CASE Holds(k) /\ ~op[o].posted
  <2>1. /\ row \in Row /\ row.state = "definitive_failure"
        /\ row.posted = op[o].posted /\ row.sol = op[o].sol
    BY <1>1, <1>4 DEF Refused, Freed, Row, State
  <2>2. RowFits(row, remote[o])
    BY <1>1, <1>4, <2>1 DEF RowFits, Holds
  <2>3. \A i \in Callers : ~Mine(i, row) /\ ~InPost(i, op[o], remote[o])
    BY <1>4, <2>1 DEF Mine, InPost
  <2> HIDE DEF row, o
  <2> QED
    BY <1>1, <1>2, <1>3, <2>1, <2>2, <2>3, TransactionKeepsIInv
<1>5. CASE ~(Holds(k) /\ ~op[o].posted)
  <2>1. row = op[o]
    BY <1>5 DEF Refused
  <2> HIDE DEF row, o
  <2> QED
    BY <1>1, <1>2, <1>3, <2>1, TransactionKeepsIInv
<1> QED
  BY <1>4, <1>5

LEMMA BlockKeeps ==
    ASSUME IInv, NEW k \in Callers, Block(k)
    PROVE  IInv'
  BY RefusedKeeps DEF Block

LEMMA MarkKeeps ==
    ASSUME IInv, NEW k \in Callers, Mark(k)
    PROVE  IInv'
<1> DEFINE o == caller[k].op
           row == [op[o] EXCEPT !.posted = TRUE]
           j == [caller[k] EXCEPT !.at = "post"]
<1>0. caller[k].at = "mark"
  BY DEF Mark
<1>1. /\ caller[k] \in Job /\ o \in Operations /\ op[o] \in Row
      /\ remote[o] \in Nat /\ RowFits(op[o], remote[o])
      /\ JobFits(k, caller[k], op[o], remote[o])
  BY <1>0, WorkFacts
<1>2. CASE Holds(k) /\ confident[o]
  <2>1. Put(o, row) /\ caller' = [caller EXCEPT ![k] = j]
    BY <1>2 DEF Mark, Goto
  <2>2. /\ row \in Row /\ row.state = "attempting" /\ row.owner = k
        /\ row.posted /\ row.sol = op[o].sol
    BY <1>1, <1>2 DEF Holds, Row
  <2>3. j \in Job /\ j.at = "post" /\ j.op = o
    BY <1>1 DEF Job, Steps
  <2>4. remote[o] = 0
    BY <1>0, <1>1, <1>2 DEF JobFits, Mine, Holds
  <2>5. RowFits(row, remote[o]) /\ JobFits(k, j, row, remote[o])
    BY <1>1, <1>2, <2>2, <2>3, <2>4
       DEF RowFits, NoRequest, JobFits, InPost, Mine, Holds
  <2>6. \A i \in Callers \ {k} : ~Mine(i, row) /\ ~InPost(i, op[o], remote[o])
    BY <1>2, <2>2 DEF Mine, InPost, Holds
  <2> HIDE DEF row, o, j
  <2> QED
    BY <1>1, <2>1, <2>2, <2>3, <2>5, <2>6, TransactionKeepsIInv DEF Mark
<1>3. CASE ~(Holds(k) /\ confident[o])
  BY <1>0, <1>3, RefusedKeeps DEF Mark
<1> QED
  BY <1>2, <1>3

(* The answer decides how many Requests there are, and no other caller of  *)
(* the operation is at its POST.                                           *)
LEMMA PostKeeps ==
    ASSUME IInv, NEW k \in Callers, Post(k)
    PROVE  IInv'
<1> DEFINE o == caller[k].op
<1>0. caller[k].at = "post"
  BY DEF Post
<1>1. /\ caller[k] \in Job /\ o \in Operations /\ op[o] \in Row
      /\ RowFits(op[o], remote[o]) /\ InPost(k, op[o], remote[o])
  BY <1>0, WorkFacts DEF JobFits
<1>2. remote[o] = 0
  BY <1>1 DEF InPost
<1>3a. PICK answer \in Answers(o) : \E d \in Creates(answer) :
          /\ remote' = [remote EXCEPT ![o] = @ + d]
          /\ caller' = [caller EXCEPT ![k].at = "finish", ![k].answer = answer]
  BY DEF Post
<1>3. PICK d \in Creates(answer) :
          /\ remote' = [remote EXCEPT ![o] = @ + d]
          /\ caller' = [caller EXCEPT ![k].at = "finish", ![k].answer = answer]
  BY <1>3a
<1> DEFINE j == [caller[k] EXCEPT !.at = "finish", !.answer = answer]
<1>4. /\ answer \in Answer
      /\ answer.state \in {"completed", "reconciliation_required",
                           "retryable_failure", "definitive_failure"}
      /\ answer.state = "completed" => d = 1 /\ answer.sol = 1
      /\ answer.state # "completed" => answer.sol = 0
      /\ answer.state \in NoRequest => d = 0
      /\ d \in {0, 1}
  BY <1>2, <1>3a, <1>3 DEF Answers, Creates, Answer, State, NoRequest
<1>5. j \in Job /\ j.at = "finish" /\ j.op = o /\ j.answer = answer
  BY <1>1, <1>4 DEF Job, Steps
<1>6. d \in Nat /\ remote[o] <= d
  BY <1>2, <1>4
<1>7. CallerWrites(k, o, op[o], d, j)
  <2>1. op' = [op EXCEPT ![o] = op[o]]
    BY <1>1 DEF Post, IInv, TypeOK
  <2>2. remote[o] + d = d
    BY <1>2, <1>4
  <2>3. remote' = [remote EXCEPT ![o] = d]
    BY <1>3, <2>2, Zenon
  <2>4. caller' = [caller EXCEPT ![k] = j]
    BY <1>3
  <2> QED
    BY <2>1, <2>3, <2>4 DEF CallerWrites
<1>8. RowFits(op[o], d)
  BY <1>1, <1>2, <1>4 DEF RowFits, InPost, Mine, NoRequest
<1>9. JobFits(k, j, op[o], d)
  BY <1>4, <1>5 DEF JobFits, AnswerFits
<1>10. \A i \in Callers \ {k} : ~(caller[i].at = "post" /\ caller[i].op = o)
  BY <1>0 DEF IInv, OnePostAtATime
<1>11. \A i \in Callers \ {k} : ~Mine(i, op[o])
  BY <1>1 DEF InPost, Mine
<1>12. RestTyped'
  BY DEF Post, IInv, TypeOK, RestTyped
<1> HIDE DEF j, o
<1> QED
  BY <1>1, <1>5, <1>6, <1>7, <1>8, <1>9, <1>10, <1>11, <1>12, CallerKeepsIInv

LEMMA FinishKeeps ==
    ASSUME IInv, NEW k \in Callers, Finish(k)
    PROVE  IInv'
<1> DEFINE o == caller[k].op
           answer == caller[k].answer
           row == IF Holds(k)
                  THEN [Freed(op[o], answer.state) EXCEPT !.sol = answer.sol]
                  ELSE op[o]
<1>0. caller[k].at = "finish"
  BY DEF Finish
<1>1. /\ caller[k] \in Job /\ o \in Operations /\ op[o] \in Row
      /\ remote[o] \in Nat /\ RowFits(op[o], remote[o])
      /\ JobFits(k, caller[k], op[o], remote[o])
  BY <1>0, WorkFacts
<1>2. Idle \in Job /\ Idle.at = "idle"
  BY IdleIsJob, RequestAssumption
<1>3. caller' = [caller EXCEPT ![k] = Idle] /\ Put(o, row)
  BY DEF Finish, Leave
<1>4. CASE Holds(k)
  <2>1. /\ AnswerFits(answer, remote[o])
        /\ answer.state \in NoRequest => remote[o] = 0
    BY <1>0, <1>1, <1>4 DEF JobFits, Holds, Mine
  <2>2. /\ row \in Row /\ row.state = answer.state
        /\ row.posted = op[o].posted /\ row.sol = answer.sol
    BY <1>1, <1>4 DEF Freed, Row, Job, Answer
  <2>3. RowFits(row, remote[o])
    BY <1>1, <2>1, <2>2 DEF RowFits, AnswerFits
  <2>4. \A i \in Callers \ {k} : ~Mine(i, row) /\ ~InPost(i, op[o], remote[o])
    BY <1>4, <2>1, <2>2 DEF Mine, InPost, AnswerFits, Holds
  <2> HIDE DEF row, o
  <2> QED
    BY <1>1, <1>2, <1>3, <2>2, <2>3, <2>4, TransactionKeepsIInv DEF Finish
<1>5. CASE ~Holds(k)
  <2>1. row = op[o]
    BY <1>5
  <2> HIDE DEF row, o
  <2> QED
    BY <1>1, <1>2, <1>3, <2>1, TransactionKeepsIInv DEF Finish
<1> QED
  BY <1>4, <1>5

LEMMA FaultTyped ==
    ASSUME IInv, Fault
    PROVE  faults' \in 0..MaxFaults
  BY RequestAssumption DEF IInv, TypeOK, Fault, RequestAssumption

LEMMA ClaimRecoveryKeeps ==
    ASSUME IInv, NEW k \in Callers, NEW o \in Operations, ClaimRecovery(k, o)
    PROVE  IInv'
<1> DEFINE row == [op[o] EXCEPT !.owner = k, !.lease = "live"]
           j == [caller[k] EXCEPT !.at = "prepare", !.op = o]
<1>1. op[o] \in Row /\ RowFits(op[o], remote[o])
  BY DEF IInv, TypeOK, EveryRowFits
<1>2. op[o].state = "definitive_failure"
  BY DEF ClaimRecovery, NeverAttempted
<1>3. /\ Put(o, row) /\ caller' = [caller EXCEPT ![k] = j]
      /\ UNCHANGED <<world, faults>>
  BY DEF ClaimRecovery
<1>4. j \in Job /\ j.at = "prepare" /\ j.op = o
  BY DEF IInv, TypeOK, Job, Steps
<1>5. /\ row \in Row /\ row.state = op[o].state
      /\ row.posted = op[o].posted /\ row.sol = op[o].sol
  BY <1>1 DEF Row
<1>6. RowFits(row, remote[o]) /\ JobFits(k, j, row, remote[o])
  BY <1>1, <1>4, <1>5 DEF RowFits, JobFits
<1>7. \A i \in Callers : ~Mine(i, row) /\ ~InPost(i, op[o], remote[o])
  BY <1>2, <1>5 DEF Mine, InPost
<1> HIDE DEF row, j
<1> QED
  BY <1>3, <1>4, <1>5, <1>6, <1>7, TransactionKeepsIInv

LEMMA PrepareKeeps ==
    ASSUME IInv, NEW k \in Callers, Prepare(k)
    PROVE  IInv'
<1> DEFINE o == caller[k].op
           j == [caller[k] EXCEPT !.at = IF mapped[o] THEN "reopen" ELSE "refuse"]
<1>0. caller[k].at = "prepare"
  BY DEF Prepare
<1>1. caller[k] \in Job /\ o \in Operations
  BY <1>0, WorkFacts
<1>2. j \in Job /\ j.at \in {"reopen", "refuse"} /\ j.op = o
  BY <1>1 DEF Job, Steps
<1>3. JobFits(k, j, op[o], remote[o])
  BY <1>2 DEF JobFits
<1>4. caller' = [caller EXCEPT ![k] = j]
  BY DEF Prepare, Goto
<1> HIDE DEF j
<1> QED
  BY <1>0, <1>2, <1>3, <1>4, MoveKeepsIInv DEF Prepare

LEMMA RefuseRecoveryKeeps ==
    ASSUME IInv, NEW k \in Callers, RefuseRecovery(k)
    PROVE  IInv'
<1> DEFINE o == caller[k].op
           row == IF HoldsRecovery(k) THEN Freed(op[o], op[o].state) ELSE op[o]
<1>1. /\ o \in Operations /\ op[o] \in Row /\ RowFits(op[o], remote[o])
  BY WorkFacts DEF RefuseRecovery
<1>2. Idle \in Job /\ Idle.at = "idle"
  BY IdleIsJob, RequestAssumption
<1>3. caller' = [caller EXCEPT ![k] = Idle] /\ Put(o, row)
  BY DEF RefuseRecovery, Leave
<1>4. CASE HoldsRecovery(k)
  <2>1. op[o].state = "definitive_failure"
    BY <1>4 DEF HoldsRecovery, NeverAttempted
  <2>2. /\ row \in Row /\ row.state = op[o].state
        /\ row.posted = op[o].posted /\ row.sol = op[o].sol
    BY <1>1, <1>4 DEF Freed, Row
  <2>3. RowFits(row, remote[o])
    BY <1>1, <2>2 DEF RowFits
  <2>4. \A i \in Callers : ~Mine(i, row) /\ ~InPost(i, op[o], remote[o])
    BY <2>1, <2>2 DEF Mine, InPost
  <2> HIDE DEF row, o
  <2> QED
    BY <1>1, <1>2, <1>3, <2>2, <2>3, <2>4, TransactionKeepsIInv
       DEF RefuseRecovery
<1>5. CASE ~HoldsRecovery(k)
  <2>1. row = op[o]
    BY <1>5
  <2> HIDE DEF row, o
  <2> QED
    BY <1>1, <1>2, <1>3, <2>1, TransactionKeepsIInv DEF RefuseRecovery
<1> QED
  BY <1>4, <1>5

LEMMA ReopenKeeps ==
    ASSUME IInv, NEW k \in Callers, Reopen(k)
    PROVE  IInv'
<1> DEFINE o == caller[k].op
           row == [op[o] EXCEPT !.state = "not_started", !.unmapped = FALSE]
           j == [caller[k] EXCEPT !.at = "ensure"]
<1>0. caller[k].at = "reopen"
  BY DEF Reopen
<1>1. /\ caller[k] \in Job /\ o \in Operations /\ op[o] \in Row
      /\ RowFits(op[o], remote[o])
  BY <1>0, WorkFacts
<1>2. CASE HoldsRecovery(k) /\ confident[o] /\ mapped[o]
  <2>1. Put(o, row) /\ caller' = [caller EXCEPT ![k] = j]
    BY <1>2 DEF Reopen, Goto
  <2>2. op[o].state = "definitive_failure"
    BY <1>2 DEF HoldsRecovery, NeverAttempted
  <2>3. /\ row \in Row /\ row.state = "not_started"
        /\ row.posted = op[o].posted /\ row.sol = op[o].sol
    BY <1>1 DEF Row, State
  <2>4. j \in Job /\ j.at = "ensure" /\ j.op = o
    BY <1>1 DEF Job, Steps
  <2>5. RowFits(row, remote[o]) /\ JobFits(k, j, row, remote[o])
    BY <1>1, <2>2, <2>3, <2>4 DEF RowFits, NoRequest, JobFits
  <2>6. \A i \in Callers : ~Mine(i, row) /\ ~InPost(i, op[o], remote[o])
    BY <2>2, <2>3 DEF Mine, InPost
  <2> HIDE DEF row, o, j
  <2> QED
    BY <1>1, <2>1, <2>3, <2>4, <2>5, <2>6, TransactionKeepsIInv DEF Reopen
<1>3. CASE ~(HoldsRecovery(k) /\ confident[o] /\ mapped[o])
  <2>1. Idle \in Job /\ Idle.at = "idle"
    BY IdleIsJob, RequestAssumption
  <2>2. caller' = [caller EXCEPT ![k] = Idle] /\ Put(o, op[o])
    BY <1>1, <1>3 DEF Reopen, Leave, Put, IInv, TypeOK
  <2> HIDE DEF o
  <2> QED
    BY <1>1, <2>1, <2>2, TransactionKeepsIInv DEF Reopen
<1> QED
  BY <1>2, <1>3

(* Only a caller at its POST leaves something behind, and then it was the  *)
(* only one at the POST of an operation with no Request yet.               *)
LEMMA CrashKeeps ==
    ASSUME IInv, NEW k \in Callers, Crash(k)
    PROVE  IInv'
<1> DEFINE o == caller[k].op
<1>1. /\ o \in Operations /\ op[o] \in Row /\ remote[o] \in Nat
      /\ RowFits(op[o], remote[o])
      /\ JobFits(k, caller[k], op[o], remote[o])
  BY WorkFacts DEF Crash
<1>2. Idle \in Job /\ Idle.at = "idle"
  BY IdleIsJob, RequestAssumption
<1>3. PICK d \in IF caller[k].at = "post" THEN {0, 1} ELSE {0} :
          remote' = [remote EXCEPT ![o] = @ + d]
  BY DEF Crash
<1>4. PICK n \in Nat : n = remote[o] + d
  BY <1>1, <1>3
<1>5. CallerWrites(k, o, op[o], n, Idle)
  <2>1. op' = [op EXCEPT ![o] = op[o]]
    BY <1>1 DEF Crash, IInv, TypeOK
  <2>2. remote' = [remote EXCEPT ![o] = n]
    BY <1>3, <1>4, Zenon
  <2>3. caller' = [caller EXCEPT ![k] = Idle]
    BY DEF Crash, Leave
  <2> QED
    BY <2>1, <2>2, <2>3 DEF CallerWrites
<1>6. RestTyped'
  BY FaultTyped DEF Crash, IInv, TypeOK, RestTyped
<1>7. CASE caller[k].at = "post"
  <2>1. InPost(k, op[o], remote[o])
    BY <1>1, <1>7 DEF JobFits
  <2>2. n \in {0, 1} /\ remote[o] = 0
    BY <1>3, <1>4, <2>1 DEF InPost
  <2>3. RowFits(op[o], n) /\ remote[o] <= n
    BY <1>1, <2>1, <2>2 DEF RowFits, InPost, Mine, NoRequest
  <2>4. \A i \in Callers \ {k} : ~(caller[i].at = "post" /\ caller[i].op = o)
    BY <1>7 DEF IInv, OnePostAtATime
  <2>5. \A i \in Callers \ {k} : ~Mine(i, op[o])
    BY <2>1 DEF InPost, Mine
  <2> HIDE DEF o
  <2> QED
    BY <1>1, <1>2, <1>5, <1>6, <2>3, <2>4, <2>5, CallerKeepsIInv
<1>8. CASE caller[k].at # "post"
  <2>1. n = remote[o] /\ remote[o] <= n
    BY <1>1, <1>3, <1>4, <1>8
  <2> HIDE DEF o
  <2> QED
    BY <1>1, <1>2, <1>5, <1>6, <2>1, CallerKeepsIInv
<1> QED
  BY <1>7, <1>8
-----------------------------------------------------------------------------
(* The operator names a Request that exists: no POST is on its way, for    *)
(* one is only started, and only stays visible, while there is none.       *)
LEMMA RecordSolIDKeeps ==
    ASSUME IInv, NEW o \in Operations, NEW y \in Keys, RecordSolID(o, y)
    PROVE  IInv'
<1>1. /\ op[o] \in Row /\ remote[o] \in Nat /\ RowFits(op[o], remote[o])
  BY DEF IInv, TypeOK, EveryRowFits
<1>2. PICK sol \in 1..remote[o] :
          Put(o, [Freed(op[o], "completed") EXCEPT !.sol = sol])
  BY DEF RecordSolID
<1> DEFINE row == [Freed(op[o], "completed") EXCEPT !.sol = sol]
<1>0. sol \in Nat
  BY <1>1, <1>2
<1>3. /\ row \in Row /\ row.state = "completed" /\ row.sol = sol
      /\ row.posted = op[o].posted
  BY <1>0, <1>1 DEF Freed, Row, State
<1>4. remote[o] = 1
  BY <1>1, <1>2 DEF RowFits
<1>5. RowFits(row, remote[o])
  BY <1>1, <1>2, <1>3, <1>4 DEF RowFits, NoRequest
<1>6. \A i \in Callers : ~Mine(i, row) /\ ~InPost(i, op[o], remote[o])
  BY <1>3, <1>4 DEF Mine, InPost
<1>7. RestTyped'
  BY DEF RecordSolID, IInv, TypeOK, RestTyped
<1>8. op' = [op EXCEPT ![o] = row]
  BY <1>2 DEF Put
<1> HIDE DEF row
<1> QED
  BY <1>3, <1>5, <1>6, <1>7, <1>8, RowKeepsIInv DEF RecordSolID

(* The proof of absence is about the provider and about every POST.        *)
LEMMA ReleaseRetryKeeps ==
    ASSUME IInv, NEW o \in Operations, NEW y \in Keys, ReleaseRetry(o, y)
    PROVE  IInv'
<1> DEFINE row == Freed(op[o], "retryable_failure")
<1>1. /\ op[o] \in Row /\ RowFits(op[o], remote[o])
      /\ op[o].state = "reconciliation_required" /\ remote[o] = 0
  BY DEF IInv, TypeOK, EveryRowFits, ReleaseRetry
<1>2. /\ row \in Row /\ row.state = "retryable_failure"
      /\ row.sol = op[o].sol /\ row.posted = op[o].posted
  BY <1>1 DEF Freed, Row, State
<1>3. RowFits(row, remote[o])
  BY <1>1, <1>2 DEF RowFits
<1>4. \A i \in Callers : ~Mine(i, row)
  BY <1>2 DEF Mine
<1>5. \A i \in Callers : ~(caller[i].at = "post" /\ caller[i].op = o)
  BY DEF ReleaseRetry, InFlight
<1>6. RestTyped'
  BY DEF ReleaseRetry, IInv, TypeOK, RestTyped
<1>7. op' = [op EXCEPT ![o] = row]
  BY DEF ReleaseRetry, Put
<1> HIDE DEF row
<1> QED
  BY <1>2, <1>3, <1>4, <1>5, <1>6, <1>7, RowKeepsIInv DEF ReleaseRetry

LEMMA ExpireClaimKeeps ==
    ASSUME IInv, NEW o \in Operations, ExpireClaim(o)
    PROVE  IInv'
<1> DEFINE row == [op[o] EXCEPT !.lease = "expired"]
<1>1. op[o] \in Row /\ RowFits(op[o], remote[o])
  BY DEF IInv, TypeOK, EveryRowFits
<1>2. /\ row \in Row /\ row.state = op[o].state /\ row.owner = op[o].owner
      /\ row.sol = op[o].sol /\ row.posted = op[o].posted
  BY <1>1 DEF Row
<1>3. RowFits(row, remote[o])
  BY <1>1, <1>2 DEF RowFits
<1>4. \A i \in Callers :
          /\ Mine(i, row) => Mine(i, op[o])
          /\ InPost(i, op[o], remote[o]) => InPost(i, row, remote[o])
  BY <1>2 DEF Mine, InPost
<1>5. RestTyped'
  <2>1. faults' \in 0..MaxFaults
    BY FaultTyped DEF ExpireClaim, IInv, TypeOK
  <2> QED
    BY <2>1 DEF ExpireClaim, world, IInv, TypeOK, RestTyped
<1>6. op' = [op EXCEPT ![o] = row] /\ UNCHANGED <<remote, caller>>
  BY DEF ExpireClaim, Put, world
<1> HIDE DEF row
<1> QED
  BY <1>2, <1>3, <1>4, <1>5, <1>6, RowKeepsIInv

(* A step that touches neither rows nor callers nor the provider.          *)
LEMMA FactsKeepIInv ==
    ASSUME IInv, RestTyped', UNCHANGED <<op, caller, remote>>
    PROVE  IInv'
  BY DEF IInv, TypeOK, RestTyped, EveryRowFits, EveryJobFits, OnePostAtATime

LEMMA CompleteMappingKeeps ==
    ASSUME IInv, NEW o \in Operations, CompleteMapping(o)
    PROVE  IInv'
<1>1. RestTyped'
  BY DEF CompleteMapping, IInv, TypeOK, RestTyped
<1> QED
  BY <1>1, FactsKeepIInv DEF CompleteMapping

LEMMA CorrectConfidenceKeeps ==
    ASSUME IInv, NEW o \in Operations, CorrectConfidence(o)
    PROVE  IInv'
<1>1. RestTyped'
  <2>1. faults' \in 0..MaxFaults
    BY FaultTyped DEF CorrectConfidence
  <2>2. (~confident[o]) \in BOOLEAN
    OBVIOUS
  <2>3. confident' \in [Operations -> BOOLEAN]
    BY <2>2 DEF CorrectConfidence, IInv, TypeOK
  <2> QED
    BY <2>1, <2>3 DEF CorrectConfidence, IInv, TypeOK, RestTyped
<1> QED
  BY <1>1, FactsKeepIInv DEF CorrectConfidence

LEMMA NextKeepsIInv == IInv /\ [Next]_vars => IInv'
<1> SUFFICES ASSUME IInv, [Next]_vars PROVE IInv'
  OBVIOUS
<1>1. CASE UNCHANGED vars
  <2>1. RestTyped'
    BY <1>1 DEF vars, IInv, TypeOK, RestTyped
  <2> QED
    BY <1>1, <2>1, FactsKeepIInv DEF vars
<1>2. ASSUME NEW k \in Callers, NEW o \in Operations,
             Call(k, o) \/ ClaimRecovery(k, o)
      PROVE  IInv'
  BY <1>2, CallKeeps, ClaimRecoveryKeeps
<1>3. ASSUME NEW k \in Callers, Progress(k)
      PROVE  IInv'
  BY <1>3, EnsureKeeps, ClaimKeeps, LoadKeeps, CheckKeeps, BlockKeeps,
     MarkKeeps, PostKeeps, FinishKeeps, PrepareKeeps, RefuseRecoveryKeeps,
     ReopenKeeps DEF Progress
<1>4. ASSUME NEW k \in Callers, Crash(k)
      PROVE  IInv'
  BY <1>4, CrashKeeps
<1>5. ASSUME NEW o \in Operations, NEW y \in Keys,
             RecordSolID(o, y) \/ ReleaseRetry(o, y)
      PROVE  IInv'
  BY <1>5, RecordSolIDKeeps, ReleaseRetryKeeps
<1>6. ASSUME NEW o \in Operations,
             ExpireClaim(o) \/ CompleteMapping(o) \/ CorrectConfidence(o)
      PROVE  IInv'
  BY <1>6, ExpireClaimKeeps, CompleteMappingKeeps, CorrectConfidenceKeeps
<1> QED
  BY <1>1, <1>2, <1>3, <1>4, <1>5, <1>6 DEF Next
-----------------------------------------------------------------------------
(* The strengthening holds in every state that the create and recover      *)
(* functions and the operator's commands reach.                            *)
THEOREM Inductive == Spec => []IInv
  BY InitIInv, NextKeepsIInv, PTL DEF Spec

(* Every column and every caller has its type: no write of the module      *)
(* stores a state or a claim the table does not have.                      *)
THEOREM Typed == Spec => []TypeOK
<1>1. IInv => TypeOK
  BY DEF IInv
<1> QED
  BY <1>1, Inductive, PTL

(* No cycle ever creates two Requests at the provider, which has no        *)
(* idempotency key, however claims expire and callers die.                 *)
THEOREM NoDuplicateRequest == Spec => []AtMostOneRequest
<1>1. IInv => AtMostOneRequest
  BY DEF IInv, EveryRowFits, RowFits, AtMostOneRequest
<1> QED
  BY <1>1, Inductive, PTL

(* A row that a POST may be started from has left no Request behind: an    *)
(* uncertain outcome is never replayed without the operator's proof.       *)
THEOREM RetryIsSafe == Spec => []SafeToRetry
<1>1. IInv => SafeToRetry
  BY DEF IInv, EveryRowFits, RowFits, NoRequest, SafeToRetry
<1> QED
  BY <1>1, Inductive, PTL

(* Two POSTs of one operation are never on their way together, although an *)
(* expired claim leaves its caller running.                                *)
THEOREM PostsExclude == Spec => []OnePostAtATime
<1>1. IInv => OnePostAtATime
  BY DEF IInv
<1> QED
  BY <1>1, Inductive, PTL

(* sol_id is set exactly on completed rows and names an existing Request.  *)
THEOREM SolIDExists == Spec => []CompletedNamesRequest
<1>1. IInv => CompletedNamesRequest
  BY DEF IInv, EveryRowFits, RowFits, CompletedNamesRequest
<1> QED
  BY <1>1, Inductive, PTL
-----------------------------------------------------------------------------
(* What a write must respect in a completed row.                           *)
KeepsCompleted(old, new) ==
    old.state = "completed" => new.state = "completed" /\ new.sol = old.sol

LEMMA WriteKeepsCompleted ==
    ASSUME TypeOK, NEW o \in Operations, NEW row, Put(o, row),
           KeepsCompleted(op[o], row)
    PROVE  \A p \in Operations : KeepsCompleted(op[p], op'[p])
<1>1. op'[o] = row /\ \A p \in Operations \ {o} : op'[p] = op[p]
  BY DEF TypeOK, Put
<1> QED
  BY <1>1 DEF KeepsCompleted

(* Reading a row for its claim and refusing it change no completed row.    *)
LEMMA HelpersKeepCompleted ==
    ASSUME NEW k \in Callers, NEW o \in Operations
    PROVE  /\ KeepsCompleted(op[o], Reaped(op[o]))
           /\ KeepsCompleted(op[caller[k].op], Refused(k))
  BY DEF KeepsCompleted, Reaped, Refused, Holds

LEMMA NextKeepsCompleted ==
    IInv /\ [Next]_vars
        => \A o \in Operations : KeepsCompleted(op[o], op'[o])
<1> DEFINE Goal == \A p \in Operations : KeepsCompleted(op[p], op'[p])
<1> SUFFICES ASSUME IInv, [Next]_vars PROVE Goal
  OBVIOUS
<1>0. TypeOK /\ (UNCHANGED op => Goal)
  BY DEF IInv, KeepsCompleted
<1>1. ASSUME NEW k \in Callers, Progress(k)
      PROVE  Goal
  <2> DEFINE o == caller[k].op
  <2>1. CASE Load(k) \/ Check(k) \/ Post(k) \/ Prepare(k)
    BY <2>1, <1>0 DEF Load, Check, Post, Prepare
  <2>0. ASSUME caller[k].at # "idle" PROVE o \in Operations
    BY <2>0, WorkFacts
  <2> DEFINE created == IF op[o].state = "absent" THEN Created(o) ELSE op[o]
  <2>2. CASE Ensure(k)
    <3>1. o \in Operations /\ Put(o, created)
      BY <2>0, <2>2 DEF Ensure
    <3>2. KeepsCompleted(op[o], created)
      BY DEF KeepsCompleted
    <3> HIDE DEF created, o
    <3> QED
      BY <1>0, <3>1, <3>2, WriteKeepsCompleted
  <2>3. CASE Claim(k)
    <3> DEFINE row == Reaped(op[o])
               new == IF row.state \in {"not_started", "retryable_failure"}
                      THEN [row EXCEPT !.state = "attempting", !.owner = k,
                                       !.lease = "live"]
                      ELSE row
    <3>1. o \in Operations /\ Put(o, new)
      BY <2>0, <2>3 DEF Claim
    <3>2. KeepsCompleted(op[o], row)
      BY <3>1, HelpersKeepCompleted
    <3>3. KeepsCompleted(op[o], new)
      BY <3>2 DEF KeepsCompleted
    <3> HIDE DEF new, o
    <3> QED
      BY <1>0, <3>1, <3>3, WriteKeepsCompleted
  <2>4. CASE Block(k)
    <3>1. o \in Operations /\ Put(o, Refused(k))
      BY <2>0, <2>4 DEF Block
    <3> QED
      BY <1>0, <3>1, HelpersKeepCompleted, WriteKeepsCompleted
  <2>5. CASE Mark(k)
    <3>1. o \in Operations
      BY <2>0, <2>5 DEF Mark
    <3>2. CASE Holds(k) /\ confident[o]
      <4>1. Put(o, [op[o] EXCEPT !.posted = TRUE])
        BY <2>5, <3>2 DEF Mark
      <4>2. KeepsCompleted(op[o], [op[o] EXCEPT !.posted = TRUE])
        BY <3>2 DEF KeepsCompleted, Holds
      <4> QED
        BY <1>0, <3>1, <4>1, <4>2, WriteKeepsCompleted
    <3>3. CASE ~(Holds(k) /\ confident[o])
      <4>1. Put(o, Refused(k))
        BY <2>5, <3>3 DEF Mark
      <4> QED
        BY <1>0, <3>1, <4>1, HelpersKeepCompleted, WriteKeepsCompleted
    <3> QED
      BY <3>2, <3>3
  <2>6. CASE Finish(k)
    <3> DEFINE new == IF Holds(k)
                      THEN [Freed(op[o], caller[k].answer.state)
                                EXCEPT !.sol = caller[k].answer.sol]
                      ELSE op[o]
    <3>1. o \in Operations /\ Put(o, new)
      BY <2>0, <2>6 DEF Finish
    <3>2. KeepsCompleted(op[o], new)
      BY DEF KeepsCompleted, Holds
    <3> HIDE DEF new, o
    <3> QED
      BY <1>0, <3>1, <3>2, WriteKeepsCompleted
  <2>7. CASE RefuseRecovery(k)
    <3> DEFINE new == IF HoldsRecovery(k) THEN Freed(op[o], op[o].state)
                                          ELSE op[o]
    <3>1. o \in Operations /\ Put(o, new)
      BY <2>0, <2>7 DEF RefuseRecovery
    <3>2. KeepsCompleted(op[o], new)
      BY DEF KeepsCompleted, HoldsRecovery, NeverAttempted
    <3> HIDE DEF new, o
    <3> QED
      BY <1>0, <3>1, <3>2, WriteKeepsCompleted
  <2>8. CASE Reopen(k)
    <3> DEFINE new == [op[o] EXCEPT !.state = "not_started", !.unmapped = FALSE]
    <3>1. CASE HoldsRecovery(k) /\ confident[o] /\ mapped[o]
      <4>1. o \in Operations /\ Put(o, new)
        BY <2>0, <2>8, <3>1 DEF Reopen
      <4>2. KeepsCompleted(op[o], new)
        BY <3>1 DEF KeepsCompleted, HoldsRecovery, NeverAttempted
      <4> HIDE DEF new, o
      <4> QED
        BY <1>0, <4>1, <4>2, WriteKeepsCompleted
    <3>2. CASE ~(HoldsRecovery(k) /\ confident[o] /\ mapped[o])
      BY <1>0, <2>8, <3>2 DEF Reopen
    <3> QED
      BY <3>1, <3>2
  <2> QED
    BY <1>1, <2>1, <2>2, <2>3, <2>4, <2>5, <2>6, <2>7, <2>8 DEF Progress
<1>2. ASSUME NEW k \in Callers, NEW o \in Operations, ClaimRecovery(k, o)
      PROVE  Goal
  <2>1. KeepsCompleted(op[o], [op[o] EXCEPT !.owner = k, !.lease = "live"])
    BY <1>2 DEF ClaimRecovery, NeverAttempted, KeepsCompleted
  <2> QED
    BY <1>0, <1>2, <2>1, WriteKeepsCompleted DEF ClaimRecovery
<1>3. ASSUME NEW o \in Operations, NEW y \in Keys, RecordSolID(o, y)
      PROVE  Goal
  <2>1. PICK sol \in 1..remote[o] :
            /\ \/ op[o].state = "reconciliation_required"
               \/ op[o].state = "completed" /\ op[o].sol = sol
            /\ Put(o, [Freed(op[o], "completed") EXCEPT !.sol = sol])
    BY <1>3 DEF RecordSolID
  <2>2. op[o] \in Row
    BY DEF IInv, TypeOK
  <2>3. KeepsCompleted(op[o], [Freed(op[o], "completed") EXCEPT !.sol = sol])
    BY <2>1, <2>2 DEF KeepsCompleted, Freed, Row
  <2> QED
    BY <1>0, <2>1, <2>3, WriteKeepsCompleted
<1>4. ASSUME NEW o \in Operations, NEW y \in Keys, ReleaseRetry(o, y)
      PROVE  Goal
  <2>1. KeepsCompleted(op[o], Freed(op[o], "retryable_failure"))
    BY <1>4 DEF ReleaseRetry, KeepsCompleted
  <2> QED
    BY <1>0, <1>4, <2>1, WriteKeepsCompleted DEF ReleaseRetry
<1>5. ASSUME NEW o \in Operations, ExpireClaim(o)
      PROVE  Goal
  <2>1. op[o] \in Row
    BY DEF IInv, TypeOK
  <2>2. KeepsCompleted(op[o], [op[o] EXCEPT !.lease = "expired"])
    BY <2>1 DEF KeepsCompleted, Row
  <2> QED
    BY <1>0, <1>5, <2>2, WriteKeepsCompleted DEF ExpireClaim
<1>6. ASSUME NEW k \in Callers, NEW o \in Operations, Call(k, o)
      PROVE  Goal
  BY <1>0, <1>6 DEF Call
<1>7. CASE UNCHANGED vars
  BY <1>0, <1>7 DEF vars
<1>8. ASSUME NEW k \in Callers, Crash(k)
      PROVE  Goal
  BY <1>0, <1>8 DEF Crash
<1>9. ASSUME NEW o \in Operations, CompleteMapping(o) \/ CorrectConfidence(o)
      PROVE  Goal
  BY <1>0, <1>9 DEF CompleteMapping, CorrectConfidence
<1> HIDE DEF Goal
<1> QED
  BY <1>1, <1>2, <1>3, <1>4, <1>5, <1>6, <1>7, <1>8, <1>9 DEF Next

(* A completed row keeps its state and its SolID, whoever writes it: a     *)
(* late caller, a recovery or the operator.                                *)
THEOREM CompletedStays == Spec => CompletedIsFinal
<1>1. IInv /\ [Next]_vars
          => [\A o \in Operations :
                 op[o].state = "completed" =>
                     op'[o].state = "completed" /\ op'[o].sol = op[o].sol]_vars
  BY NextKeepsCompleted DEF KeepsCompleted
<1> QED
  BY <1>1, Inductive, PTL DEF Spec, CompletedIsFinal

(* A refused row has no POST on its way that could still create a Request. *)
THEOREM RefusalIsDefinitive == Spec => RefusedCreatesNothing
<1> DEFINE Quiet == \A o \in Operations :
               op[o].state = "definitive_failure" => remote'[o] = remote[o]
<1>1. ASSUME IInv, NEW k \in Callers, Post(k) \/ Crash(k)
      PROVE  Quiet
  <2> SUFFICES ASSUME NEW o \in Operations, op[o].state = "definitive_failure"
               PROVE  remote'[o] = remote[o]
    OBVIOUS
  <2>1. caller[k].at # "idle" /\ remote \in [Operations -> Nat]
    BY <1>1 DEF Post, Crash, IInv, TypeOK
  <2>2. caller[k].at = "post" => caller[k].op # o
    BY <1>1, <2>1, WorkFacts DEF JobFits, InPost, Mine
  <2>3. CASE Post(k)
    BY <2>1, <2>2, <2>3 DEF Post
  <2>4. CASE Crash(k)
    <3>1. PICK d \in IF caller[k].at = "post" THEN {0, 1} ELSE {0} :
              remote' = [remote EXCEPT ![caller[k].op] = @ + d]
      BY <2>4 DEF Crash
    <3>2. CASE caller[k].op # o
      BY <2>1, <3>1, <3>2
    <3>3. CASE caller[k].op = o
      <4>1. d = 0
        BY <2>2, <3>1, <3>3
      <4> QED
        BY <2>1, <3>1, <3>3, <4>1
    <3> QED
      BY <3>2, <3>3
  <2> QED
    BY <1>1, <2>3, <2>4
<1>2. ASSUME [Next]_vars, \A k \in Callers : ~Post(k) /\ ~Crash(k)
      PROVE  remote' = remote
  BY <1>2 DEF Next, vars, world, Progress, Call, Ensure, Claim, Load, Check,
     Block, Mark, Finish, ClaimRecovery, Prepare, RefuseRecovery, Reopen,
     RecordSolID, ReleaseRetry, ExpireClaim, CompleteMapping, CorrectConfidence
<1>3. IInv /\ [Next]_vars => [Quiet]_vars
  BY <1>1, <1>2
<1> QED
  BY <1>3, Inductive, PTL DEF Spec, RefusedCreatesNothing
=============================================================================
