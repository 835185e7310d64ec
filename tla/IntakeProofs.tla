---------------------------- MODULE IntakeProofs ----------------------------
(***************************************************************************)
(* Theorems about the cycles of a conversation, for any departments, any   *)
(* events and any order, repetition or loss of their webhooks.             *)
(*                                                                         *)
(* Two safety properties rest on the advisory lock: OpenCycle inserts      *)
(* only when no cycle is open, CloseCycle only when none is open and the   *)
(* closure is new, so that an insertion never follows an open cycle.       *)
(*                                                                         *)
(* The three about order need more (FullInv): handled in order, the keys   *)
(* and the history name the department of every answered event, a cycle is *)
(* open exactly after an opening, and a message that has a cycle was taken *)
(* between the end of the one before and the skew after its own.           *)
(***************************************************************************)
EXTENDS TicketIntake, TLAPS, SequenceTheorems, FiniteSetTheorems,
        WellFoundedInduction

(* No two cycles were closed by one event.                                 *)
ClosuresApart ==
    \A j, k \in DOMAIN cycles :
        cycles[j].closed = cycles[k].closed /\ ~IsOpen(j) => j = k

(* The cycle of an answered closure is there.                              *)
ClosuresFound ==
    \A t \in done \cap Closures :
        \E k \in DOMAIN cycles : cycles[k].closed = t

(* The inductive invariant.                                                *)
IInv == TypeOK /\ OpenIsLast /\ ClosuresApart /\ ClosuresFound
-----------------------------------------------------------------------------
(* A nonempty set of numbers has its least element as Min, and, when it is *)
(* bounded, its greatest as Max.                                           *)
LEMMA LeastExists ==
    ASSUME NEW S \in SUBSET Nat, S # {}
    PROVE  \E x \in S : \A y \in S : x <= y
<1> DEFINE R == OpToRel(<, Nat)
<1>1. PICK x \in S : \A y \in S : <<y, x>> \notin R
  <2>1. IsWellFoundedOn(R, Nat)
    BY NatLessThanWellFounded
  <2> HIDE DEF R
  <2> QED
    BY <2>1, WFMin
<1>2. \A y \in Nat : y < x => <<y, x>> \in R
  BY DEF OpToRel
<1> HIDE DEF R
<1>3. \A y \in S : x \in Nat /\ y \in Nat /\ ~(y < x)
  BY <1>1, <1>2
<1> QED
  BY <1>3

LEMMA MinIsMember ==
    ASSUME NEW S \in SUBSET Nat, S # {}
    PROVE  Min(S) \in S
  BY LeastExists DEF Min

LEMMA GreatestExists ==
    ASSUME NEW n \in Nat, NEW S \in SUBSET (0..n), S # {}
    PROVE  \E x \in S : \A z \in S : x >= z
<1> DEFINE T == {n - x : x \in S}
<1>1. \A x \in S : n - x \in Nat
  OBVIOUS
<1>2. T \in SUBSET Nat /\ T # {}
  BY <1>1
<1>3. PICK y \in T : \A z \in T : y <= z
  BY <1>2, LeastExists
<1>4. PICK x \in S : y = n - x
  OBVIOUS
<1>5. \A z \in S : x >= z
  BY <1>3, <1>4
<1> QED
  BY <1>5

LEMMA MaxIsMember ==
    ASSUME NEW n \in Nat, NEW S \in SUBSET (0..n), S # {}
    PROVE  Max(S) \in S
  BY GreatestExists DEF Max

(* A function on 1..n is a sequence of length n.                           *)
LEMMA RowsAreSeq ==
    ASSUME NEW S, NEW n \in Nat, NEW f \in [1..n -> S]
    PROVE  f \in Seq(S) /\ Len(f) = n
<1>1. f \in Seq(S)
  BY SeqDef
<1>2. Len(f) \in Nat /\ DOMAIN f = 1..Len(f)
  BY <1>1, LenProperties
<1> QED
  BY <1>1, <1>2

(* The times of events and the numbers of cycles.                          *)
LEMMA Domains ==
    ASSUME TypeOK
    PROVE  /\ Len(log) \in Nat /\ Times = 1..Len(log)
           /\ Times \subseteq 1..MaxTime
           /\ \A t \in Times : log[t] \in Occurrence
           /\ Len(cycles) \in Nat /\ DOMAIN cycles = 1..Len(cycles)
           /\ \A k \in DOMAIN cycles : cycles[k] \in Cycle
<1>1. Len(log) \in Nat /\ Times = 1..Len(log) /\ \A t \in Times : log[t] \in Occurrence
  BY LenProperties DEF TypeOK, Times
<1>2. Times \subseteq 1..MaxTime
  BY <1>1, IntakeAssumption DEF TypeOK, IntakeAssumption
<1>3. /\ Len(cycles) \in Nat /\ DOMAIN cycles = 1..Len(cycles)
      /\ \A k \in DOMAIN cycles : cycles[k] \in Cycle
  BY LenProperties DEF TypeOK
<1> QED
  BY <1>1, <1>2, <1>3

LEMMA LastIsTime ==
    ASSUME TypeOK, NEW S \in SUBSET Times
    PROVE  LastOf(S) \in Nat
<1>1. S \in SUBSET (0..MaxTime) /\ MaxTime \in Nat
  BY Domains, IntakeAssumption DEF IntakeAssumption
<1>2. CASE S = {}
  BY <1>2 DEF LastOf, Null
<1>3. CASE S # {}
  <2>1. Max(S) \in S
    BY <1>1, <1>3, MaxIsMember
  <2>2. LastOf(S) = Max(S)
    BY <1>3 DEF LastOf
  <2>3. \A x \in S : x \in Nat
    BY <1>1
  <2> QED
    BY <2>1, <2>2, <2>3
<1> QED
  BY <1>2, <1>3

LEMMA FaultTyped ==
    ASSUME TypeOK, Fault PROVE faults' \in 0..MaxFaults
  BY IntakeAssumption DEF TypeOK, Fault, IntakeAssumption
-----------------------------------------------------------------------------
LEMMA InitIInv == Init => IInv
<1> SUFFICES ASSUME Init PROVE IInv
  OBVIOUS
<1>1. log \in Seq(Occurrence) /\ Len(log) = 0 /\ Len(cycles) = 0 /\ cycles \in Seq(Cycle)
  BY EmptySeq DEF Init
<1>2. DOMAIN cycles = {}
  BY DEF Init
<1>3. TypeOK
  BY <1>1, IntakeAssumption DEF Init, TypeOK, IntakeAssumption, Null
<1> QED
  BY <1>2, <1>3 DEF Init, IInv, OpenIsLast, ClosuresApart, ClosuresFound

(* An event is added: the earlier ones and what they are do not change.    *)
LEMMA HappenKeeps ==
    ASSUME IInv, NEW kind \in Kinds, NEW to \in Departments \cup {Unassigned},
           Happen(kind, to)
    PROVE  IInv'
<1> DEFINE event == [kind |-> kind, to |-> to]
<1>1. TypeOK /\ event \in Occurrence
  BY DEF IInv, Occurrence
<1>2. /\ Len(log) \in Nat /\ DOMAIN log = 1..Len(log)
  BY <1>1, Domains DEF Times
<1>3. Len(log) < MaxTime
  BY <1>1, <1>2, IntakeAssumption DEF Happen, TypeOK, IntakeAssumption
<1>4. log' = Append(log, event)
  BY DEF Happen
<1>5. log' \in Seq(Occurrence) /\ Len(log') = Len(log) + 1
  BY <1>1, <1>4, AppendProperties DEF TypeOK
<1>6. DOMAIN log' = 1..(Len(log) + 1)
  BY <1>5, LenProperties
<1>7. \A t \in DOMAIN log : t \in DOMAIN log' /\ log'[t] = log[t]
  BY <1>1, <1>2, <1>4, <1>6, AppendProperties DEF TypeOK
<1>8. Tickets \subseteq Tickets' /\ Closures' \cap Tickets \subseteq Closures
  BY <1>7 DEF Tickets, Closures, Times
<1>9. TypeOK'
  <2>1. UNCHANGED server
    BY DEF Happen
  <2>2. Len(log') <= MaxTime
    BY <1>2, <1>3, <1>5, IntakeAssumption DEF IntakeAssumption
  <2> QED
    BY <1>1, <1>5, <1>8, <2>1, <2>2 DEF TypeOK, server
<1> QED
  BY <1>1, <1>8, <1>9
     DEF Happen, server, IInv, OpenIsLast, ClosuresApart, ClosuresFound, IsOpen, TypeOK

(* Steps that write no cycle and answer nothing.                           *)
LEMMA DeliverKeeps ==
    ASSUME IInv, NEW t \in Tickets, Deliver(t) \/ Fail(t)
    PROVE  IInv'
<1>1. UNCHANGED <<log, done, cycles, owner>> /\ flight' \subseteq Tickets
  BY DEF Deliver, Fail, IInv, TypeOK
<1>2. Tickets' = Tickets /\ Closures' = Closures
  BY <1>1 DEF Tickets, Closures, Times
<1>3. history' \subseteq keys' /\ keys' \subseteq Tickets
  BY DEF Deliver, Fail, Assign, IInv, TypeOK
<1>4. straight' \in BOOLEAN /\ faults' \in 0..MaxFaults
  BY FaultTyped DEF Deliver, Fail, IInv, TypeOK
<1>5. TypeOK'
  BY <1>1, <1>2, <1>3, <1>4 DEF IInv, TypeOK
<1> QED
  BY <1>1, <1>2, <1>5 DEF IInv, OpenIsLast, ClosuresApart, ClosuresFound, IsOpen

(* Closing a conversation by a new row.                                    *)
LEMMA AppendKeeps ==
    ASSUME IInv, UNCHANGED <<log, keys, history, owner, straight, faults>>,
           NEW t \in Tickets, flight' = flight \ {t}, done' = done \cup {t},
           NEW opening \in Nat, NEW closure \in Nat,
           cycles' = Append(cycles, NewCycle(opening, closure)),
           \A k \in DOMAIN cycles : ~IsOpen(k) /\ cycles[k].closed # closure,
           t \in Closures => closure = t
    PROVE  IInv'
<1> DEFINE n == Len(cycles) + 1
<1>1. TypeOK /\ NewCycle(opening, closure) \in Cycle
  BY DEF IInv, NewCycle, Cycle
<1>2. Len(cycles) \in Nat /\ DOMAIN cycles = 1..Len(cycles)
  BY <1>1, Domains
<1>3. /\ cycles' \in Seq(Cycle) /\ Len(cycles') = n
      /\ \A k \in DOMAIN cycles : cycles'[k] = cycles[k]
      /\ cycles'[n] = NewCycle(opening, closure)
  BY <1>1, <1>2, AppendProperties DEF TypeOK
<1>4. DOMAIN cycles' = 1..n
  BY <1>3, LenProperties
<1>5. cycles'[n].closed = closure
  BY <1>3 DEF NewCycle
<1>6. TypeOK'
  <2>1. owner' \in [1..MaxTime -> 0..Len(cycles')]
    BY <1>1, <1>2, <1>3 DEF TypeOK
  <2> QED
    BY <1>1, <1>3, <2>1 DEF TypeOK, Tickets, Times
<1>7. OpenIsLast'
  BY <1>2, <1>3, <1>4 DEF OpenIsLast, IsOpen
<1>8. ClosuresApart'
  BY <1>2, <1>3, <1>4, <1>5 DEF IInv, ClosuresApart, IsOpen
<1>9. ClosuresFound'
  <2>1. Closures' = Closures
    BY DEF Closures, Times
  <2>2. ASSUME NEW s \in done \cap Closures
        PROVE  \E k \in DOMAIN cycles' : cycles'[k].closed = s
    BY <1>2, <1>3, <1>4, <2>2 DEF IInv, ClosuresFound
  <2>3. t \in Closures => \E k \in DOMAIN cycles' : cycles'[k].closed = t
    BY <1>2, <1>4, <1>5
  <2> QED
    BY <2>1, <2>2, <2>3 DEF ClosuresFound
<1> QED
  BY <1>6, <1>7, <1>8, <1>9 DEF IInv

(* The open cycle is closed by t, of which there is no cycle.              *)
LEMMA CloseKeeps ==
    ASSUME IInv, UNCHANGED <<log, keys, history, owner, straight, faults>>,
           NEW t \in Closures, flight' = flight \ {t}, done' = done \cup {t},
           \A k \in DOMAIN cycles : cycles[k].closed # t,
           \E k \in DOMAIN cycles : IsOpen(k),
           cycles' = [k \in DOMAIN cycles |->
                        IF IsOpen(k) THEN [cycles[k] EXCEPT !.closed = t]
                                     ELSE cycles[k]]
    PROVE  IInv'
<1>1. TypeOK
  BY DEF IInv
<1>2. /\ Len(cycles) \in Nat /\ DOMAIN cycles = 1..Len(cycles)
      /\ \A k \in DOMAIN cycles : cycles[k] \in Cycle
      /\ t \in Nat \ {Null} /\ t \in Tickets
  BY <1>1, Domains DEF Closures, Tickets, Null
<1>3. PICK o \in DOMAIN cycles : IsOpen(o)
  OBVIOUS
<1>4. \A k \in DOMAIN cycles : IsOpen(k) => k = o
  BY <1>2, <1>3 DEF IInv, OpenIsLast
<1>5. /\ DOMAIN cycles' = DOMAIN cycles
      /\ \A k \in DOMAIN cycles :
            /\ cycles'[k] \in Cycle
            /\ k = o => cycles'[k].closed = t
            /\ k # o => cycles'[k] = cycles[k]
  BY <1>2, <1>3, <1>4 DEF Cycle
<1>6. cycles' \in Seq(Cycle) /\ Len(cycles') = Len(cycles)
  <2>1. cycles' \in [1..Len(cycles) -> Cycle]
    BY <1>2, <1>5
  <2> QED
    BY <1>2, <2>1, RowsAreSeq
<1>7. TypeOK'
  BY <1>1, <1>2, <1>6 DEF TypeOK, Tickets, Times
<1>8. \A k \in DOMAIN cycles' : cycles'[k].closed # Null
  BY <1>2, <1>4, <1>5 DEF IsOpen
<1>9. OpenIsLast'
  BY <1>8 DEF OpenIsLast, IsOpen
<1>10. ClosuresApart'
  BY <1>3, <1>4, <1>5 DEF IInv, ClosuresApart, IsOpen
<1>11. ClosuresFound'
  <2>1. Closures' = Closures
    BY DEF Closures, Times
  <2>2. ASSUME NEW s \in done \cap Closures
        PROVE  \E k \in DOMAIN cycles' : cycles'[k].closed = s
    <3>1. PICK k \in DOMAIN cycles : cycles[k].closed = s
      BY <2>2 DEF IInv, ClosuresFound
    <3>2. s # Null
      BY <1>1, Domains DEF Closures, Null
    <3> QED
      BY <1>3, <1>5, <3>1, <3>2 DEF IsOpen
  <2> QED
    BY <1>3, <1>5, <2>1, <2>2 DEF ClosuresFound
<1> QED
  BY <1>7, <1>9, <1>10, <1>11 DEF IInv

(* The answer to an event that changes no cycle: it closes none, or its    *)
(* cycle is there.                                                         *)
LEMMA AnswerKeeps ==
    ASSUME IInv, NEW t \in Tickets,
           UNCHANGED <<log, keys, history, cycles, owner, straight, faults>>,
           flight' = flight \ {t}, done' = done \cup {t},
           t \in Closures => \E k \in DOMAIN cycles : cycles[k].closed = t
    PROVE  IInv'
  BY DEF IInv, TypeOK, OpenIsLast, ClosuresApart, ClosuresFound, IsOpen,
         Tickets, Closures, Times

LEMMA FinishKeeps ==
    ASSUME IInv, NEW t \in Tickets, Finish(t)
    PROVE  IInv'
<1>1. /\ UNCHANGED <<log, keys, history, owner, straight, faults>>
      /\ flight' = flight \ {t} /\ done' = done \cup {t}
  BY DEF Finish
<1>2. t \in Nat \ {0} /\ 0 \in Nat
  BY Domains DEF IInv, Tickets
<1>3. CASE t \in Openings /\ OpenCycle(t)
  <2>1. t \notin Closures
    BY <1>3 DEF Openings, Closures
  <2>2. CASE UNCHANGED cycles
    BY <1>1, <2>1, <2>2, AnswerKeeps
  <2>3. CASE /\ \A k \in DOMAIN cycles : ~IsOpen(k)
             /\ cycles' = Append(cycles, NewCycle(t, Null))
    <3>1. \A k \in DOMAIN cycles : cycles[k].closed # Null
      BY <2>3 DEF IsOpen
    <3> QED
      BY <1>1, <1>2, <2>1, <2>3, <3>1, AppendKeeps DEF Null
  <2> QED
    BY <1>3, <2>2, <2>3 DEF OpenCycle
<1>4. CASE t \in Closures /\ CloseCycle(t)
  <2>1. CASE \E k \in DOMAIN cycles : cycles[k].closed = t
    BY <1>1, <1>4, <2>1, AnswerKeeps DEF CloseCycle
  <2>2. CASE /\ \A k \in DOMAIN cycles : cycles[k].closed # t
             /\ \E k \in DOMAIN cycles : IsOpen(k)
    BY <1>1, <1>4, <2>2, CloseKeeps DEF CloseCycle
  <2>3. CASE /\ \A k \in DOMAIN cycles : cycles[k].closed # t
             /\ \A k \in DOMAIN cycles : ~IsOpen(k)
    <3>1. cycles' = Append(cycles, NewCycle(Null, t))
      BY <1>4, <2>3 DEF CloseCycle
    <3> QED
      BY <1>1, <1>2, <2>3, <3>1, AppendKeeps DEF Null
  <2> QED
    BY <2>1, <2>2, <2>3
<1>5. CASE log[t].kind = "silent" /\ UNCHANGED cycles
  BY <1>1, <1>5, AnswerKeeps DEF Closures
<1> QED
  BY <1>3, <1>4, <1>5 DEF Finish
-----------------------------------------------------------------------------
(* Every beginning that a history may suggest is a time.                   *)
LEMMA StartsAreTimes ==
    ASSUME TypeOK, NEW k \in DOMAIN cycles
    PROVE  StartsOf(k) \subseteq Nat
<1> DEFINE end == cycles[k].closed
           technical == {t \in Openings : t <= end + Skew}
           created == {t \in Openings : /\ log[t].kind = "opened"
                                        /\ PreviousClosed(k) < t /\ t <= end}
           said == {t \in Messages : PreviousClosed(k) < t /\ t <= end + Skew}
           untold == IF created # {} THEN Max(created)
                     ELSE IF said # {} THEN Min(said) ELSE end
<1>1. cycles[k].start \in Nat /\ end \in Nat
  BY Domains DEF Cycle
<1>2. Times \subseteq Nat /\ Times \subseteq 0..MaxTime /\ MaxTime \in Nat
  BY Domains, IntakeAssumption DEF IntakeAssumption
<1>3. /\ technical \in SUBSET Times /\ created \in SUBSET Times
      /\ said \in SUBSET Times
  BY DEF Openings, Messages
<1> HIDE DEF technical, created, said, end
<1>4. technical # {} => Max(technical) \in Nat
  BY <1>2, <1>3, MaxIsMember
<1>5. created # {} => Max(created) \in Nat
  BY <1>2, <1>3, MaxIsMember
<1>6. said # {} => Min(said) \in Nat
  BY <1>2, <1>3, MinIsMember
<1>7. untold \in Nat
  BY <1>1, <1>5, <1>6
<1> HIDE DEF untold
<1>8. StartsOf(k) = IF cycles[k].start # Null THEN {cycles[k].start}
                    ELSE IF technical # {} THEN {Max(technical), untold}
                                           ELSE {untold}
  BY DEF StartsOf, technical, created, said, untold, end
<1> QED
  BY <1>1, <1>4, <1>7, <1>8

(* A step that only fills in the recovery or the evaluation of a cycle.    *)
LEMMA FillKeeps ==
    ASSUME IInv, NEW k \in DOMAIN cycles, NEW row \in Cycle,
           row.closed = cycles[k].closed,
           cycles' = [cycles EXCEPT ![k] = row],
           owner' \in [1..MaxTime -> 0..Len(cycles)],
           UNCHANGED <<log, flight, done, keys, history, straight, faults>>
    PROVE  IInv'
<1>1. TypeOK /\ k \in 1..Len(cycles)
  BY Domains DEF IInv
<1>2. cycles' \in Seq(Cycle) /\ Len(cycles') = Len(cycles)
  BY <1>1, ExceptSeq DEF TypeOK
<1>3. /\ DOMAIN cycles' = DOMAIN cycles
      /\ \A j \in DOMAIN cycles : cycles'[j].closed = cycles[j].closed
  BY DEF IInv
<1>4. TypeOK'
  BY <1>1, <1>2 DEF TypeOK, Tickets, Times
<1>5. OpenIsLast' /\ ClosuresApart'
  BY <1>2, <1>3 DEF IInv, OpenIsLast, ClosuresApart, IsOpen
<1>6. ClosuresFound'
  BY <1>3 DEF IInv, ClosuresFound, Closures, Times
<1> QED
  BY <1>4, <1>5, <1>6 DEF IInv

LEMMA RecoverKeeps ==
    ASSUME IInv, NEW k \in DOMAIN cycles, Recover(k)
    PROVE  IInv'
<1>1. PICK start \in StartsOf(k) :
          /\ owner' = [t \in 1..MaxTime |->
                IF t \in Messages /\ owner[t] = Null /\ Within(k, start, t)
                THEN k ELSE owner[t]]
          /\ cycles' = [cycles EXCEPT ![k].found = TRUE, ![k].start = start]
  BY DEF Recover
<1> DEFINE row == [cycles[k] EXCEPT !.found = TRUE, !.start = start]
<1>2. TypeOK /\ start \in Nat
  BY StartsAreTimes DEF IInv
<1>3. /\ cycles[k] \in Cycle /\ k \in 1..Len(cycles) /\ Len(cycles) \in Nat
      /\ DOMAIN cycles = 1..Len(cycles)
  BY <1>2, Domains
<1>4. row \in Cycle /\ row.closed = cycles[k].closed
  BY <1>2, <1>3 DEF Cycle
<1>5. cycles' = [cycles EXCEPT ![k] = row]
  BY <1>1
<1>6. owner' \in [1..MaxTime -> 0..Len(cycles)]
  BY <1>1, <1>2, <1>3 DEF TypeOK
<1> QED
  BY <1>4, <1>5, <1>6, FillKeeps DEF Recover

LEMMA EvaluateKeeps ==
    ASSUME IInv, NEW k \in DOMAIN cycles, Evaluate(k)
    PROVE  IInv'
<1> DEFINE last == LastOf(Assignments(k))
           row == [cycles[k] EXCEPT !.mapped = last]
<1>1. TypeOK /\ cycles[k] \in Cycle
  BY Domains DEF IInv
<1>2. Assignments(k) \in SUBSET Times
  BY <1>1 DEF Assignments, TypeOK, Tickets
<1>3. last \in Nat
  BY <1>1, <1>2, LastIsTime
<1> HIDE DEF last
<1>4. row \in Cycle /\ row.closed = cycles[k].closed
  BY <1>1, <1>3 DEF Cycle
<1>5. cycles' = [cycles EXCEPT ![k] = row]
  BY DEF Evaluate, last
<1>6. UNCHANGED <<log, flight, done, keys, history, owner, straight, faults>>
  BY DEF Evaluate
<1>7. owner' \in [1..MaxTime -> 0..Len(cycles)]
  BY <1>1, <1>6 DEF TypeOK
<1> HIDE DEF row
<1> QED
  BY <1>4, <1>5, <1>6, <1>7, FillKeeps
-----------------------------------------------------------------------------
THEOREM Inductive == Spec => []IInv
<1>1. Init => IInv
  BY InitIInv
<1>2. ASSUME IInv, Next PROVE IInv'
  BY <1>2, HappenKeeps, DeliverKeeps, FinishKeeps, RecoverKeeps, EvaluateKeeps
     DEF Next
<1>3. ASSUME IInv, UNCHANGED vars PROVE IInv'
  BY <1>3 DEF vars, IInv, TypeOK, OpenIsLast, ClosuresApart, ClosuresFound,
              IsOpen, Tickets, Closures, Times
<1>4. IInv /\ [Next]_vars => IInv'
  BY <1>2, <1>3
<1> QED
  BY <1>1, <1>4, PTL DEF Spec

(* Events, rows and owners always have their types.                        *)
THEOREM Typed == Spec => []TypeOK
<1>1. IInv => TypeOK
  BY DEF IInv
<1> QED
  BY <1>1, Inductive, PTL

(* However webhooks are ordered, lost or repeated, only the last cycle of  *)
(* a conversation may be open.                                             *)
THEOREM OneOpen == Spec => []OpenIsLast
<1>1. IInv => OpenIsLast
  BY DEF IInv
<1> QED
  BY <1>1, Inductive, PTL

(* A closure that was answered closed exactly one cycle, for good.         *)
THEOREM ClosedOnce == Spec => []ClosureOnce
<1>1. ASSUME IInv PROVE ClosureOnce
  <2>1. SUFFICES ASSUME NEW t \in done \cap Closures
                 PROVE  Cardinality({k \in DOMAIN cycles : cycles[k].closed = t}) = 1
    BY DEF ClosureOnce
  <2>2. PICK k \in DOMAIN cycles : cycles[k].closed = t
    BY <1>1 DEF IInv, ClosuresFound
  <2>3. t # Null
    BY <1>1, Domains DEF IInv, Closures, Null
  <2>4. {j \in DOMAIN cycles : cycles[j].closed = t} = {k}
    BY <1>1, <2>2, <2>3 DEF IInv, ClosuresApart, IsOpen
  <2> QED
    BY <2>4, FS_Singleton
<1> QED
  BY <1>1, Inductive, PTL
-----------------------------------------------------------------------------
(* What the events leave behind, in whatever order they are handled.       *)
Turns == Openings \cup Closures

LogInv ==
    /\ \A t \in Closures : TurnBefore(t) \notin Closures
    /\ \A t \in Messages : log[t].to = Unassigned
    /\ \A t \in history : log[t].to # Unassigned

RowsInv ==
    \A k \in DOMAIN cycles :
        /\ cycles[k].found => cycles[k].closed # Null
        /\ cycles[k].mapped # Unevaluated => cycles[k].found
        /\ cycles[k].openedBy # Null => cycles[k].start = cycles[k].openedBy
        /\ cycles[k].mapped \in Times \cup {Null, Unevaluated}

(* A message has a cycle that took it: one that was closed, at most the    *)
(* skew before it, and whose predecessor was closed before it.             *)
Takes(k, t) ==
    /\ k \in DOMAIN cycles /\ cycles[k].found
    /\ PreviousClosed(k) < t /\ t <= cycles[k].closed + Skew

OwnersInv ==
    \A t \in 1..MaxTime :
        owner[t] # Null => t \in Messages /\ Takes(owner[t], t)

(* Handled in order: the events before one that was delivered are done...  *)
InOrder ==
    /\ \A t \in done \cup flight \cup keys : {s \in Tickets : s < t} \subseteq done
    /\ flight \cap done = {}
    /\ \A t \in done \cup flight : log[t].to # Unassigned => t \in keys

(* ... the assignments recorded up to an event name its department ...     *)
RecordedBy(t) == LastOf({h \in history : h <= t})

Recorded ==
    \A t \in keys : RecordedBy(t) # Null /\ log[RecordedBy(t)].to = log[t].to

(* ... and a cycle is open after an opening, never after a closure.        *)
OpenTurn ==
    /\ (\E k \in DOMAIN cycles : IsOpen(k)) <=> LastOf(Turns \cap done) \in Openings
    /\ \A k \in DOMAIN cycles : IsOpen(k) => cycles[k].openedBy # Null

StraightInv == straight => InOrder /\ Recorded /\ OpenTurn

(* The inductive invariant of the properties about order.                  *)
FullInv ==
    /\ IInv /\ LogInv /\ RowsInv /\ OwnersInv /\ StraightInv
    /\ CyclesArePeriods /\ MessagesKept /\ DepartmentRight
-----------------------------------------------------------------------------
(* The last of a set of times.                                             *)
LEMMA LastIsGreatest ==
    ASSUME NEW S \in SUBSET (1..MaxTime)
    PROVE  /\ LastOf(S) \in 0..MaxTime
           /\ S = {} => LastOf(S) = Null
           /\ S # {} => LastOf(S) \in S /\ LastOf(S) # Null
           /\ \A x \in S : x <= LastOf(S)
<1>1. MaxTime \in Nat /\ S \in SUBSET (0..MaxTime)
  BY IntakeAssumption DEF IntakeAssumption
<1>2. CASE S = {}
  BY <1>1, <1>2 DEF LastOf, Null
<1>3. CASE S # {}
  <2>1. \E m \in S : \A x \in S : m >= x
    BY <1>1, <1>3, GreatestExists
  <2>2. Max(S) \in S /\ \A x \in S : Max(S) >= x
    BY <2>1 DEF Max
  <2>3. LastOf(S) = Max(S)
    BY <1>3 DEF LastOf
  <2> HIDE DEF Null
  <2>4. LastOf(S) \in S /\ LastOf(S) \in 1..MaxTime
    BY <2>2, <2>3
  <2> QED BY <1>1, <1>3, <2>2, <2>3, <2>4 DEF Null
<1> QED BY <1>2, <1>3

(* There is one such element.                                              *)
LEMMA LastIs ==
    ASSUME NEW S \in SUBSET (1..MaxTime), NEW m \in S, \A x \in S : x <= m
    PROVE  LastOf(S) = m
<1>1. LastOf(S) \in S /\ m <= LastOf(S) /\ LastOf(S) <= m
  BY LastIsGreatest
<1>2. \A x \in S : x \in Nat
  BY IntakeAssumption DEF IntakeAssumption
<1>3. LastOf(S) \in Nat /\ m \in Nat
  BY <1>1, <1>2
<1> QED BY <1>1, <1>3

(* Kinds of events.                                                        *)
LEMMA Events ==
    ASSUME TypeOK
    PROVE  /\ Times \in SUBSET (1..MaxTime) /\ Times \subseteq Nat \ {Null}
           /\ Tickets \subseteq Times /\ Messages \subseteq Times
           /\ Turns \subseteq Tickets /\ Openings \cap Closures = {}
           /\ Tickets \cap Messages = {}
<1>1. Times \subseteq 1..MaxTime /\ Times \subseteq Nat \ {Null}
  BY Domains DEF Null
<1>2. Turns \subseteq Tickets /\ Openings \cap Closures = {}
  BY DEF Turns, Openings, Closures, Tickets
<1> QED BY <1>1, <1>2 DEF Tickets, Messages

(* What was before an event.                                               *)
LEMMA TurnIsBefore ==
    ASSUME TypeOK, NEW t
    PROVE  /\ TurnBefore(t) \in Turns \cup {Null}
           /\ TurnBefore(t) # Null => TurnBefore(t) < t
           /\ TurnBefore(t) = Null => \A s \in Turns : ~(s < t)
<1> DEFINE S == {s \in Turns : s < t}
<1>1. S \in SUBSET (1..MaxTime)
  BY Events
<1>2. TurnBefore(t) = LastOf(S)
  BY DEF TurnBefore, Turns
<1>3. S = {} => LastOf(S) = Null
  BY <1>1, LastIsGreatest
<1>4. S # {} => LastOf(S) \in S /\ LastOf(S) # Null
  BY <1>1, LastIsGreatest
<1> HIDE DEF S
<1>5. TurnBefore(t) # Null => TurnBefore(t) \in S
  BY <1>2, <1>3, <1>4
<1>6. TurnBefore(t) = Null => S = {}
  BY <1>2, <1>4
<1> QED BY <1>5, <1>6 DEF S

(* While nothing happens at DigiSac, its events stay what they are.        *)
LEMMA LogStays ==
    ASSUME UNCHANGED log
    PROVE  /\ Times' = Times /\ Openings' = Openings /\ Closures' = Closures
           /\ Messages' = Messages /\ Tickets' = Tickets /\ Turns' = Turns
           /\ Beginnings' = Beginnings
<1>1. /\ Times' = Times /\ Openings' = Openings /\ Closures' = Closures
      /\ Messages' = Messages /\ Tickets' = Tickets /\ Turns' = Turns
  BY DEF Times, Openings, Closures, Messages, Tickets, Turns
<1>2. Beginnings' = Beginnings
  BY <1>1 DEF Beginnings, TurnBefore
<1> QED BY <1>1, <1>2

(* An event comes after the others and changes none of them.               *)
LEMMA Appended ==
    ASSUME IInv, NEW kind \in Kinds, NEW to \in Departments \cup {Unassigned},
           Happen(kind, to)
    PROVE  LET n == Len(log) + 1
           IN  /\ n \in 1..MaxTime /\ \A t \in Times : t < n
               /\ Times' = Times \cup {n}
               /\ \A t \in Times : log'[t] = log[t]
               /\ log'[n] = [kind |-> kind, to |-> to]
<1> DEFINE event == [kind |-> kind, to |-> to]
           n == Len(log) + 1
<1>1. TypeOK /\ event \in Occurrence
  BY DEF IInv, Occurrence
<1>2. /\ Len(log) \in Nat /\ Times = 1..Len(log)
  BY <1>1, Domains
<1>3. Len(log) < MaxTime /\ log' = Append(log, event)
  BY <1>1, <1>2, IntakeAssumption DEF Happen, TypeOK, IntakeAssumption
<1>4. log' \in Seq(Occurrence) /\ Len(log') = n /\ log'[n] = event
  BY <1>1, <1>3, AppendProperties DEF TypeOK
<1>5. Times' = 1..n
  BY <1>4, LenProperties DEF Times
<1>6. \A t \in Times : log'[t] = log[t]
  BY <1>1, <1>2, <1>3, AppendProperties DEF TypeOK
<1>7. n \in 1..MaxTime
  BY <1>2, <1>3, IntakeAssumption DEF IntakeAssumption
<1>8. Times' = Times \cup {n} /\ \A t \in Times : t < n
  BY <1>2, <1>5
<1> QED BY <1>4, <1>6, <1>7, <1>8

(* So the earlier openings, closures and messages are the same.            *)
LEMMA PastStays ==
    ASSUME IInv, NEW kind \in Kinds, NEW to \in Departments \cup {Unassigned},
           Happen(kind, to)
    PROVE  LET n == Len(log) + 1
           IN  /\ Openings' \cap Times = Openings /\ Openings' \subseteq Openings \cup {n}
               /\ Closures' \cap Times = Closures /\ Closures' \subseteq Closures \cup {n}
               /\ Messages' \cap Times = Messages /\ Messages' \subseteq Messages \cup {n}
               /\ Tickets' \cap Times = Tickets /\ Tickets' \subseteq Tickets \cup {n}
               /\ n \notin Times
               /\ \A t \in Times \cup {n} :
                     {s \in Openings' \cup Closures' : s < t} = {s \in Turns : s < t}
<1> DEFINE n == Len(log) + 1
<1>1. /\ n \in 1..MaxTime /\ \A t \in Times : t < n
      /\ Times' = Times \cup {n}
      /\ \A t \in Times : log'[t] = log[t]
  BY Appended
<1>2. Times \subseteq Nat
  BY Events DEF IInv
<1>3. n \notin Times /\ \A t \in Times \cup {n} : ~(n < t)
  BY <1>1, <1>2
<1> HIDE DEF n
<1>4. Openings' \cap Times = Openings /\ Openings' \subseteq Openings \cup {n}
  BY <1>1 DEF Openings
<1>5. Closures' \cap Times = Closures /\ Closures' \subseteq Closures \cup {n}
  BY <1>1 DEF Closures
<1>6. Tickets' \cap Times = Tickets /\ Tickets' \subseteq Tickets \cup {n}
  BY <1>1 DEF Tickets
<1>7. Messages' \cap Times = Messages /\ Messages' \subseteq Messages \cup {n}
  BY <1>1, <1>3, <1>6 DEF Messages, Tickets
<1>8. \A t \in Times \cup {n} :
          {s \in Openings' \cup Closures' : s < t} = {s \in Turns : s < t}
  BY <1>3, <1>4, <1>5 DEF Turns
<1> QED BY <1>3, <1>4, <1>5, <1>6, <1>7, <1>8 DEF n
-----------------------------------------------------------------------------
(* The cycles that CyclesArePeriods promises.                              *)
Periods ==
    /\ {cycles[k].closed : k \in DOMAIN cycles} \ {Null} = Closures \cap done
    /\ {cycles[k].openedBy : k \in DOMAIN cycles} \ {Null} = Beginnings \cap done
    /\ \A k \in DOMAIN cycles : IsOpen(k) \/ cycles[k].openedBy < cycles[k].closed
    /\ \A j, k \in DOMAIN cycles :
          j < k => cycles[j].closed # Null /\ cycles[j].closed < cycles[k].openedBy

(* The messages of the period of cycle k.                                  *)
Sent(k, t) ==
    /\ cycles[k].found /\ cycles[k].openedBy # Null
    /\ cycles[k].openedBy < t /\ t < cycles[k].closed

Kept(k, t) ==
    \/ owner[t] = k
    \/ owner[t] \in 1 .. k - 1 /\ t <= cycles[owner[t]].closed + Skew

(* A row that was evaluated has the department it was closed in.           *)
RightFor(row) ==
    IF row.mapped = Null
    THEN row.openedBy = Null \/ DepartmentAt(row.openedBy - 1) = DepartmentAt(row.closed)
    ELSE log[row.mapped].to = DepartmentAt(row.closed)

LEMMA Parts ==
    /\ CyclesArePeriods <=> (straight => Periods)
    /\ MessagesKept <=>
          (straight => \A k \in DOMAIN cycles : \A t \in Messages :
                          Sent(k, t) => Kept(k, t))
    /\ DepartmentRight <=>
          (straight => \A k \in DOMAIN cycles :
                          cycles[k].mapped # Unevaluated => RightFor(cycles[k]))
  BY DEF CyclesArePeriods, Periods, MessagesKept, Sent, Kept, DepartmentRight, RightFor

(* What a row says of its times.                                           *)
LEMMA RowTimes ==
    ASSUME TypeOK, Periods, NEW k \in DOMAIN cycles
    PROVE  /\ cycles[k].closed \in (Closures \cap done) \cup {Null}
           /\ cycles[k].openedBy \in (Beginnings \cap done) \cup {Null}
           /\ cycles[k].closed \in Times \cup {Null}
           /\ cycles[k].openedBy \in Times \cup {Null}
           /\ cycles[k].closed \in Nat /\ cycles[k].openedBy \in Nat
<1>1. cycles[k].closed \in {cycles[j].closed : j \in DOMAIN cycles}
  OBVIOUS
<1>2. cycles[k].openedBy \in {cycles[j].openedBy : j \in DOMAIN cycles}
  OBVIOUS
<1>3. /\ cycles[k].closed \in (Closures \cap done) \cup {Null}
      /\ cycles[k].openedBy \in (Beginnings \cap done) \cup {Null}
  BY <1>1, <1>2 DEF Periods
<1>4. Closures \subseteq Times /\ Beginnings \subseteq Times
  BY DEF Closures, Beginnings, Openings
<1>5. cycles[k].closed \in Nat /\ cycles[k].openedBy \in Nat
  BY Domains DEF Cycle
<1> QED BY <1>3, <1>4, <1>5

(* What happens now changes no earlier turn and no earlier department.     *)
LEMMA TurnStays ==
    ASSUME IInv, NEW kind \in Kinds, NEW to \in Departments \cup {Unassigned},
           Happen(kind, to), NEW t \in Times \cup {Len(log) + 1}
    PROVE  TurnBefore(t)' = TurnBefore(t)
<1>1. {s \in Openings' \cup Closures' : s < t} = {s \in Turns : s < t}
  BY PastStays
<1>2. TurnBefore(t)' = LastOf({s \in Openings' \cup Closures' : s < t})
  BY DEF TurnBefore
<1>3. TurnBefore(t) = LastOf({s \in Turns : s < t})
  BY DEF TurnBefore, Turns
<1> QED BY <1>1, <1>2, <1>3

LEMMA DepartmentStays ==
    ASSUME IInv, NEW kind \in Kinds, NEW to \in Departments \cup {Unassigned},
           Happen(kind, to), NEW x \in Int, x <= Len(log)
    PROVE  DepartmentAt(x)' = DepartmentAt(x)
<1> DEFINE n == Len(log) + 1
           before == {s \in Times : s <= x /\ log[s].to # Unassigned}
           after == {s \in Times' : s <= x /\ log'[s].to # Unassigned}
<1>1. /\ Times' = Times \cup {n} /\ \A t \in Times : log'[t] = log[t]
      /\ n \in Int /\ ~(n <= x)
  <2>1. Len(log) \in Nat
    BY Domains DEF IInv
  <2>2. n \in Int /\ ~(n <= x)
    BY <2>1
  <2> QED BY <2>2, Appended
<1> HIDE DEF n
<1>2. after = before
  BY <1>1
<1>3. before \in SUBSET (1..MaxTime) /\ before \subseteq Times
  BY Events DEF IInv
<1>4. LastOf(before) # Null => LastOf(before) \in Times
  <2> HIDE DEF before
  <2> QED BY <1>3, LastIsGreatest
<1>5. /\ DepartmentAt(x) = IF LastOf(before) = Null THEN Unassigned
                           ELSE log[LastOf(before)].to
      /\ DepartmentAt(x)' = IF LastOf(after) = Null THEN Unassigned
                            ELSE log'[LastOf(after)].to
  BY DEF DepartmentAt
<1> HIDE DEF before, after
<1> QED BY <1>1, <1>2, <1>4, <1>5

LEMMA RightStays ==
    ASSUME IInv, NEW kind \in Kinds, NEW to \in Departments \cup {Unassigned},
           Happen(kind, to), NEW row \in Cycle,
           row.closed \in Times \cup {Null}, row.openedBy \in Times \cup {Null},
           row.mapped \in Times \cup {Null}, RightFor(row)
    PROVE  RightFor(row)'
<1>1. Times = 1..Len(log) /\ Len(log) \in Nat
  BY Domains DEF IInv
<1>2. DepartmentAt(row.closed)' = DepartmentAt(row.closed)
  <2>1. row.closed \in Int /\ row.closed <= Len(log)
    BY <1>1 DEF Null
  <2> QED BY <2>1, DepartmentStays
<1>3. DepartmentAt(row.openedBy - 1)' = DepartmentAt(row.openedBy - 1)
  <2>1. row.openedBy - 1 \in Int /\ row.openedBy - 1 <= Len(log)
    BY <1>1 DEF Null
  <2> QED BY <2>1, DepartmentStays
<1>4. row.mapped # Null => log'[row.mapped] = log[row.mapped]
  BY Appended
<1> QED BY <1>2, <1>3, <1>4 DEF RightFor

LEMMA RightNext ==
    ASSUME NEW k, NEW row, cycles'[k] = row, RightFor(row)'
    PROVE  RightFor(cycles[k])'
<1>1. DepartmentAt(cycles[k].closed)' = DepartmentAt(row.closed)'
  BY Zenon DEF DepartmentAt
<1>2. DepartmentAt(cycles[k].openedBy - 1)' = DepartmentAt(row.openedBy - 1)'
  <2>1. cycles'[k].openedBy - 1 = row.openedBy - 1
    OBVIOUS
  <2> QED BY <2>1, Zenon DEF DepartmentAt
<1> QED BY <1>1, <1>2 DEF RightFor
-----------------------------------------------------------------------------
(* An event that happens disturbs nothing that is known of earlier ones.   *)
LEMMA HappenFull ==
    ASSUME FullInv, NEW kind \in Kinds, NEW to \in Departments \cup {Unassigned},
           Happen(kind, to)
    PROVE  FullInv'
<1> DEFINE n == Len(log) + 1
<1>1. /\ IInv /\ TypeOK /\ LogInv /\ RowsInv /\ OwnersInv /\ StraightInv
      /\ flight \subseteq Tickets /\ done \subseteq Tickets /\ keys \subseteq Tickets
      /\ history \subseteq keys /\ UNCHANGED server
  BY DEF FullInv, IInv, TypeOK, Happen
<1>2. /\ n \in 1..MaxTime /\ n \notin Times /\ n # Null
      /\ \A t \in Times : log'[t] = log[t]
      /\ Times' = Times \cup {n} /\ log'[n] = [kind |-> kind, to |-> to]
      /\ \A t \in Times : ~(n < t)
  <2>1. /\ n \in 1..MaxTime /\ \A t \in Times : t < n
        /\ Times' = Times \cup {n} /\ \A t \in Times : log'[t] = log[t]
        /\ log'[n] = [kind |-> kind, to |-> to]
    BY <1>1, Appended
  <2>2. n # Null /\ Times \subseteq Nat
    BY <1>1, <2>1, Events DEF Null
  <2> HIDE DEF n
  <2> QED BY <2>1, <2>2
<1>3. /\ Openings' \cap Times = Openings /\ Closures' \cap Times = Closures
      /\ Messages' \cap Times = Messages /\ Tickets' \cap Times = Tickets
      /\ Openings' \subseteq Openings \cup {n} /\ Closures' \subseteq Closures \cup {n}
      /\ Messages' \subseteq Messages \cup {n} /\ Tickets' \subseteq Tickets \cup {n}
  BY <1>1, PastStays
<1>4. /\ Times \subseteq Nat \ {Null} /\ Times \subseteq 1..MaxTime
      /\ Tickets \subseteq Times /\ Messages \subseteq Times /\ Turns \subseteq Times
      /\ Turns = Openings \cup Closures
  BY <1>1, Events DEF Turns
<1>5. \A t \in Times \cup {n} : TurnBefore(t)' = TurnBefore(t)
  BY <1>1, TurnStays
<1>6. \A t \in Times \cup {n} : TurnBefore(t) \in Times \cup {Null}
  BY <1>1, <1>4, TurnIsBefore
<1>7. LogInv'
  <2>1. ASSUME NEW t \in Closures' PROVE TurnBefore(t)' \notin Closures'
    <3>1. TurnBefore(t)' = TurnBefore(t) /\ TurnBefore(t) \in Times \cup {Null}
      BY <1>3, <1>4, <1>5, <1>6 DEF Turns
    <3>2. TurnBefore(t) \notin Closures
      <4>1. CASE t \in Closures
        BY <1>1, <4>1 DEF LogInv
      <4>2. CASE t = n
        <5>1. kind = "closed"
          BY <1>2, <2>1, <4>2 DEF Closures
        <5> QED BY <4>2, <5>1 DEF Happen
      <4> QED BY <1>3, <2>1, <4>1, <4>2
    <3>3. Null \notin Closures'
      BY <1>2, <1>3, <1>4 DEF Turns
    <3> QED BY <1>3, <3>1, <3>2, <3>3
  <2>2. ASSUME NEW t \in Messages' PROVE log'[t].to = Unassigned
    <3>1. CASE t \in Messages
      BY <1>1, <1>2, <1>4, <3>1 DEF LogInv
    <3>2. CASE t = n
      <4>1. kind = "message"
        BY <1>2, <2>2, <3>2 DEF Messages, Tickets
      <4> QED BY <1>2, <3>2, <4>1 DEF Happen
    <3> QED BY <1>3, <2>2, <3>1, <3>2
  <2>3. \A t \in history' : log'[t].to # Unassigned
    BY <1>1, <1>2, <1>4 DEF LogInv, server
  <2> QED BY <2>1, <2>2, <2>3 DEF LogInv
<1>8. RowsInv' /\ OwnersInv'
  BY <1>1, <1>2, <1>3, <1>4
     DEF RowsInv, OwnersInv, Takes, PreviousClosed, server
<1>9. ASSUME straight PROVE (InOrder /\ Recorded /\ OpenTurn)'
  <2>1. InOrder /\ Recorded /\ OpenTurn
    BY <1>1, <1>9 DEF StraightInv
  <2>2. InOrder'
    <3>1. \A t \in Times : {s \in Tickets' : s < t} = {s \in Tickets : s < t}
      BY <1>2, <1>3, <1>4
    <3> QED BY <1>1, <1>2, <1>4, <2>1, <3>1 DEF InOrder, server
  <2>3. Recorded'
    <3> SUFFICES ASSUME NEW t \in keys
                 PROVE  LET r == LastOf({h \in history : h <= t})
                        IN  r # Null /\ log'[r].to = log'[t].to
      BY <1>1 DEF Recorded, RecordedBy, server
    <3> DEFINE S == {h \in history : h <= t}
    <3>1. LastOf(S) # Null /\ log[LastOf(S)].to = log[t].to
      BY <2>1 DEF Recorded, RecordedBy
    <3>2. S \in SUBSET (1..MaxTime) /\ S \subseteq Times /\ t \in Times
      BY <1>1, <1>4
    <3>3. LastOf(S) \in Times
      <4> HIDE DEF S
      <4> QED BY <3>1, <3>2, LastIsGreatest
    <3> QED BY <1>2, <3>1, <3>2, <3>3
  <2>4. OpenTurn'
    <3>1. Turns' \cap done = Turns \cap done
      BY <1>1, <1>3, <1>4 DEF Turns
    <3>2. LastOf(Turns \cap done) \in Times \cup {Null}
      <4>1. Turns \cap done \in SUBSET (1..MaxTime) /\ Turns \cap done \subseteq Times
        BY <1>4
      <4> QED BY <4>1, LastIsGreatest
    <3>3. Null \notin Openings' /\ Null \notin Openings
      BY <1>2, <1>3, <1>4
    <3>4. LastOf(Turns \cap done) \in Openings' <=> LastOf(Turns \cap done) \in Openings
      BY <1>3, <3>2, <3>3
    <3> QED BY <1>1, <2>1, <3>1, <3>4 DEF OpenTurn, IsOpen, server
  <2> QED BY <2>2, <2>3, <2>4
<1>10. StraightInv'
  BY <1>1, <1>9 DEF StraightInv, server
<1>11. ASSUME straight PROVE Periods'
  <2>1. Periods
    BY <1>11, Parts DEF FullInv
  <2>2. Closures' \cap done = Closures \cap done
    BY <1>1, <1>3, <1>4
  <2>3. Beginnings' \cap done = Beginnings \cap done
    <3>1. ASSUME NEW t \in done PROVE t \in Beginnings' <=> t \in Beginnings
      <4>1. t \in Times /\ (t \in Openings' <=> t \in Openings)
        BY <1>1, <1>3, <1>4
      <4>2. TurnBefore(t)' = TurnBefore(t) /\ TurnBefore(t) \in Times \cup {Null}
        BY <1>5, <1>6, <4>1
      <4>3. Null \notin Openings' /\ Null \notin Openings
        BY <1>2, <1>3, <1>4
      <4>4. TurnBefore(t)' \in Openings' <=> TurnBefore(t) \in Openings
        BY <1>3, <4>2, <4>3
      <4>5. /\ t \in Beginnings' <=> t \in Openings' /\ TurnBefore(t)' \notin Openings'
            /\ t \in Beginnings <=> t \in Openings /\ TurnBefore(t) \notin Openings
        BY DEF Beginnings
      <4> QED BY <4>1, <4>4, <4>5
    <3> QED BY <3>1
  <2> QED BY <1>1, <2>1, <2>2, <2>3 DEF Periods, IsOpen, server
<1>12. CyclesArePeriods'
  BY <1>1, <1>11 DEF CyclesArePeriods, Periods, server
<1>13. MessagesKept'
  <2> SUFFICES ASSUME straight, NEW k \in DOMAIN cycles, NEW t \in Messages', Sent(k, t)
               PROVE  Kept(k, t)
    BY <1>1 DEF MessagesKept, Sent, Kept, server
  <2>1. CASE t \in Messages
    BY <2>1, Parts DEF FullInv
  <2>2. CASE t = n
    <3>1. cycles[k].closed \in Times
      BY <1>1, RowTimes, Parts DEF FullInv, RowsInv, Sent
    <3> QED BY <1>2, <2>2, <3>1 DEF Sent
  <2> QED BY <1>3, <2>1, <2>2
<1>14. DepartmentRight'
  <2> SUFFICES ASSUME straight, NEW k \in DOMAIN cycles,
                      cycles[k].mapped # Unevaluated
               PROVE  RightFor(cycles[k])'
    BY <1>1 DEF DepartmentRight, RightFor, server
  <2>1. PICK row \in Cycle : row = cycles[k]
    BY <1>1, Domains
  <2>2. /\ row.closed \in Times \cup {Null} /\ row.openedBy \in Times \cup {Null}
        /\ row.mapped \in Times \cup {Null} /\ RightFor(row)
    BY <1>1, <2>1, RowTimes, Parts DEF FullInv, RowsInv
  <2>3. RightFor(row)'
    BY <1>1, <2>2, RightStays
  <2>4. cycles'[k] = row
    BY <1>1, <2>1 DEF server
  <2> QED BY <2>3, <2>4, RightNext
<1> QED BY <1>1, <1>7, <1>8, <1>10, <1>12, <1>13, <1>14, HappenKeeps DEF FullInv
-----------------------------------------------------------------------------
(* While nothing happens at DigiSac, what is right stays right.            *)
LEMMA RightUnchanged ==
    ASSUME UNCHANGED log, NEW row, RightFor(row)
    PROVE  RightFor(row)'
<1>1. DepartmentAt(row.closed)' = DepartmentAt(row.closed)
  BY Zenon DEF DepartmentAt, Times
<1>2. DepartmentAt(row.openedBy - 1)' = DepartmentAt(row.openedBy - 1)
  BY Zenon DEF DepartmentAt, Times
<1> QED BY <1>1, <1>2 DEF RightFor

LEMMA LogInvStays ==
    ASSUME LogInv, UNCHANGED log, \A t \in history' : log[t].to # Unassigned
    PROVE  LogInv'
<1>1. \A t \in Closures : TurnBefore(t)' = TurnBefore(t)
  BY LogStays DEF TurnBefore
<1> QED BY <1>1, LogStays DEF LogInv

(* A step that writes no cycle and answers nothing: the rows are as before.*)
LEMMA RowsStay ==
    ASSUME FullInv, UNCHANGED <<log, done, cycles, owner>>, straight' => straight
    PROVE  /\ RowsInv' /\ OwnersInv' /\ CyclesArePeriods' /\ MessagesKept'
           /\ DepartmentRight' /\ (straight' => OpenTurn')
<1>1. RowsInv'
  BY LogStays DEF FullInv, RowsInv
<1>2. OwnersInv'
  BY LogStays DEF FullInv, OwnersInv, Takes, PreviousClosed
<1>3. CyclesArePeriods'
  BY LogStays DEF FullInv, CyclesArePeriods, IsOpen
<1>4. MessagesKept'
  BY LogStays DEF FullInv, MessagesKept
<1>5. DepartmentRight'
  <2> SUFFICES ASSUME straight', NEW k \in DOMAIN cycles,
                      cycles[k].mapped # Unevaluated
               PROVE  RightFor(cycles[k])'
    BY DEF DepartmentRight, RightFor
  <2>1. PICK row : row = cycles[k]
    OBVIOUS
  <2>2. RightFor(row)
    BY <2>1, Parts DEF FullInv
  <2>3. RightFor(row)' /\ cycles'[k] = row
    BY <2>1, <2>2, RightUnchanged
  <2> QED BY <2>3, RightNext
<1>6. straight' => OpenTurn'
  BY LogStays DEF FullInv, StraightInv, OpenTurn, IsOpen
<1> QED BY <1>1, <1>2, <1>3, <1>4, <1>5, <1>6

(* The assignment of an event that comes in order is the last one.         *)
LEMMA AssignRecords ==
    ASSUME FullInv, straight, NEW t \in Tickets, Assign(t), UNCHANGED log,
           {s \in Tickets : s < t} \subseteq done, t \notin done
    PROVE  Recorded'
<1>1. InOrder /\ Recorded /\ TypeOK
  BY DEF FullInv, StraightInv, IInv
<1>2. /\ history \subseteq keys /\ keys \subseteq Tickets /\ Tickets \subseteq Times
      /\ Times \subseteq 1..MaxTime /\ Times \subseteq Nat
  BY <1>1, Events DEF TypeOK
<1>3. CASE UNCHANGED <<keys, history>>
  BY <1>1, <1>3 DEF Recorded, RecordedBy
<1>4. CASE /\ t \notin keys /\ keys' = keys \cup {t}
           /\ history' = IF Latest # Null /\ log[Latest].to = log[t].to
                         THEN history ELSE history \cup {t}
  <2>1. \A s \in keys : s < t
    <3> SUFFICES ASSUME NEW s \in keys, ~(s < t) PROVE FALSE
      OBVIOUS
    <3>1. s \in Nat /\ t \in Nat /\ s # t
      BY <1>2, <1>4
    <3>2. t \in {r \in Tickets : r < s}
      BY <3>1
    <3> QED BY <1>1, <3>2 DEF InOrder
  <2>2. ASSUME NEW s \in keys
        PROVE  LastOf({h \in history' : h <= s}) = RecordedBy(s)
    <3>1. s \in Nat /\ t \in Nat /\ s < t
      BY <1>2, <2>1
    <3>2. {h \in history' : h <= s} = {h \in history : h <= s}
      BY <1>4, <3>1
    <3> QED BY <3>2 DEF RecordedBy
  <2>3. LET r == LastOf({h \in history' : h <= t})
        IN  r # Null /\ log[r].to = log[t].to
    <3>1. \A h \in history : h < t /\ h <= t
      BY <1>2, <2>1
    <3>2. CASE Latest # Null /\ log[Latest].to = log[t].to
      <4>1. {h \in history' : h <= t} = history
        BY <1>4, <3>1, <3>2
      <4> QED BY <3>2, <4>1 DEF Latest
    <3>3. CASE ~(Latest # Null /\ log[Latest].to = log[t].to)
      <4> DEFINE S == {h \in history' : h <= t}
      <4>1. t \in Nat \ {Null} /\ t <= t
        BY <1>1, <1>2, Events
      <4>2. S = history \cup {t}
        BY <1>4, <3>1, <3>3, <4>1
      <4>3. S \in SUBSET (1..MaxTime) /\ t \in S /\ \A x \in S : x <= t
        BY <1>2, <3>1, <4>1, <4>2
      <4> HIDE DEF S
      <4>4. LastOf(S) = t
        BY <4>3, LastIs
      <4> QED BY <4>1, <4>4 DEF S
    <3> QED BY <3>2, <3>3
  <2> QED BY <1>1, <1>4, <2>2, <2>3 DEF Recorded, RecordedBy
<1> QED BY <1>3, <1>4 DEF Assign

LEMMA DeliverFull ==
    ASSUME FullInv, NEW t \in Tickets, Deliver(t)
    PROVE  FullInv'
<1>1. /\ UNCHANGED <<log, done, cycles, owner>> /\ flight' = flight \cup {t}
      /\ straight' => /\ straight /\ {s \in Tickets : s < t} \subseteq done
                      /\ t \notin done /\ (log[t].to # Unassigned => t \in keys')
      /\ Assign(t) \/ UNCHANGED <<keys, history>>
  BY DEF Deliver
<1>2. IInv' /\ LogInv /\ StraightInv
  BY DeliverKeeps DEF FullInv
<1>3. LogInv'
  <2>1. \A h \in history' : log[h].to # Unassigned
    BY <1>1, <1>2 DEF LogInv, Assign
  <2> QED BY <1>1, <1>2, <2>1, LogInvStays
<1>4. ASSUME straight' PROVE InOrder' /\ Recorded'
  <2>1. InOrder /\ Recorded
    BY <1>1, <1>2, <1>4 DEF StraightInv
  <2>2. keys \subseteq keys' /\ keys' \subseteq keys \cup {t}
    BY <1>1 DEF Assign
  <2>3. InOrder'
    BY <1>1, <1>4, <2>1, <2>2, LogStays DEF InOrder
  <2>4. CASE Assign(t)
    BY <1>1, <1>4, <2>3, <2>4, AssignRecords
  <2>5. CASE UNCHANGED <<keys, history>>
    BY <1>1, <2>1, <2>3, <2>5 DEF Recorded, RecordedBy
  <2> QED BY <1>1, <2>4, <2>5
<1>5. /\ RowsInv' /\ OwnersInv' /\ CyclesArePeriods' /\ MessagesKept'
      /\ DepartmentRight' /\ (straight' => OpenTurn')
  BY <1>1, RowsStay
<1> QED BY <1>2, <1>3, <1>4, <1>5 DEF FullInv, StraightInv

LEMMA FailFull ==
    ASSUME FullInv, NEW t \in Tickets, Fail(t)
    PROVE  FullInv'
<1>1. /\ UNCHANGED <<log, done, keys, history, cycles, owner, straight>>
      /\ flight' = flight \ {t}
  BY DEF Fail
<1>2. IInv' /\ LogInv /\ StraightInv
  BY DeliverKeeps DEF FullInv
<1>3. LogInv'
  BY <1>1, <1>2, LogInvStays DEF LogInv
<1>4. straight' => InOrder' /\ Recorded'
  BY <1>1, <1>2, LogStays DEF StraightInv, InOrder, Recorded, RecordedBy
<1>5. /\ RowsInv' /\ OwnersInv' /\ CyclesArePeriods' /\ MessagesKept'
      /\ DepartmentRight' /\ (straight' => OpenTurn')
  BY <1>1, RowsStay
<1> QED BY <1>2, <1>3, <1>4, <1>5 DEF FullInv, StraightInv
-----------------------------------------------------------------------------
(* The two ways in which a sequence of rows changes.                       *)
LEMMA RowsAppended ==
    ASSUME TypeOK, NEW row \in Cycle, cycles' = Append(cycles, row)
    PROVE  LET n == Len(cycles) + 1
           IN  /\ n \notin DOMAIN cycles /\ DOMAIN cycles' = DOMAIN cycles \cup {n}
               /\ \A k \in DOMAIN cycles : cycles'[k] = cycles[k] /\ k < n
               /\ cycles'[n] = row
<1> DEFINE n == Len(cycles) + 1
<1>1. Len(cycles) \in Nat /\ DOMAIN cycles = 1..Len(cycles) /\ cycles \in Seq(Cycle)
  BY Domains DEF TypeOK
<1>2. /\ cycles' \in Seq(Cycle) /\ Len(cycles') = n /\ cycles'[n] = row
      /\ \A k \in 1..Len(cycles) : cycles'[k] = cycles[k]
  BY <1>1, AppendProperties
<1>3. DOMAIN cycles' = 1..n
  BY <1>2, LenProperties
<1>4. /\ n \notin DOMAIN cycles /\ DOMAIN cycles' = DOMAIN cycles \cup {n}
      /\ \A k \in DOMAIN cycles : k < n
  BY <1>1, <1>3
<1> QED BY <1>1, <1>2, <1>4

LEMMA RowsClosed ==
    ASSUME TypeOK, NEW t \in Nat,
           cycles' = [k \in DOMAIN cycles |->
                        IF IsOpen(k) THEN [cycles[k] EXCEPT !.closed = t]
                                     ELSE cycles[k]]
    PROVE  /\ DOMAIN cycles' = DOMAIN cycles
           /\ \A k \in DOMAIN cycles :
                 /\ ~IsOpen(k) => cycles'[k] = cycles[k]
                 /\ IsOpen(k) => cycles'[k].closed = t
                 /\ cycles'[k].openedBy = cycles[k].openedBy
                 /\ cycles'[k].start = cycles[k].start
                 /\ cycles'[k].found = cycles[k].found
                 /\ cycles'[k].mapped = cycles[k].mapped
<1>1. DOMAIN cycles' = DOMAIN cycles
  OBVIOUS
<1>2. ASSUME NEW k \in DOMAIN cycles, IsOpen(k)
      PROVE  /\ cycles'[k].closed = t
             /\ cycles'[k].openedBy = cycles[k].openedBy
             /\ cycles'[k].start = cycles[k].start
             /\ cycles'[k].found = cycles[k].found
             /\ cycles'[k].mapped = cycles[k].mapped
  <2>1. cycles[k] \in Cycle /\ cycles'[k] = [cycles[k] EXCEPT !.closed = t]
    BY <1>2, Domains
  <2> QED BY <2>1 DEF Cycle
<1>3. ASSUME NEW k \in DOMAIN cycles, ~IsOpen(k)
      PROVE  cycles'[k] = cycles[k]
  BY <1>3
<1> QED BY <1>1, <1>2, <1>3

(* A handler adds at most a row, without history and not evaluated, and    *)
(* leaves the closed rows alone.                                           *)
LEMMA Written ==
    ASSUME IInv, NEW t \in Tickets, Finish(t)
    PROVE  LET n == Len(cycles) + 1
           IN  /\ DOMAIN cycles \subseteq DOMAIN cycles'
               /\ DOMAIN cycles' \subseteq DOMAIN cycles \cup {n}
               /\ \A k \in DOMAIN cycles :
                     /\ ~IsOpen(k) => cycles'[k] = cycles[k]
                     /\ cycles'[k].openedBy = cycles[k].openedBy
                     /\ cycles'[k].start = cycles[k].start
                     /\ cycles'[k].found = cycles[k].found
                     /\ cycles'[k].mapped = cycles[k].mapped
               /\ n \in DOMAIN cycles' \ DOMAIN cycles =>
                     /\ cycles'[n].found = FALSE /\ cycles'[n].mapped = Unevaluated
                     /\ cycles'[n].start = cycles'[n].openedBy
<1> DEFINE n == Len(cycles) + 1
<1>1. TypeOK /\ t \in Nat /\ Null \in Nat
  BY Domains DEF IInv, Tickets, Null
<1>2. CASE UNCHANGED cycles
  BY <1>2
<1>3. ASSUME NEW o \in Nat, NEW c \in Nat, cycles' = Append(cycles, NewCycle(o, c))
      PROVE  /\ DOMAIN cycles' = DOMAIN cycles \cup {n}
             /\ \A k \in DOMAIN cycles : cycles'[k] = cycles[k]
             /\ cycles'[n].found = FALSE /\ cycles'[n].mapped = Unevaluated
             /\ cycles'[n].start = cycles'[n].openedBy
  <2>1. NewCycle(o, c) \in Cycle
    BY DEF NewCycle, Cycle
  <2>2. /\ DOMAIN cycles' = DOMAIN cycles \cup {n}
        /\ \A k \in DOMAIN cycles : cycles'[k] = cycles[k]
        /\ cycles'[n] = NewCycle(o, c)
    BY <1>1, <1>3, <2>1, RowsAppended
  <2> QED BY <2>2 DEF NewCycle
<1>4. CASE cycles' = [k \in DOMAIN cycles |->
                        IF IsOpen(k) THEN [cycles[k] EXCEPT !.closed = t]
                                     ELSE cycles[k]]
  BY <1>1, <1>4, RowsClosed
<1>5. CASE cycles' = Append(cycles, NewCycle(t, Null))
  <2> HIDE DEF n
  <2> QED BY <1>1, <1>3, <1>5 DEF n
<1>6. CASE cycles' = Append(cycles, NewCycle(Null, t))
  <2> HIDE DEF n
  <2> QED BY <1>1, <1>3, <1>6 DEF n
<1> QED BY <1>2, <1>4, <1>5, <1>6, Zenon DEF Finish, OpenCycle, CloseCycle
(* What was found, taken or evaluated is not disturbed by an answer.       *)
LEMMA ClosedStays ==
    ASSUME FullInv, NEW t \in Tickets, Finish(t), NEW k \in DOMAIN cycles,
           cycles[k].found
    PROVE  /\ k \in DOMAIN cycles' /\ cycles'[k] = cycles[k]
           /\ PreviousClosed(k)' = PreviousClosed(k)
<1>1. IInv /\ TypeOK /\ ~IsOpen(k)
  BY DEF FullInv, IInv, RowsInv, IsOpen
<1>2. k \in DOMAIN cycles' /\ cycles'[k] = cycles[k]
  BY <1>1, Written
<1>3. ASSUME k # 1 PROVE cycles'[k - 1] = cycles[k - 1]
  <2>1. k - 1 \in DOMAIN cycles /\ k - 1 # Len(cycles)
    BY <1>1, <1>3, Domains
  <2>2. ~IsOpen(k - 1)
    BY <1>1, <2>1 DEF IInv, OpenIsLast
  <2> QED BY <1>1, <2>1, <2>2, Written
<1> QED BY <1>2, <1>3 DEF PreviousClosed

LEMMA FinishRows ==
    ASSUME FullInv, NEW t \in Tickets, Finish(t)
    PROVE  RowsInv' /\ OwnersInv' /\ MessagesKept' /\ DepartmentRight'
<1> DEFINE n == Len(cycles) + 1
<1>1. /\ IInv /\ TypeOK /\ RowsInv /\ OwnersInv
      /\ UNCHANGED <<log, owner, straight>>
  BY DEF FullInv, IInv, Finish
<1>2. /\ DOMAIN cycles \subseteq DOMAIN cycles'
      /\ DOMAIN cycles' \subseteq DOMAIN cycles \cup {n}
      /\ \A k \in DOMAIN cycles :
            /\ ~IsOpen(k) => cycles'[k] = cycles[k]
            /\ cycles'[k].openedBy = cycles[k].openedBy
            /\ cycles'[k].start = cycles[k].start
            /\ cycles'[k].found = cycles[k].found
            /\ cycles'[k].mapped = cycles[k].mapped
      /\ n \in DOMAIN cycles' \ DOMAIN cycles =>
            /\ cycles'[n].found = FALSE /\ cycles'[n].mapped = Unevaluated
            /\ cycles'[n].start = cycles'[n].openedBy
  BY <1>1, Written
<1> HIDE DEF n
<1>3. RowsInv'
  <2> SUFFICES ASSUME NEW k \in DOMAIN cycles'
               PROVE  /\ cycles'[k].found => cycles'[k].closed # Null
                      /\ cycles'[k].mapped # Unevaluated => cycles'[k].found
                      /\ cycles'[k].openedBy # Null => cycles'[k].start = cycles'[k].openedBy
                      /\ cycles'[k].mapped \in Times \cup {Null, Unevaluated}
    BY <1>1, LogStays DEF RowsInv
  <2>1. CASE k \in DOMAIN cycles
    <3>1. cycles'[k].found => cycles'[k].closed # Null
      BY <1>1, <1>2, <2>1 DEF RowsInv, IsOpen
    <3> QED BY <1>1, <1>2, <2>1, <3>1 DEF RowsInv
  <2>2. CASE k \notin DOMAIN cycles
    BY <1>2, <2>2
  <2> QED BY <2>1, <2>2
<1>4. OwnersInv'
  <2> SUFFICES ASSUME NEW u \in 1..MaxTime, owner[u] # Null
               PROVE  u \in Messages /\ Takes(owner[u], u)'
    BY <1>1, LogStays DEF OwnersInv, Takes, PreviousClosed
  <2>1. PICK k : k = owner[u]
    OBVIOUS
  <2>2. u \in Messages /\ Takes(k, u)
    BY <1>1, <2>1 DEF OwnersInv
  <2>3. /\ k \in DOMAIN cycles' /\ cycles'[k] = cycles[k]
        /\ PreviousClosed(k)' = PreviousClosed(k)
    BY <2>2, ClosedStays DEF Takes
  <2>4. Takes(k, u)'
    BY <2>2, <2>3 DEF Takes
  <2>5. k = owner'[u]
    BY <1>1, <2>1
  <2> QED BY <2>2, <2>4, <2>5, <1>1, <2>1 DEF Takes, PreviousClosed
<1>5. MessagesKept'
  <2> SUFFICES ASSUME straight, NEW k \in DOMAIN cycles', NEW u \in Messages,
                      cycles'[k].found, cycles'[k].openedBy # Null,
                      cycles'[k].openedBy < u, u < cycles'[k].closed
               PROVE  \/ owner[u] = k
                      \/ owner[u] \in 1 .. k - 1 /\ u <= cycles'[owner[u]].closed + Skew
    BY <1>1, LogStays DEF MessagesKept
  <2>1. k \in DOMAIN cycles /\ cycles[k].found
    BY <1>2
  <2>2. cycles'[k] = cycles[k]
    BY <2>1, ClosedStays
  <2>3. Kept(k, u)
    BY <2>1, <2>2, Parts DEF FullInv, Sent
  <2>4. ASSUME owner[u] \in 1 .. k - 1 PROVE cycles'[owner[u]] = cycles[owner[u]]
    <3>1. owner[u] # Null /\ u \in 1..MaxTime
      BY <1>1, <2>4, Events DEF Null
    <3>2. owner[u] \in DOMAIN cycles /\ cycles[owner[u]].found
      BY <1>1, <3>1 DEF OwnersInv, Takes
    <3> QED BY <3>2, ClosedStays
  <2> QED BY <2>3, <2>4 DEF Kept
<1>6. DepartmentRight'
  <2> SUFFICES ASSUME straight, NEW k \in DOMAIN cycles', cycles'[k].mapped # Unevaluated
               PROVE  RightFor(cycles[k])'
    BY <1>1 DEF DepartmentRight, RightFor
  <2>1. k \in DOMAIN cycles /\ cycles[k].mapped # Unevaluated /\ cycles[k].found
    BY <1>1, <1>2 DEF RowsInv
  <2>2. PICK row : row = cycles[k]
    OBVIOUS
  <2>3. RightFor(row) /\ cycles'[k] = row
    BY <2>1, <2>2, ClosedStays, Parts DEF FullInv
  <2>4. RightFor(row)'
    BY <1>1, <2>3, RightUnchanged
  <2> QED BY <2>3, <2>4, RightNext
<1> QED BY <1>3, <1>4, <1>5, <1>6
(* Handled in order, what is answered follows all that was.                *)
LEMMA InTurn ==
    ASSUME FullInv, straight, NEW t \in flight
    PROVE  /\ t \notin done /\ \A s \in done : s < t
           /\ LastOf(Turns \cap done) = TurnBefore(t)
           /\ t \in Turns => LastOf(Turns \cap (done \cup {t})) = t
           /\ t \notin Turns => Turns \cap (done \cup {t}) = Turns \cap done
<1>1. /\ TypeOK /\ InOrder /\ t \in Tickets /\ done \subseteq Tickets
  BY DEF FullInv, IInv, TypeOK, StraightInv
<1>2. /\ Tickets \subseteq Times /\ Times \subseteq 1..MaxTime /\ Turns \subseteq Tickets
      /\ Times \subseteq Nat
  BY <1>1, Events
<1>3. t \notin done /\ {s \in Tickets : s < t} \subseteq done
  BY <1>1 DEF InOrder
<1>4. \A s \in done : s < t
  <2> SUFFICES ASSUME NEW s \in done, ~(s < t) PROVE FALSE
    OBVIOUS
  <2>1. s \in Nat /\ t \in Nat /\ s # t
    BY <1>1, <1>2, <1>3
  <2>2. t \in {r \in Tickets : r < s}
    BY <1>1, <2>1
  <2> QED BY <1>1, <1>3, <2>2 DEF InOrder
<1>5. LastOf(Turns \cap done) = TurnBefore(t)
  <2>1. Turns \cap done = {s \in Turns : s < t}
    BY <1>2, <1>3, <1>4
  <2> QED BY <2>1 DEF TurnBefore, Turns
<1>6. ASSUME t \in Turns PROVE LastOf(Turns \cap (done \cup {t})) = t
  <2> DEFINE S == Turns \cap (done \cup {t})
  <2>1. S \in SUBSET (1..MaxTime) /\ t \in S
    BY <1>1, <1>2, <1>6
  <2>2. \A x \in S : x <= t
    <3>1. t <= t
      BY <1>1, <1>2
    <3>2. \A x \in done : x <= t
      BY <1>1, <1>2, <1>4
    <3> QED BY <3>1, <3>2
  <2> HIDE DEF S
  <2>3. LastOf(S) = t
    BY <2>1, <2>2, LastIs
  <2> QED BY <2>3 DEF S
<1>7. t \notin Turns => Turns \cap (done \cup {t}) = Turns \cap done
  OBVIOUS
<1> QED BY <1>3, <1>4, <1>5, <1>6, <1>7

(* An opening is answered: it begins a cycle exactly when the ticket was   *)
(* not known to be open.                                                   *)
LEMMA OpeningInTurn ==
    ASSUME FullInv, straight, NEW t \in flight, t \in Openings, OpenCycle(t),
           UNCHANGED log, done' = done \cup {t}
    PROVE  Periods' /\ OpenTurn'
<1>1. /\ TypeOK /\ IInv /\ Periods /\ OpenTurn /\ t \in Turns /\ t \notin Closures
      /\ t \in Times /\ t \in Nat \ {Null} /\ Null \in Nat
  <2>1. TypeOK /\ IInv /\ Periods /\ OpenTurn
    BY Parts DEF FullInv, IInv, StraightInv
  <2> QED BY <2>1, Events DEF Turns, Null
<1>2. /\ t \notin done /\ \A s \in done : s < t
      /\ LastOf(Turns \cap done) = TurnBefore(t)
      /\ LastOf(Turns \cap (done \cup {t})) = t
  BY <1>1, InTurn
<1>3. \A k \in DOMAIN cycles :
        /\ cycles[k].closed \in (Closures \cap done) \cup {Null}
        /\ cycles[k].openedBy \in (Beginnings \cap done) \cup {Null}
        /\ cycles[k].openedBy # t
  BY <1>1, <1>2, RowTimes
<1>4. (\E k \in DOMAIN cycles : IsOpen(k)) <=> t \notin Beginnings
  BY <1>1, <1>2 DEF OpenTurn, Beginnings
<1>5. LastOf(Turns' \cap done') \in Openings'
  BY <1>1, <1>2, LogStays
<1>6. CASE t \notin Beginnings
  <2>1. UNCHANGED cycles
    BY <1>4, <1>6 DEF OpenCycle
  <2>2. Closures \cap done' = Closures \cap done /\ Beginnings \cap done' = Beginnings \cap done
    BY <1>1, <1>6
  <2>3. Periods'
    BY <1>1, <2>1, <2>2, LogStays DEF Periods, IsOpen
  <2>4. OpenTurn'
    BY <1>1, <1>4, <1>5, <1>6, <2>1 DEF OpenTurn, IsOpen
  <2> QED BY <2>3, <2>4
<1>7. CASE t \in Beginnings
  <2> DEFINE n == Len(cycles) + 1
  <2>1. cycles' = Append(cycles, NewCycle(t, Null))
    BY <1>3, <1>4, <1>7 DEF OpenCycle
  <2>2. NewCycle(t, Null) \in Cycle /\ NewCycle(t, Null).openedBy = t
        /\ NewCycle(t, Null).closed = Null
    BY <1>1 DEF NewCycle, Cycle
  <2>3. /\ n \notin DOMAIN cycles /\ DOMAIN cycles' = DOMAIN cycles \cup {n}
        /\ \A k \in DOMAIN cycles : cycles'[k] = cycles[k] /\ k < n
        /\ cycles'[n].openedBy = t /\ cycles'[n].closed = Null
    <3>1. cycles'[n] = NewCycle(t, Null)
      BY <1>1, <2>1, <2>2, RowsAppended
    <3> QED BY <1>1, <2>1, <2>2, <3>1, RowsAppended
  <2>4. DOMAIN cycles \subseteq Nat /\ n \in Nat
    BY <1>1, Domains
  <2> HIDE DEF n
  <2>5. \A k \in DOMAIN cycles : cycles[k].closed # Null
    BY <1>4, <1>7 DEF IsOpen
  <2>6. {cycles'[k].closed : k \in DOMAIN cycles'} \ {Null} = Closures \cap done'
    <3>1. {cycles'[k].closed : k \in DOMAIN cycles'}
            = {cycles[k].closed : k \in DOMAIN cycles} \cup {Null}
      BY <2>3
    <3> QED BY <1>1, <3>1 DEF Periods
  <2>7. {cycles'[k].openedBy : k \in DOMAIN cycles'} \ {Null} = Beginnings \cap done'
    <3>1. {cycles'[k].openedBy : k \in DOMAIN cycles'}
            = {cycles[k].openedBy : k \in DOMAIN cycles} \cup {t}
      BY <2>3
    <3> QED BY <1>1, <1>7, <3>1 DEF Periods
  <2>8. \A k \in DOMAIN cycles' :
            cycles'[k].closed = Null \/ cycles'[k].openedBy < cycles'[k].closed
    BY <1>1, <2>3 DEF Periods, IsOpen
  <2>9. ASSUME NEW j \in DOMAIN cycles', NEW k \in DOMAIN cycles', j < k
        PROVE  cycles'[j].closed # Null /\ cycles'[j].closed < cycles'[k].openedBy
    <3>1. j # n
      BY <2>3, <2>4, <2>9
    <3>2. j \in DOMAIN cycles /\ cycles'[j] = cycles[j] /\ cycles[j].closed # Null
      BY <2>3, <2>5, <3>1
    <3>3. cycles[j].closed < t
      BY <1>2, <1>3, <3>2
    <3>4. CASE k = n
      BY <2>3, <3>2, <3>3, <3>4
    <3>5. CASE k \in DOMAIN cycles
      BY <1>1, <2>3, <2>9, <3>2, <3>5 DEF Periods
    <3> QED BY <2>3, <3>4, <3>5
  <2>10. Periods'
    BY <2>6, <2>7, <2>8, <2>9, LogStays DEF Periods, IsOpen
  <2>11. OpenTurn'
    BY <1>1, <1>5, <2>3, <2>5 DEF OpenTurn, IsOpen
  <2> QED BY <2>10, <2>11
<1> QED BY <1>6, <1>7
(* A closure is answered: it ends the open cycle; when there is none, it   *)
(* is the first that is known of the ticket.                               *)
LEMMA ClosureInTurn ==
    ASSUME FullInv, straight, NEW t \in flight, t \in Closures, CloseCycle(t),
           UNCHANGED log, done' = done \cup {t}
    PROVE  Periods' /\ OpenTurn'
<1>1. /\ TypeOK /\ IInv /\ LogInv /\ Periods /\ OpenTurn
      /\ t \in Turns /\ t \notin Openings /\ t \notin Beginnings
      /\ t \in Times /\ t \in Nat \ {Null} /\ Null \in Nat
  <2>1. TypeOK /\ IInv /\ LogInv /\ Periods /\ OpenTurn
    BY Parts DEF FullInv, IInv, StraightInv
  <2> QED BY <2>1, Events DEF Turns, Null, Beginnings
<1>2. /\ t \notin done /\ \A s \in done : s < t
      /\ LastOf(Turns \cap done) = TurnBefore(t)
      /\ LastOf(Turns \cap (done \cup {t})) = t
  BY <1>1, InTurn
<1>3. \A k \in DOMAIN cycles :
        /\ cycles[k].closed \in (Closures \cap done) \cup {Null}
        /\ cycles[k].openedBy \in (Beginnings \cap done) \cup {Null}
        /\ cycles[k].closed # t
  BY <1>1, <1>2, RowTimes
<1>4. LastOf(Turns' \cap done') \notin Openings'
  BY <1>1, <1>2, LogStays
<1>5. CASE \E k \in DOMAIN cycles : IsOpen(k)
  <2>1. cycles' = [k \in DOMAIN cycles |->
                     IF IsOpen(k) THEN [cycles[k] EXCEPT !.closed = t] ELSE cycles[k]]
    BY <1>3, <1>5 DEF CloseCycle
  <2>2. /\ DOMAIN cycles' = DOMAIN cycles
        /\ \A k \in DOMAIN cycles :
              /\ ~IsOpen(k) => cycles'[k] = cycles[k]
              /\ IsOpen(k) => cycles'[k].closed = t
              /\ cycles'[k].openedBy = cycles[k].openedBy
    BY <1>1, <2>1, RowsClosed
  <2>3. {cycles'[k].closed : k \in DOMAIN cycles'} \ {Null} = Closures \cap done'
    <3>1. ASSUME NEW k \in DOMAIN cycles
          PROVE  cycles'[k].closed \in Closures \cap (done \cup {t})
      BY <1>1, <1>3, <2>2 DEF IsOpen
    <3>2. ASSUME NEW x \in Closures \cap done
          PROVE  \E k \in DOMAIN cycles : cycles'[k].closed = x
      <4>1. x \in {cycles[k].closed : k \in DOMAIN cycles} /\ x # Null
        BY <1>1 DEF Periods
      <4>2. PICK k \in DOMAIN cycles : cycles[k].closed = x
        BY <4>1
      <4> QED BY <2>2, <4>1, <4>2 DEF IsOpen
    <3>3. \E k \in DOMAIN cycles : cycles'[k].closed = t
      BY <1>5, <2>2
    <3>4. {cycles'[k].closed : k \in DOMAIN cycles'} = Closures \cap (done \cup {t})
      BY <2>2, <3>1, <3>2, <3>3
    <3>5. Null \notin Closures
      BY <1>1, Events DEF Turns
    <3> QED BY <3>4, <3>5
  <2>4. {cycles'[k].openedBy : k \in DOMAIN cycles'} \ {Null} = Beginnings \cap done'
    <3>1. {cycles'[k].openedBy : k \in DOMAIN cycles'} = {cycles[k].openedBy : k \in DOMAIN cycles}
      BY <2>2
    <3> QED BY <1>1, <3>1 DEF Periods
  <2>5. ASSUME NEW k \in DOMAIN cycles' PROVE cycles'[k].openedBy < cycles'[k].closed
    <3>1. k \in DOMAIN cycles
      BY <2>2
    <3>2. CASE IsOpen(k)
      <4>1. cycles[k].openedBy \in done
        BY <1>1, <1>3, <3>1, <3>2 DEF OpenTurn
      <4> QED BY <1>2, <2>2, <3>1, <3>2, <4>1
    <3>3. CASE ~IsOpen(k)
      BY <1>1, <2>2, <3>1, <3>3 DEF Periods
    <3> QED BY <3>2, <3>3
  <2>6. ASSUME NEW j \in DOMAIN cycles', NEW k \in DOMAIN cycles', j < k
        PROVE  cycles'[j].closed # Null /\ cycles'[j].closed < cycles'[k].openedBy
    <3>1. cycles[j].closed # Null /\ cycles[j].closed < cycles[k].openedBy
      BY <1>1, <2>2, <2>6 DEF Periods
    <3> QED BY <2>2, <3>1 DEF IsOpen
  <2>7. Periods'
    BY <2>3, <2>4, <2>5, <2>6, LogStays DEF Periods
  <2>8. \A k \in DOMAIN cycles' : cycles'[k].closed # Null
    BY <1>1, <2>2 DEF IsOpen
  <2>9. OpenTurn'
    BY <1>4, <2>8 DEF OpenTurn, IsOpen
  <2> QED BY <2>7, <2>9
<1>6. CASE \A k \in DOMAIN cycles : ~IsOpen(k)
  <2> DEFINE n == Len(cycles) + 1
  <2>1. TurnBefore(t) = Null
    <3>1. TurnBefore(t) \notin Openings /\ TurnBefore(t) \notin Closures
      BY <1>1, <1>2, <1>6 DEF OpenTurn, LogInv
    <3> QED BY <1>1, <3>1, TurnIsBefore DEF Turns
  <2>2. Turns \cap done = {}
    BY <1>1, <1>2, <2>1, TurnIsBefore
  <2>3. Closures \cap done = {} /\ Beginnings \cap done = {}
    BY <2>2 DEF Turns, Beginnings
  <2>4. DOMAIN cycles = {}
    BY <1>3, <1>6, <2>3 DEF IsOpen
  <2>5. cycles' = Append(cycles, NewCycle(Null, t))
    BY <1>3, <1>6 DEF CloseCycle
  <2>6. NewCycle(Null, t) \in Cycle /\ NewCycle(Null, t).openedBy = Null
        /\ NewCycle(Null, t).closed = t
    BY <1>1 DEF NewCycle, Cycle
  <2>7. cycles'[n] = NewCycle(Null, t) /\ DOMAIN cycles' = {n}
    BY <1>1, <2>4, <2>5, <2>6, RowsAppended
  <2>8. n \in Nat /\ ~(n < n)
    BY <1>1, Domains
  <2> HIDE DEF n
  <2>9. cycles'[n].openedBy = Null /\ cycles'[n].closed = t
    BY <2>6, <2>7
  <2>10. {cycles'[k].closed : k \in DOMAIN cycles'} \ {Null} = Closures \cap done'
    BY <1>1, <2>3, <2>7, <2>9
  <2>11. {cycles'[k].openedBy : k \in DOMAIN cycles'} \ {Null} = Beginnings \cap done'
    BY <1>1, <2>3, <2>7, <2>9
  <2>12. Null < t
    BY <1>1 DEF Null
  <2>13. \A k \in DOMAIN cycles' : cycles'[k].openedBy < cycles'[k].closed
    BY <2>7, <2>9, <2>12
  <2>14. \A j, k \in DOMAIN cycles' : ~(j < k)
    BY <2>7, <2>8
  <2>15. Periods'
    BY <2>10, <2>11, <2>13, <2>14, LogStays DEF Periods
  <2>16. OpenTurn'
    BY <1>1, <1>4, <2>7, <2>9 DEF OpenTurn, IsOpen
  <2> QED BY <2>15, <2>16
<1> QED BY <1>5, <1>6

LEMMA FinishFull ==
    ASSUME FullInv, NEW t \in Tickets, Finish(t)
    PROVE  FullInv'
<1>1. /\ UNCHANGED <<log, keys, history, owner, straight, faults>>
      /\ t \in flight /\ flight' = flight \ {t} /\ done' = done \cup {t}
  BY DEF Finish
<1>2. IInv' /\ LogInv /\ StraightInv /\ TypeOK
  BY FinishKeeps DEF FullInv, IInv
<1>3. LogInv'
  BY <1>1, <1>2, LogInvStays DEF LogInv
<1>4. RowsInv' /\ OwnersInv' /\ MessagesKept' /\ DepartmentRight'
  BY FinishRows
<1>5. straight => InOrder' /\ Recorded'
  <2>1. straight => InOrder'
    BY <1>1, <1>2, LogStays DEF StraightInv, InOrder
  <2>2. straight => Recorded'
    BY <1>1, <1>2 DEF StraightInv, Recorded, RecordedBy
  <2> QED BY <2>1, <2>2
<1>6. ASSUME straight PROVE Periods' /\ OpenTurn'
  <2>1. CASE t \in Openings /\ OpenCycle(t)
    BY <1>1, <1>6, <2>1, OpeningInTurn
  <2>2. CASE t \in Closures /\ CloseCycle(t)
    BY <1>1, <1>6, <2>2, ClosureInTurn
  <2>3. CASE log[t].kind = "silent" /\ UNCHANGED cycles
    <3>1. t \notin Turns /\ Periods /\ OpenTurn
      BY <1>2, <1>6, <2>3, Parts DEF Turns, Openings, Closures, FullInv, StraightInv
    <3>2. Closures \cap done' = Closures \cap done /\ Beginnings \cap done' = Beginnings \cap done
          /\ Turns \cap done' = Turns \cap done
      BY <1>1, <3>1 DEF Turns, Beginnings
    <3>3. Periods'
      BY <1>1, <2>3, <3>1, <3>2, LogStays DEF Periods, IsOpen
    <3>4. OpenTurn'
      BY <1>1, <2>3, <3>1, <3>2, LogStays DEF OpenTurn, IsOpen
    <3> QED BY <3>3, <3>4
  <2> QED BY <2>1, <2>2, <2>3 DEF Finish
<1>7. CyclesArePeriods' /\ StraightInv'
  BY <1>1, <1>5, <1>6 DEF CyclesArePeriods, Periods, StraightInv
<1> QED BY <1>2, <1>3, <1>4, <1>7 DEF FullInv
-----------------------------------------------------------------------------
(* A row is filled in: neither its beginning nor its end moves, and the    *)
(* others are as they were.                                                *)
LEMMA RowFilled ==
    ASSUME FullInv, NEW k \in DOMAIN cycles, NEW row \in Cycle,
           row.closed = cycles[k].closed, row.openedBy = cycles[k].openedBy,
           cycles' = [cycles EXCEPT ![k] = row],
           UNCHANGED <<log, flight, done, keys, history, straight, faults>>
    PROVE  /\ DOMAIN cycles' = DOMAIN cycles /\ cycles'[k] = row
           /\ \A j \in DOMAIN cycles \ {k} : cycles'[j] = cycles[j]
           /\ \A j \in DOMAIN cycles : /\ cycles'[j].closed = cycles[j].closed
                                       /\ cycles'[j].openedBy = cycles[j].openedBy
                                       /\ PreviousClosed(j)' = PreviousClosed(j)
           /\ LogInv' /\ StraightInv' /\ CyclesArePeriods'
<1>1. /\ DOMAIN cycles' = DOMAIN cycles /\ cycles'[k] = row
      /\ \A j \in DOMAIN cycles \ {k} : cycles'[j] = cycles[j]
      /\ \A j \in DOMAIN cycles : /\ cycles'[j].closed = cycles[j].closed
                                  /\ cycles'[j].openedBy = cycles[j].openedBy
  OBVIOUS
<1>2. ASSUME NEW j \in DOMAIN cycles PROVE PreviousClosed(j)' = PreviousClosed(j)
  <2>1. j # 1 => j - 1 \in DOMAIN cycles
    BY Domains DEF FullInv, IInv
  <2> QED BY <1>1, <2>1 DEF PreviousClosed
<1>3. LogInv'
  BY LogInvStays DEF FullInv, LogInv
<1>4. ASSUME straight PROVE (InOrder /\ Recorded /\ OpenTurn)'
  <2>1. InOrder /\ Recorded /\ OpenTurn
    BY <1>4 DEF FullInv, StraightInv
  <2>2. InOrder'
    BY <2>1, LogStays DEF InOrder
  <2>3. Recorded'
    BY <2>1 DEF Recorded, RecordedBy
  <2>4. OpenTurn'
    BY <1>1, <2>1, LogStays DEF OpenTurn, IsOpen
  <2> QED BY <2>2, <2>3, <2>4
<1>5. ASSUME straight PROVE Periods'
  <2>1. Periods
    BY <1>5, Parts DEF FullInv
  <2>2. /\ {cycles'[j].closed : j \in DOMAIN cycles'} = {cycles[j].closed : j \in DOMAIN cycles}
        /\ {cycles'[j].openedBy : j \in DOMAIN cycles'}
              = {cycles[j].openedBy : j \in DOMAIN cycles}
    BY <1>1
  <2>3. \A j \in DOMAIN cycles' :
            cycles'[j].closed = Null \/ cycles'[j].openedBy < cycles'[j].closed
    BY <1>1, <2>1 DEF Periods, IsOpen
  <2>4. \A i, j \in DOMAIN cycles' :
            i < j => cycles'[i].closed # Null /\ cycles'[i].closed < cycles'[j].openedBy
    BY <1>1, <2>1 DEF Periods
  <2> QED BY <2>1, <2>2, <2>3, <2>4, LogStays DEF Periods, IsOpen
<1>6. StraightInv' /\ CyclesArePeriods'
  BY <1>4, <1>5 DEF StraightInv, CyclesArePeriods, Periods
<1> QED BY <1>1, <1>2, <1>3, <1>6

(* A row that stays keeps what it was evaluated with.                      *)
LEMMA OthersRight ==
    ASSUME FullInv, straight, UNCHANGED log, NEW j \in DOMAIN cycles,
           cycles'[j] = cycles[j], cycles[j].mapped # Unevaluated
    PROVE  RightFor(cycles[j])'
<1>1. PICK row : row = cycles[j]
  OBVIOUS
<1>2. RightFor(row) /\ cycles'[j] = row
  BY <1>1, Parts DEF FullInv
<1>3. RightFor(row)'
  BY <1>2, RightUnchanged
<1> QED BY <1>2, <1>3, RightNext

(* A message of a period that a cycle took already: it was an earlier one, *)
(* within the skew after its closure.                                      *)
LEMMA TakenEarlier ==
    ASSUME FullInv, straight, NEW k \in DOMAIN cycles, ~cycles[k].found,
           ~IsOpen(k), NEW u \in Messages, u < cycles[k].closed,
           NEW o \in Nat, o = owner[u], o # Null
    PROVE  o \in 1 .. k - 1 /\ u <= cycles[o].closed + Skew
<1>1. /\ TypeOK /\ Periods /\ u \in 1..MaxTime /\ u \in Nat
      /\ k \in Nat /\ cycles[k].closed \in Nat
  <2>1. TypeOK /\ Periods
    BY Parts DEF FullInv, IInv
  <2> QED BY <2>1, Events, Domains DEF Cycle
<1>2. Takes(o, u)
  BY <1>1 DEF FullInv, OwnersInv
<1>3. o \in DOMAIN cycles /\ cycles[o].found /\ PreviousClosed(o) < u
      /\ u <= cycles[o].closed + Skew
  BY <1>2 DEF Takes
<1>4. DOMAIN cycles = 1..Len(cycles) /\ Len(cycles) \in Nat
  BY <1>1, Domains
<1>5. ASSUME k < o PROVE FALSE
  <2>1. /\ o - 1 \in DOMAIN cycles /\ o - 1 < o /\ k <= o - 1
        /\ PreviousClosed(o) = cycles[o - 1].closed
    BY <1>3, <1>4, <1>5 DEF PreviousClosed
  <2>2. PICK p \in DOMAIN cycles : p = o - 1
    BY <2>1
  <2>3. cycles[p].closed \in Nat /\ cycles[p].openedBy \in Nat /\ p \in Nat
    BY <1>1, <1>4, RowTimes
  <2>4. cycles[k].closed <= cycles[p].closed
    <3>1. CASE p = k
      BY <1>1, <3>1
    <3>2. CASE k < p
      <4>1. cycles[k].closed < cycles[p].openedBy
        BY <1>1, <3>2 DEF Periods
      <4>2. p < o /\ ~IsOpen(p)
        BY <1>1, <1>3, <2>1, <2>2 DEF Periods, IsOpen
      <4>3. cycles[p].openedBy < cycles[p].closed
        BY <1>1, <4>2 DEF Periods
      <4> QED BY <1>1, <2>3, <4>1, <4>3
    <3> QED BY <1>1, <2>1, <2>2, <2>3, <3>1, <3>2
  <2>5. cycles[p].closed < u
    BY <1>3, <2>1, <2>2
  <2> QED BY <1>1, <2>3, <2>4, <2>5
<1>6. o # k
  BY <1>3
<1> QED BY <1>1, <1>3, <1>4, <1>5, <1>6
LEMMA RecoverFull ==
    ASSUME FullInv, NEW k \in DOMAIN cycles, Recover(k)
    PROVE  FullInv'
<1>1. PICK start \in StartsOf(k) :
          /\ owner' = [t \in 1..MaxTime |->
                IF t \in Messages /\ owner[t] = Null /\ Within(k, start, t)
                THEN k ELSE owner[t]]
          /\ cycles' = [cycles EXCEPT ![k].found = TRUE, ![k].start = start]
  BY DEF Recover
<1> DEFINE row == [cycles[k] EXCEPT !.found = TRUE, !.start = start]
<1>2. /\ IInv /\ TypeOK /\ RowsInv /\ OwnersInv /\ cycles[k] \in Cycle
      /\ ~IsOpen(k) /\ ~cycles[k].found /\ k \in Nat \ {Null}
      /\ UNCHANGED <<log, flight, done, keys, history, straight, faults>>
  BY Domains DEF FullInv, IInv, Recover, Null
<1>3. start \in Nat
  BY <1>2, StartsAreTimes
<1>4. /\ row \in Cycle /\ row.found = TRUE /\ row.start = start
      /\ row.closed = cycles[k].closed /\ row.openedBy = cycles[k].openedBy
      /\ row.mapped = cycles[k].mapped
  BY <1>2, <1>3 DEF Cycle
<1>5. cycles' = [cycles EXCEPT ![k] = row]
  BY <1>1
<1> HIDE DEF row
<1>6. /\ DOMAIN cycles' = DOMAIN cycles /\ cycles'[k] = row
      /\ \A j \in DOMAIN cycles \ {k} : cycles'[j] = cycles[j]
      /\ \A j \in DOMAIN cycles : /\ cycles'[j].closed = cycles[j].closed
                                  /\ cycles'[j].openedBy = cycles[j].openedBy
                                  /\ PreviousClosed(j)' = PreviousClosed(j)
      /\ LogInv' /\ StraightInv' /\ CyclesArePeriods'
  BY <1>2, <1>4, <1>5, RowFilled
<1>7. IInv'
  BY <1>2, RecoverKeeps
<1>8. cycles[k].openedBy # Null => start = cycles[k].openedBy
  BY <1>1, <1>2 DEF RowsInv, StartsOf
<1>9. RowsInv'
  <2> SUFFICES ASSUME NEW j \in DOMAIN cycles
               PROVE  /\ cycles'[j].found => cycles'[j].closed # Null
                      /\ cycles'[j].mapped # Unevaluated => cycles'[j].found
                      /\ cycles'[j].openedBy # Null => cycles'[j].start = cycles'[j].openedBy
                      /\ cycles'[j].mapped \in Times \cup {Null, Unevaluated}
    BY <1>2, <1>6, LogStays DEF RowsInv
  <2>1. CASE j = k
    BY <1>2, <1>4, <1>6, <1>8, <2>1 DEF RowsInv, IsOpen
  <2>2. CASE j # k
    BY <1>2, <1>6, <2>2 DEF RowsInv
  <2> QED BY <2>1, <2>2
<1>10. ASSUME NEW o \in DOMAIN cycles, NEW u, Takes(o, u) PROVE Takes(o, u)'
  <2>1. cycles'[o].found
    BY <1>4, <1>6, <1>10 DEF Takes
  <2> QED BY <1>6, <1>10, <2>1 DEF Takes
<1>11. OwnersInv'
  <2> SUFFICES ASSUME NEW u \in 1..MaxTime, owner'[u] # Null, NEW o, o = owner'[u]
               PROVE  u \in Messages /\ Takes(o, u)'
    BY <1>2, LogStays DEF OwnersInv, Takes, PreviousClosed
  <2>1. CASE owner[u] # Null
    <3>1. o = owner[u]
      BY <1>1, <2>1
    <3>2. u \in Messages /\ Takes(o, u)
      BY <1>2, <2>1, <3>1 DEF OwnersInv
    <3> QED BY <1>10, <3>2 DEF Takes
  <2>2. CASE owner[u] = Null
    <3>1. o = k /\ u \in Messages /\ Within(k, start, u)
      BY <1>1, <2>2
    <3>2. PreviousClosed(k) < u /\ u <= cycles[k].closed + Skew
      BY <3>1 DEF Within
    <3> QED BY <1>4, <1>6, <3>1, <3>2 DEF Takes
  <2> QED BY <2>1, <2>2
<1>12. MessagesKept'
  <2> SUFFICES ASSUME straight, NEW j \in DOMAIN cycles, NEW u \in Messages, Sent(j, u)'
               PROVE  Kept(j, u)'
    BY <1>2, <1>6, LogStays DEF MessagesKept, Sent, Kept
  <2>1. u \in 1..MaxTime /\ u \in Nat \ {Null} /\ Periods
    BY <1>2, Events, Parts DEF FullInv
  <2>2. CASE j # k
    <3>1. Sent(j, u)
      BY <1>6, <2>2 DEF Sent
    <3>2. Kept(j, u)
      BY <3>1, Parts DEF FullInv
    <3>3. owner[u] # Null
      BY <1>2, <2>2, <3>2, Domains DEF Kept, Null
    <3>4. owner'[u] = owner[u] /\ owner[u] \in DOMAIN cycles
      BY <1>1, <1>2, <2>1, <3>3 DEF OwnersInv, Takes
    <3> QED BY <1>6, <3>2, <3>4 DEF Kept
  <2>3. CASE j = k
    <3>1. /\ cycles[k].openedBy # Null /\ cycles[k].openedBy < u
          /\ u < cycles[k].closed /\ start = cycles[k].openedBy
      BY <1>6, <1>8, <2>3 DEF Sent
    <3>2. CASE owner[u] = Null
      <4>1. cycles[k].openedBy \in Nat /\ cycles[k].closed \in Nat /\ Skew \in Nat
        BY <1>2, IntakeAssumption DEF Cycle, IntakeAssumption
      <4>2. PreviousClosed(k) < u
        <5>1. CASE k = 1
          BY <2>1, <5>1 DEF PreviousClosed, Null
        <5>2. CASE k # 1
          <6>1. k - 1 \in DOMAIN cycles /\ k - 1 < k
            BY <1>2, <5>2, Domains
          <6>2. /\ PreviousClosed(k) = cycles[k - 1].closed
                /\ cycles[k - 1].closed \in Nat
            BY <1>2, <5>2, <6>1, Domains DEF PreviousClosed, Cycle
          <6>3. cycles[k - 1].closed < cycles[k].openedBy
            BY <2>1, <6>1 DEF Periods
          <6> QED BY <2>1, <3>1, <4>1, <6>2, <6>3
        <5> QED BY <5>1, <5>2
      <4>3. Within(k, start, u)
        BY <2>1, <3>1, <4>1, <4>2 DEF Within
      <4>4. owner'[u] = k
        BY <1>1, <2>1, <3>2, <4>3
      <4> QED BY <2>3, <4>4 DEF Kept
    <3>3. CASE owner[u] # Null
      <4>1. PICK o \in Nat : o = owner[u] /\ o # Null
        BY <1>2, <2>1, <3>3 DEF TypeOK
      <4>2. o \in 1 .. k - 1 /\ u <= cycles[o].closed + Skew
        BY <1>2, <3>1, <4>1, TakenEarlier
      <4>3. owner'[u] = o /\ o \in DOMAIN cycles
        BY <1>1, <1>2, <2>1, <4>1 DEF OwnersInv, Takes
      <4> QED BY <1>6, <2>3, <4>2, <4>3 DEF Kept
    <3> QED BY <3>2, <3>3
  <2> QED BY <2>2, <2>3
<1>13. DepartmentRight'
  <2> SUFFICES ASSUME straight, NEW j \in DOMAIN cycles, cycles'[j].mapped # Unevaluated
               PROVE  RightFor(cycles[j])'
    BY <1>2, <1>6 DEF DepartmentRight, RightFor
  <2>1. j # k
    BY <1>2, <1>4, <1>6 DEF RowsInv
  <2> QED BY <1>2, <1>6, <2>1, OthersRight
<1> QED BY <1>6, <1>7, <1>9, <1>11, <1>12, <1>13 DEF FullInv
-----------------------------------------------------------------------------
(* Handled in order, the assignments recorded up to a time that is behind  *)
(* an answered event name the department of that time.                     *)
LEMMA DepartmentKnown ==
    ASSUME FullInv, straight, NEW d \in done, NEW x \in Int, x <= d
    PROVE  DepartmentAt(x) = IF RecordedBy(x) = Null THEN Unassigned
                             ELSE log[RecordedBy(x)].to
<1> DEFINE S == {s \in Times : s <= x /\ log[s].to # Unassigned}
<1>1. /\ TypeOK /\ LogInv /\ InOrder /\ Recorded
      /\ history \subseteq keys /\ keys \subseteq Tickets /\ done \subseteq Tickets
  BY DEF FullInv, IInv, TypeOK, StraightInv
<1>2. /\ Tickets \subseteq Times /\ Times \subseteq 1..MaxTime /\ Times \subseteq Nat
      /\ \A s \in Times \ Tickets : log[s].to = Unassigned
  BY <1>1, Events DEF LogInv, Messages
<1>3. \A s \in S : s \in keys /\ s <= x
  <2> SUFFICES ASSUME NEW s \in S PROVE s \in keys
    OBVIOUS
  <2>1. s \in Tickets /\ s \in Nat /\ d \in Nat /\ s <= d /\ log[s].to # Unassigned
    BY <1>1, <1>2
  <2>2. s \in done
    <3>1. CASE s = d
      BY <3>1
    <3>2. CASE s < d
      BY <1>1, <2>1, <3>2 DEF InOrder
    <3> QED BY <2>1, <3>1, <3>2
  <2> QED BY <1>1, <2>1, <2>2 DEF InOrder
<1>4. {h \in history : h <= x} \subseteq S
  BY <1>1, <1>2 DEF LogInv
<1>5. S \in SUBSET (1..MaxTime) /\ S \subseteq Nat
  BY <1>2
<1>6. DepartmentAt(x) = IF LastOf(S) = Null THEN Unassigned ELSE log[LastOf(S)].to
  BY DEF DepartmentAt
<1> HIDE DEF S
<1>7. CASE S = {}
  <2>1. {h \in history : h <= x} = {} /\ LastOf(S) = Null
    BY <1>4, <1>5, <1>7, LastIsGreatest
  <2> QED BY <1>6, <1>7, <2>1 DEF RecordedBy
<1>8. CASE S # {}
  <2>1. PICK m \in S : m = LastOf(S) /\ m # Null
    BY <1>5, <1>8, LastIsGreatest
  <2>2. \A s \in S : s <= m
    BY <1>5, <2>1, LastIsGreatest
  <2>3. m \in keys /\ m <= x /\ m \in Nat
    BY <1>3, <1>5
  <2>4. RecordedBy(m) # Null /\ log[RecordedBy(m)].to = log[m].to
    BY <1>1, <2>3 DEF Recorded
  <2>5. {h \in history : h <= x} = {h \in history : h <= m}
    <3>1. \A h \in history : h <= x => h <= m
      BY <1>4, <2>2
    <3>2. \A h \in history : h <= m => h <= x
      BY <1>1, <1>2, <2>3
    <3> QED BY <3>1, <3>2
  <2>6. RecordedBy(x) = RecordedBy(m)
    BY <2>5 DEF RecordedBy
  <2> QED BY <1>6, <2>1, <2>4, <2>6
<1> QED BY <1>7, <1>8

(* What a cycle is evaluated with is its department.                       *)
LEMMA EvaluatedRight ==
    ASSUME FullInv, straight, NEW k \in DOMAIN cycles, cycles[k].found,
           NEW row \in Cycle, row.closed = cycles[k].closed,
           row.openedBy = cycles[k].openedBy,
           row.mapped = LastOf(Assignments(k))
    PROVE  RightFor(row)
<1> DEFINE x == cycles[k].closed
           A == Assignments(k)
           H == {h \in history : h <= x}
<1>1. /\ TypeOK /\ Periods /\ RowsInv /\ cycles[k] \in Cycle
      /\ history \subseteq Times /\ history \subseteq Nat /\ history \subseteq 1..MaxTime
  <2>1. TypeOK /\ Periods /\ RowsInv
    BY Parts DEF FullInv, IInv
  <2>2. history \subseteq Times
    BY <2>1, Events DEF TypeOK
  <2> QED BY <2>1, <2>2, Events, Domains
<1>2. x \in done /\ x \in Nat
  BY <1>1, RowTimes DEF RowsInv
<1>3. DepartmentAt(x) = IF LastOf(H) = Null THEN Unassigned ELSE log[LastOf(H)].to
  <2>1. x \in Int /\ x <= x
    BY <1>2
  <2> QED BY <1>2, <2>1, DepartmentKnown DEF RecordedBy
<1>4. A = {t \in history : cycles[k].start <= t /\ t <= x}
  BY DEF Assignments
<1>5. cycles[k].start \in Nat
  BY <1>1 DEF Cycle
<1>6. A \in SUBSET (1..MaxTime) /\ H \in SUBSET (1..MaxTime) /\ A \subseteq H
  BY <1>1, <1>4
<1>7. CASE A # {}
  <2>1. PICK m \in A : m = LastOf(A) /\ m # Null /\ \A a \in A : a <= m
    <3> HIDE DEF A
    <3> QED BY <1>6, <1>7, LastIsGreatest
  <2>2. m \in H /\ m \in Nat /\ cycles[k].start <= m
    BY <1>1, <1>4, <1>6
  <2>3. \A h \in H : h <= m
    <3> SUFFICES ASSUME NEW h \in H PROVE h <= m
      OBVIOUS
    <3>1. h \in history /\ h \in Nat /\ h <= x
      BY <1>1
    <3>2. CASE cycles[k].start <= h
      BY <1>4, <2>1, <3>1, <3>2
    <3>3. CASE h < cycles[k].start
      BY <1>5, <2>2, <3>1, <3>3
    <3> QED BY <1>5, <3>1, <3>2, <3>3
  <2>4. LastOf(H) = m
    <3> HIDE DEF H
    <3> QED BY <1>6, <2>2, <2>3, LastIs
  <2>5. row.mapped = m
    BY <2>1
  <2> HIDE DEF A, H
  <2> QED BY <1>3, <2>1, <2>4, <2>5 DEF RightFor
<1>8. CASE A = {}
  <2>1. row.mapped = Null
    BY <1>6, <1>8, LastIsGreatest
  <2>2. CASE row.openedBy = Null
    BY <2>1, <2>2 DEF RightFor
  <2>3. CASE row.openedBy # Null
    <3>1. cycles[k].start = row.openedBy /\ row.openedBy \in Nat
      BY <1>1, <2>3 DEF RowsInv, Cycle
    <3>2. row.openedBy < x
      BY <1>1 DEF Periods, RowsInv, IsOpen
    <3>3. {h \in history : h <= row.openedBy - 1} = H
      <4>1. \A h \in history : h <= x => ~(row.openedBy <= h)
        BY <1>4, <1>8, <3>1
      <4>2. ASSUME NEW h \in history PROVE h <= row.openedBy - 1 <=> h <= x
        <5>1. h \in Nat /\ (h <= x => ~(row.openedBy <= h))
          BY <1>1, <4>1
        <5> QED BY <1>2, <3>1, <3>2, <5>1
      <4> QED BY <4>2
    <3>4. row.openedBy - 1 \in Int /\ row.openedBy - 1 <= x
      BY <1>2, <3>1, <3>2
    <3> HIDE DEF H
    <3>5. DepartmentAt(row.openedBy - 1)
            = IF LastOf(H) = Null THEN Unassigned ELSE log[LastOf(H)].to
      BY <1>2, <3>3, <3>4, DepartmentKnown DEF RecordedBy
    <3> QED BY <1>3, <2>1, <3>5 DEF RightFor
  <2> QED BY <2>2, <2>3
<1> QED BY <1>7, <1>8

LEMMA EvaluateFull ==
    ASSUME FullInv, NEW k \in DOMAIN cycles, Evaluate(k)
    PROVE  FullInv'
<1> DEFINE last == LastOf(Assignments(k))
           row == [cycles[k] EXCEPT !.mapped = last]
<1>1. /\ IInv /\ TypeOK /\ RowsInv /\ OwnersInv /\ cycles[k] \in Cycle /\ cycles[k].found
      /\ UNCHANGED <<log, flight, done, keys, history, owner, straight, faults>>
  BY Domains DEF FullInv, IInv, Evaluate
<1>2. last \in Times \cup {Null} /\ last \in Nat
  <2>1. Assignments(k) \in SUBSET (1..MaxTime) /\ Assignments(k) \subseteq Times
    BY <1>1, Events DEF Assignments, TypeOK
  <2>2. last \in Times \cup {Null}
    BY <2>1, LastIsGreatest
  <2> HIDE DEF last
  <2> QED BY <1>1, <2>2, Events DEF Null
<1> HIDE DEF last
<1>3. /\ row \in Cycle /\ row.found = cycles[k].found /\ row.start = cycles[k].start
      /\ row.closed = cycles[k].closed /\ row.openedBy = cycles[k].openedBy
      /\ row.mapped = last
  BY <1>1, <1>2 DEF Cycle
<1>4. cycles' = [cycles EXCEPT ![k] = row]
  BY DEF Evaluate, last
<1> HIDE DEF row
<1>5. /\ DOMAIN cycles' = DOMAIN cycles /\ cycles'[k] = row
      /\ \A j \in DOMAIN cycles \ {k} : cycles'[j] = cycles[j]
      /\ \A j \in DOMAIN cycles : /\ cycles'[j].closed = cycles[j].closed
                                  /\ cycles'[j].openedBy = cycles[j].openedBy
                                  /\ PreviousClosed(j)' = PreviousClosed(j)
      /\ LogInv' /\ StraightInv' /\ CyclesArePeriods'
  BY <1>1, <1>3, <1>4, RowFilled
<1>6. \A j \in DOMAIN cycles :
          /\ cycles'[j].found = cycles[j].found /\ cycles'[j].start = cycles[j].start
          /\ j # k => cycles'[j].mapped = cycles[j].mapped
  BY <1>3, <1>5
<1>7. RowsInv'
  <2> SUFFICES ASSUME NEW j \in DOMAIN cycles
               PROVE  /\ cycles'[j].found => cycles'[j].closed # Null
                      /\ cycles'[j].mapped # Unevaluated => cycles'[j].found
                      /\ cycles'[j].openedBy # Null => cycles'[j].start = cycles'[j].openedBy
                      /\ cycles'[j].mapped \in Times \cup {Null, Unevaluated}
    BY <1>1, <1>5, LogStays DEF RowsInv
  <2>1. cycles'[j].mapped # Unevaluated => cycles'[j].found
    BY <1>1, <1>6 DEF RowsInv
  <2>2. cycles'[j].mapped \in Times \cup {Null, Unevaluated}
    BY <1>1, <1>2, <1>3, <1>5 DEF RowsInv
  <2> QED BY <1>1, <1>5, <1>6, <2>1, <2>2 DEF RowsInv
<1>8. OwnersInv'
  BY <1>1, <1>5, <1>6, LogStays DEF OwnersInv, Takes
<1>9. MessagesKept'
  <2> SUFFICES ASSUME straight, NEW j \in DOMAIN cycles, NEW u \in Messages, Sent(j, u)'
               PROVE  Kept(j, u)'
    BY <1>1, <1>5, LogStays DEF MessagesKept, Sent, Kept
  <2>1. Sent(j, u)
    BY <1>5, <1>6 DEF Sent
  <2>2. Kept(j, u)
    BY <2>1, Parts DEF FullInv
  <2>3. 1 .. j - 1 \subseteq DOMAIN cycles
    BY <1>1, Domains
  <2> QED BY <1>1, <1>5, <2>2, <2>3 DEF Kept
<1>10. DepartmentRight'
  <2> SUFFICES ASSUME straight, NEW j \in DOMAIN cycles, cycles'[j].mapped # Unevaluated
               PROVE  RightFor(cycles[j])'
    BY <1>1, <1>5 DEF DepartmentRight, RightFor
  <2>1. CASE j = k
    <3>1. RightFor(row)
      BY <1>1, <1>3, EvaluatedRight DEF last
    <3>2. PICK r : r = row
      OBVIOUS
    <3>3. RightFor(r)
      BY <3>1, <3>2
    <3>4. RightFor(r)'
      BY <1>1, <3>3, RightUnchanged
    <3>5. cycles'[k] = r
      BY <1>5, <3>2
    <3> QED BY <2>1, <3>4, <3>5, RightNext
  <2>2. CASE j # k
    BY <1>1, <1>5, <2>2, OthersRight
  <2> QED BY <2>1, <2>2
<1> QED BY <1>1, <1>5, <1>7, <1>8, <1>9, <1>10, EvaluateKeeps DEF FullInv
-----------------------------------------------------------------------------
LEMMA InitFull == Init => FullInv
<1> SUFFICES ASSUME Init PROVE FullInv
  OBVIOUS
<1>1. /\ IInv /\ TypeOK /\ log = <<>> /\ cycles = <<>> /\ flight = {} /\ done = {}
      /\ keys = {} /\ history = {} /\ owner = [t \in 1..MaxTime |-> Null]
  BY InitIInv DEF Init, IInv
<1>2. DOMAIN log = {} /\ DOMAIN cycles = {}
  BY <1>1
<1>3. /\ Times = {} /\ Openings = {} /\ Closures = {} /\ Messages = {} /\ Turns = {}
      /\ Beginnings = {}
  BY <1>2 DEF Times, Openings, Closures, Messages, Turns, Beginnings
<1>4. LogInv /\ RowsInv /\ OwnersInv
  BY <1>1, <1>2, <1>3 DEF LogInv, RowsInv, OwnersInv
<1>5. InOrder /\ Recorded
  BY <1>1 DEF InOrder, Recorded
<1>6. OpenTurn
  BY <1>2, <1>3 DEF OpenTurn
<1>7. CyclesArePeriods /\ MessagesKept /\ DepartmentRight
  BY <1>2, <1>3 DEF CyclesArePeriods, MessagesKept, DepartmentRight
<1> QED BY <1>1, <1>4, <1>5, <1>6, <1>7 DEF FullInv, StraightInv

LEMMA StutterFull ==
    ASSUME FullInv, UNCHANGED vars
    PROVE  FullInv'
<1>1. /\ UNCHANGED <<log, done, cycles, owner, straight>>
      /\ UNCHANGED <<flight, keys, history, faults>>
  BY DEF vars
<1>2. IInv'
  BY <1>1 DEF FullInv, IInv, TypeOK, OpenIsLast, ClosuresApart, ClosuresFound,
              IsOpen, Tickets, Closures, Times
<1>3. LogInv'
  BY <1>1, LogInvStays DEF FullInv, LogInv
<1>4. straight' => InOrder' /\ Recorded'
  BY <1>1, LogStays DEF FullInv, StraightInv, InOrder, Recorded, RecordedBy
<1>5. /\ RowsInv' /\ OwnersInv' /\ CyclesArePeriods' /\ MessagesKept'
      /\ DepartmentRight' /\ (straight' => OpenTurn')
  BY <1>1, RowsStay
<1> QED BY <1>2, <1>3, <1>4, <1>5 DEF FullInv, StraightInv

THEOREM InductiveInOrder == Spec => []FullInv
<1>1. Init => FullInv
  BY InitFull
<1>2. ASSUME FullInv, Next PROVE FullInv'
  BY <1>2, HappenFull, DeliverFull, FinishFull, FailFull, RecoverFull, EvaluateFull
     DEF Next
<1>3. FullInv /\ [Next]_vars => FullInv'
  BY <1>2, StutterFull
<1> QED
  BY <1>1, <1>3, PTL DEF Spec

(* When each webhook of a ticket is handled once and in order, the rows    *)
(* that OpenCycle and CloseCycle write are the periods in which the ticket *)
(* was open, in their order, whatever the worker does in between.          *)
THEOREM OrderedPeriods == Spec => []CyclesArePeriods
<1>1. FullInv => CyclesArePeriods
  BY DEF FullInv
<1> QED
  BY <1>1, InductiveInOrder, PTL

(* Then every recovered message of a period is in the cycle of the period, *)
(* or in an earlier one that was closed at most the skew before: Recover   *)
(* leaves a message with the cycle that took it first.                     *)
THEOREM OrderedMessages == Spec => []MessagesKept
<1>1. FullInv => MessagesKept
  BY DEF FullInv
<1> QED
  BY <1>1, InductiveInOrder, PTL

(* And Evaluate, late as it may be, gives a cycle the department in which  *)
(* the ticket was closed, although only changes were recorded.             *)
THEOREM OrderedDepartments == Spec => []DepartmentRight
<1>1. FullInv => DepartmentRight
  BY DEF FullInv
<1> QED
  BY <1>1, InductiveInOrder, PTL
=============================================================================
