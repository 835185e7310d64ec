---------------------------- MODULE TicketIntake ----------------------------
(***************************************************************************)
(* From the events of a ticket to conversation cycles                      *)
(* (src/api/routes.py, src/core/conversation_cycle_repository.py,          *)
(* ticket_assignment_repository.py, finalization.py and the assignment of  *)
(* department_mapping.py).  DigiSac delivers each event as a webhook, late,*)
(* out of order or twice; the handlers of two webhooks interleave.  A      *)
(* closed cycle then takes its messages from the ticket's history and its  *)
(* department from the recorded assignments.                               *)
(*                                                                         *)
(* All statements are about one conversation and run under its advisory    *)
(* lock, so the module has one.  Events carry distinct times.              *)
(***************************************************************************)
EXTENDS Integers, Sequences, FiniteSetsExt

CONSTANTS Departments,
          Unassigned,    \* an event that names no department
          Skew,          \* CLOCK_SKEW
          MaxTime,       \* bound: what happens at DigiSac
          MaxDisorder,   \* bound: the same, with webhooks out of order
          MaxFaults      \* bound: redeliveries, lost assignments, failures

ASSUME IntakeAssumption ==
    /\ Unassigned \notin Departments
    /\ Skew \in Nat
    /\ MaxTime \in Nat /\ MaxDisorder \in 0..MaxTime /\ MaxFaults \in Nat

(* Times are 1, 2, ...; NULL and "not evaluated yet" are no times.         *)
Null == 0
Unevaluated == -1

VARIABLES log,       \* log[t]: what happened at DigiSac at time t
          flight,    \* events whose handler has yet to write the cycle
          done,      \* events whose handler finished
          keys,      \* ticket_assignment_event_keys
          history,   \* ticket_assignment_history, by the event of each row
          cycles,    \* conversation_processing_cycles, by sequence_number
          owner,     \* conversation_cycle_messages: the cycle of a message
          straight,  \* every event so far was handled once, in order
          faults     \* faults so far

vars == <<log, flight, done, keys, history, cycles, owner, straight, faults>>
server == <<flight, done, keys, history, cycles, owner, straight, faults>>
-----------------------------------------------------------------------------
(* opened: ticket.created; reopened: ticket.updated of an open ticket;     *)
(* silent: ticket.updated that says neither, or has no protocol.           *)
Kinds == {"opened", "reopened", "silent", "closed", "message"}
Occurrence == [kind : Kinds, to : Departments \cup {Unassigned}]

Times == DOMAIN log
Tickets == {t \in Times : log[t].kind # "message"}
Openings == {t \in Times : log[t].kind \in {"opened", "reopened"}}
Closures == {t \in Times : log[t].kind = "closed"}
Messages == Times \ Tickets

LastOf(S) == IF S = {} THEN Null ELSE Max(S)

(* The last opening or closure before t; a ticket that is older than the   *)
(* webhook is open without an opening.                                     *)
TurnBefore(t) == LastOf({s \in Openings \cup Closures : s < t})

(* closed and found: the row is open or waits, then has its snapshot.      *)
Cycle == [openedBy : Nat, start : Nat, closed : Nat, found : BOOLEAN,
          mapped : Nat \cup {Unevaluated}]

NewCycle(opening, closure) ==
    [openedBy |-> opening, start |-> opening, closed |-> closure,
     found |-> FALSE, mapped |-> Unevaluated]

Init ==
    /\ log = <<>>
    /\ flight = {} /\ done = {}
    /\ keys = {} /\ history = {}
    /\ cycles = <<>>
    /\ owner = [t \in 1..MaxTime |-> Null]
    /\ straight = TRUE
    /\ faults = 0

Fault ==
    /\ faults < MaxFaults
    /\ faults' = faults + 1
-----------------------------------------------------------------------------
(* What DigiSac does: a ticket is created once, updated at any time, and   *)
(* closed while it is open.                                                *)
Happen(kind, to) ==
    /\ Len(log) < IF straight THEN MaxTime ELSE MaxDisorder
    /\ kind = "opened" => Tickets = {} /\ to = Unassigned
    /\ kind = "closed" => TurnBefore(Len(log) + 1) \notin Closures
    /\ kind = "message" => to = Unassigned
    /\ kind = "silent" => to # Unassigned
    /\ log' = Append(log, [kind |-> kind, to |-> to])
    /\ UNCHANGED server

(* The chronologically last recorded assignment.                           *)
Latest == LastOf(history)

(* record_ticket_assignment: once per key, and only if it differs from the *)
(* last one recorded.                                                      *)
Assign(t) ==
    IF log[t].to = Unassigned \/ t \in keys
    THEN UNCHANGED <<keys, history>>
    ELSE /\ keys' = keys \cup {t}
         /\ history' = IF Latest # Null /\ log[Latest].to = log[t].to
                       THEN history
                       ELSE history \cup {t}

(* A webhook arrives.  The assignment is written first, in a transaction   *)
(* of its own whose failure is swallowed.                                  *)
Deliver(t) ==
    /\ t \notin flight
    /\ flight' = flight \cup {t}
    /\ \/ Assign(t) /\ (IF t \in done THEN Fault ELSE UNCHANGED faults)
       \/ log[t].to # Unassigned /\ Fault /\ UNCHANGED <<keys, history>>
    /\ straight' = /\ straight
                   /\ {s \in Tickets : s < t} \subseteq done
                   /\ t \notin done
                   /\ log[t].to # Unassigned => t \in keys'
    /\ straight' \/ Len(log) <= MaxDisorder
    /\ UNCHANGED <<log, done, cycles, owner>>

IsOpen(k) == cycles[k].closed = Null

(* Mutant of OpenCycle: the key of the opening is not stored.              *)
OpenCycleUnkeyed(t) ==
    IF \E k \in DOMAIN cycles : cycles[k].openedBy = t \/ IsOpen(k)
    THEN UNCHANGED cycles
    ELSE cycles' = Append(cycles, NewCycle(Null, Null))

(* create_open_cycle: nothing for a known event or while a cycle is open.  *)
OpenCycle(t) ==
    IF \E k \in DOMAIN cycles : cycles[k].openedBy = t \/ IsOpen(k)
    THEN UNCHANGED cycles
    ELSE cycles' = Append(cycles, NewCycle(t, Null))

(* Mutant of CloseCycle: a repeated closure is not recognized.             *)
CloseCycleAgain(t) ==
    IF \E k \in DOMAIN cycles : IsOpen(k)
    THEN cycles' = [k \in DOMAIN cycles |->
                       IF IsOpen(k) THEN [cycles[k] EXCEPT !.closed = t]
                                    ELSE cycles[k]]
    ELSE cycles' = Append(cycles, NewCycle(Null, t))

(* close_cycle: closes the open cycle, or records one without a beginning. *)
CloseCycle(t) ==
    IF \E k \in DOMAIN cycles : cycles[k].closed = t
    THEN UNCHANGED cycles
    ELSE IF \E k \in DOMAIN cycles : IsOpen(k)
         THEN cycles' = [k \in DOMAIN cycles |->
                            IF IsOpen(k) THEN [cycles[k] EXCEPT !.closed = t]
                                         ELSE cycles[k]]
         ELSE cycles' = Append(cycles, NewCycle(Null, t))

(* The handler writes the cycle and answers.                               *)
Finish(t) ==
    /\ t \in flight
    /\ \/ t \in Openings /\ OpenCycle(t)
       \/ t \in Closures /\ CloseCycle(t)
       \/ log[t].kind = "silent" /\ UNCHANGED cycles
    /\ flight' = flight \ {t}
    /\ done' = done \cup {t}
    /\ UNCHANGED <<log, keys, history, owner, straight, faults>>

(* The handler dies or raises after the assignment: DigiSac may try again. *)
Fail(t) ==
    /\ t \in flight
    /\ Fault
    /\ flight' = flight \ {t}
    /\ UNCHANGED <<log, done, keys, history, cycles, owner, straight>>
-----------------------------------------------------------------------------
(* get_previous_cycle.                                                     *)
PreviousClosed(k) == IF k = 1 THEN Null ELSE cycles[k - 1].closed

(* infer_cycle_start: the opening the webhook recorded, else the last one  *)
(* of the history, the creation of the ticket, the first message that is   *)
(* left, or the closure.  The history may lack its technical messages.     *)
StartsOf(k) ==
    LET end == cycles[k].closed
        technical == {t \in Openings : t <= end + Skew}
        created == {t \in Openings : /\ log[t].kind = "opened"
                                     /\ PreviousClosed(k) < t /\ t <= end}
        said == {t \in Messages : PreviousClosed(k) < t /\ t <= end + Skew}
        untold == IF created # {} THEN Max(created)
                  ELSE IF said # {} THEN Min(said) ELSE end IN
    IF cycles[k].start # Null THEN {cycles[k].start}
    ELSE IF technical # {} THEN {Max(technical), untold} ELSE {untold}

(* Mutant of Within: cycles are kept apart by the skew.                    *)
WithinApart(k, start, t) ==
    /\ PreviousClosed(k) + Skew < t
    /\ start - Skew <= t /\ t <= cycles[k].closed + Skew

(* normalize_history: the messages of cycle k.                             *)
Within(k, start, t) ==
    /\ PreviousClosed(k) < t
    /\ start - Skew <= t /\ t <= cycles[k].closed + Skew

(* The IA worker recovers the history of a closed cycle; a message that    *)
(* another cycle has stays there (save_cycle_messages).                    *)
Recover(k) ==
    /\ ~IsOpen(k) /\ ~cycles[k].found
    /\ \E start \in StartsOf(k) :
          /\ owner' = [t \in 1..MaxTime |->
                IF t \in Messages /\ owner[t] = Null /\ Within(k, start, t)
                THEN k ELSE owner[t]]
          /\ cycles' = [cycles EXCEPT ![k].found = TRUE, ![k].start = start]
    /\ UNCHANGED <<log, flight, done, keys, history, straight, faults>>

(* Mutant of Assignments: assignments of later cycles count (the defect    *)
(* that preceded the bounds).                                              *)
AssignmentsEver(k) == history

(* The recorded assignments within the persisted interval of cycle k.      *)
Assignments(k) ==
    {t \in history : cycles[k].start <= t /\ t <= cycles[k].closed}

(* evaluate_department_mapping picks the last of them, once per cycle.     *)
Evaluate(k) ==
    /\ cycles[k].found /\ cycles[k].mapped = Unevaluated
    /\ cycles' = [cycles EXCEPT ![k].mapped =
                     LastOf(Assignments(k))]
    /\ UNCHANGED <<log, flight, done, keys, history, owner, straight, faults>>

Next ==
    \/ \E kind \in Kinds, to \in Departments \cup {Unassigned} : Happen(kind, to)
    \/ \E t \in Tickets : Deliver(t) \/ Finish(t) \/ Fail(t)
    \/ \E k \in DOMAIN cycles : Recover(k) \/ Evaluate(k)

Spec == Init /\ [][Next]_vars
-----------------------------------------------------------------------------
(* Events, rows and owners have their types.                               *)
TypeOK ==
    /\ log \in Seq(Occurrence) /\ Len(log) <= MaxTime
    /\ flight \subseteq Tickets /\ done \subseteq Tickets
    /\ history \subseteq keys /\ keys \subseteq Tickets
    /\ cycles \in Seq(Cycle)
    /\ owner \in [1..MaxTime -> 0..Len(cycles)]
    /\ straight \in BOOLEAN /\ faults \in 0..MaxFaults

(* However webhooks interleave, only the last cycle of a conversation may  *)
(* be open, so the cycle before another is closed when its end is read.    *)
OpenIsLast == \A k \in DOMAIN cycles : IsOpen(k) => k = Len(cycles)

(* A closure that was answered closed exactly one cycle, for good,         *)
(* whatever is delivered late or twice.                                    *)
ClosureOnce ==
    \A t \in done \cap Closures :
        Cardinality({k \in DOMAIN cycles : cycles[k].closed = t}) = 1

(* The openings of a ticket that was not known to be open.                 *)
Beginnings == {t \in Openings : TurnBefore(t) \notin Openings}

(* Handled in order, the cycles are the periods in which the ticket was    *)
(* open: each begins and ends with the period, and they follow each other. *)
CyclesArePeriods ==
    straight =>
        /\ {cycles[k].closed : k \in DOMAIN cycles} \ {Null} = Closures \cap done
        /\ {cycles[k].openedBy : k \in DOMAIN cycles} \ {Null} = Beginnings \cap done
        /\ \A k \in DOMAIN cycles : IsOpen(k) \/ cycles[k].openedBy < cycles[k].closed
        /\ \A j, k \in DOMAIN cycles :
              j < k => cycles[j].closed # Null /\ cycles[j].closed < cycles[k].openedBy

(* Handled in order, a message sent while the ticket was open goes to the  *)
(* cycle of its period; only within the skew after its own closure may an  *)
(* earlier cycle have it.                                                  *)
MessagesKept ==
    straight =>
        \A k \in DOMAIN cycles : \A t \in Messages :
            /\ cycles[k].found
            /\ cycles[k].openedBy # Null
            /\ cycles[k].openedBy < t /\ t < cycles[k].closed
            => \/ owner[t] = k
               \/ /\ owner[t] \in 1 .. k - 1
                  /\ t <= cycles[owner[t]].closed + Skew

(* The department the ticket was in at time t.                             *)
DepartmentAt(t) ==
    LET last == LastOf({s \in Times : s <= t /\ log[s].to # Unassigned}) IN
    IF last = Null THEN Unassigned ELSE log[last].to

(* Handled in order, a cycle is evaluated with the department the ticket   *)
(* was closed in, and has one if it moved there while the cycle was open.  *)
DepartmentRight ==
    straight =>
        \A k \in DOMAIN cycles :
            cycles[k].mapped # Unevaluated =>
                IF cycles[k].mapped = Null
                THEN cycles[k].openedBy = Null \/
                     DepartmentAt(cycles[k].openedBy - 1) = DepartmentAt(cycles[k].closed)
                ELSE log[cycles[k].mapped].to = DepartmentAt(cycles[k].closed)
=============================================================================
