-------------------------- MODULE LegacyRetirement --------------------------
(***************************************************************************)
(* Retirement of what the Redis version of the application left behind     *)
(* (scripts/retire_validated_legacy_redis_queues.py and the scripts it     *)
(* coordinates).  Two lists per family of work remain in Redis.  A dry run *)
(* writes a report of digests; an apply reads the report, takes a second   *)
(* snapshot, compares, and removes one entry at a time.  The application,  *)
(* old versions of it too, may run meanwhile.                              *)
(*                                                                         *)
(* A list is a bag of values: pushes append and LREM takes an exact value, *)
(* so what the scripts compare of a list depends on the counts only.       *)
(***************************************************************************)
EXTENDS Integers, FiniteSets, Sequences, Functions

CONSTANTS Order,         \* the families, in the order they are inventoried
          Values,        \* the texts a list may hold, each of its own message
          Malformed,     \* those that name no message or cycle
          InitialLists,  \* what the old application left in the lists
          MaxItems,      \* --max-items
          MaxPushes,     \* bound: pushes of old instances
          OldInstancesDuringApply  \* do old instances run during an apply

Families == Range(Order)
Lists == {"queue", "dead"}
Bag == [Values -> Nat]
Nothing == [v \in Values |-> 0]

ASSUME RetirementAssumption ==
    /\ Order \in Seq({"ia", "audio", "image"}) /\ Order # <<>>
    /\ Malformed \subseteq Values
    /\ InitialLists \in [Families -> [Lists -> Bag]]
    /\ MaxItems \in Nat \ {0} /\ MaxPushes \in Nat
    /\ OldInstancesDuringApply \in BOOLEAN

VARIABLES list,      \* list[f][q]: the Redis lists
          row,       \* row[f][v]: the PostgreSQL row that a value names
          report,    \* the report of the coordinator
          op,        \* the command that runs
          old,       \* do instances of the Redis version run
          pushes,    \* their pushes so far
          owed       \* history: owed[f][q], pushed and not consumed

vars == <<list, row, report, op, old, pushes, owed>>
-----------------------------------------------------------------------------
(* transient: a media row that failed with a transient error text; a cycle *)
(* row fails in one way.                                                   *)
Status == {"absent", "pending", "completed", "failed", "transient"}

Size(b) == FoldFunction(+, 0, b)

(* What a report keeps of a family: does a list hold more than was read,   *)
(* and the values of LRANGE, as digests.                                   *)
Inventory == [truncated : BOOLEAN, seen : [Lists -> Bag]]
NoInventory == [truncated |-> FALSE, seen |-> [q \in Lists |-> Nothing]]
NoInventories == [f \in Families |-> NoInventory]

NoReport == [mode |-> "none", inv |-> NoInventories, applied |-> {}]

(* left: families still to inventory; total: LLEN; plan: entries that may  *)
(* go; retry: messages with a dead letter and a transient failure;         *)
(* removed: history, what this apply removed.                              *)
Idle == [cmd |-> "none", step |-> "none", fam |-> "none", left |-> <<>>,
         total |-> [q \in Lists |-> 0], inv |-> NoInventories,
         plan |-> [q \in Lists |-> Nothing], retry |-> {},
         removed |-> [q \in Lists |-> Nothing]]

Init ==
    /\ list = InitialLists
    /\ row = [f \in Families |-> [v \in Values |-> "absent"]]
    /\ report = NoReport
    /\ op = Idle
    /\ old = TRUE
    /\ pushes = 0
    /\ owed = InitialLists
-----------------------------------------------------------------------------
(* The application: old instances push and pop until they are stopped;     *)
(* rows move whatever the version.                                         *)
OldMayRun == OldInstancesDuringApply \/ op.cmd \notin {"apply", "typed"}

Push(f, q, v) ==
    /\ old
    /\ pushes < MaxPushes
    /\ pushes' = pushes + 1
    /\ list' = [list EXCEPT ![f][q][v] = @ + 1]
    /\ owed' = [owed EXCEPT ![f][q][v] = @ + 1]
    /\ UNCHANGED <<row, report, op, old>>

Consume(f, v) ==
    /\ old
    /\ list[f]["queue"][v] > 0
    /\ list' = [list EXCEPT ![f]["queue"][v] = @ - 1]
    /\ owed' = [owed EXCEPT ![f]["queue"][v] = @ - 1]
    /\ UNCHANGED <<row, report, op, old, pushes>>

SwitchVersion ==
    /\ old \/ OldMayRun
    /\ old' = ~old
    /\ UNCHANGED <<list, row, report, op, pushes, owed>>

Moves == {<<"absent", "pending">>, <<"pending", "completed">>,
          <<"pending", "failed">>, <<"pending", "transient">>,
          <<"failed", "pending">>, <<"transient", "pending">>}

MoveRow(f, v) ==
    /\ v \notin Malformed
    /\ \E m \in Moves :
        /\ row[f][v] = m[1]
        /\ m[2] = "transient" => f # "ia"
        /\ row' = [row EXCEPT ![f][v] = m[2]]
    /\ UNCHANGED <<list, report, op, old, pushes, owed>>
-----------------------------------------------------------------------------
(* Inventories: LLEN of both lists, then LRANGE of both and the look-up of *)
(* the rows they name.  A longer list shows its first MaxItems entries.    *)
Prefixes(b) ==
    IF Size(b) > MaxItems
    THEN {s \in [Values -> 0..MaxItems] :
            (\A v \in Values : s[v] <= b[v]) /\ Size(s) = MaxItems}
    ELSE {b}

RemovableIA(q, status) ==
    /\ status # "absent"
    /\ q = "queue" \/ status \in {"completed", "failed"}

RemovableAudio(q, status) ==
    /\ status # "absent"
    /\ q = "queue" \/ status \in {"completed", "failed"}

RemovableImage(q, status) ==
    /\ status # "absent"
    /\ q = "queue" \/ status \in {"completed", "failed"}

(* Mutant of Removable: an entry may go without a row.                     *)
RemovableUnmatched(f, q, status) == q = "queue" \/ status = "completed"

Removable(f, q, status) ==
    \/ f = "ia" /\ RemovableIA(q, status)
    \/ f = "audio" /\ RemovableAudio(q, status)
    \/ f = "image" /\ RemovableImage(q, status)

IsTruncated(seen) == \E q \in Lists : op.total[q] > Size(seen[q])

Eligible(f, seen) ==
    [q \in Lists |-> [v \in Values |->
        IF Removable(f, q, row[f][v]) THEN seen[q][v] ELSE 0]]

TransientDeadLetters(f, seen) ==
    {v \in Values : seen["dead"][v] > 0 /\ row[f][v] = "transient"}

(* Where the command goes after the last inventory of its loop.            *)
AfterInventory ==
    CASE op.cmd = "dry" -> {"write"}
      [] op.cmd = "apply" -> {"compare"}
      [] op.cmd = "typed" -> {"retire"}
      [] OTHER -> {"recover", "retire", "end"}

Count ==
    /\ op.step = "count"
    /\ op' = [op EXCEPT !.step = "read",
                        !.total = [q \in Lists |->
                                     Size(list[Head(op.left)][q])]]
    /\ UNCHANGED <<list, row, report, old, pushes, owed>>

Read ==
    /\ op.step = "read"
    /\ \E queue \in Prefixes(list[Head(op.left)]["queue"]),
          dead \in Prefixes(list[Head(op.left)]["dead"]),
          next \in IF Len(op.left) > 1 THEN {"count"} ELSE AfterInventory :
        LET f == Head(op.left)
            seen == [q \in Lists |-> IF q = "queue" THEN queue ELSE dead]
            acts == op.cmd \in {"typed", "alone"}
        IN  op' = IF next = "end" THEN Idle
                  ELSE [op EXCEPT
                          !.step = next, !.left = Tail(@), !.total = Idle.total,
                          !.inv[f] = [truncated |-> IsTruncated(seen),
                                        seen |-> IF acts THEN Idle.plan
                                                         ELSE seen],
                          !.plan = IF acts THEN Eligible(f, seen) ELSE @,
                          !.retry = IF next = "recover"
                                    THEN TransientDeadLetters(f, seen) ELSE {}]
    /\ UNCHANGED <<list, row, report, old, pushes, owed>>
-----------------------------------------------------------------------------
(* The coordinator: a dry run inventories every family and writes the      *)
(* report; an apply retires one family under that report.                  *)
DryRun ==
    /\ op = Idle
    /\ op' = [Idle EXCEPT !.cmd = "dry", !.step = "count", !.left = Order]
    /\ UNCHANGED <<list, row, report, old, pushes, owed>>

Complete(inv) == \A f \in Families : ~inv[f].truncated

(* No apply accepts the report of an unhealthy runtime or of a truncated   *)
(* inventory, so what such a report lists is left out.                     *)
WriteReport ==
    /\ op.step = "write"
    /\ \E healthy \in BOOLEAN :
        report' = IF healthy /\ Complete(op.inv)
                  THEN [mode |-> "dry_run", inv |-> op.inv, applied |-> {}]
                  ELSE [NoReport EXCEPT !.mode = "unusable"]
    /\ op' = Idle
    /\ UNCHANGED <<list, row, old, pushes, owed>>

Apply(f) ==
    /\ op = Idle
    /\ report.mode = "dry_run"
    /\ f \notin report.applied
    /\ OldInstancesDuringApply \/ ~old
    /\ op' = [Idle EXCEPT !.cmd = "apply", !.step = "count", !.fam = f,
                          !.left = Order]
    /\ UNCHANGED <<list, row, report, old, pushes, owed>>

(* Mutant of SecondSnapshot: not compared with the report.                 *)
SecondSnapshotComplete == Complete(op.inv)

(* The second snapshot: a family not applied yet must show the same        *)
(* values, one that was applied must not have grown.                       *)
SecondSnapshot ==
    /\ Complete(op.inv)
    /\ \A f \in Families, q \in Lists :
        LET before == report.inv[f].seen[q]
            now == op.inv[f].seen[q]
        IN  IF f \in report.applied THEN Size(now) <= Size(before)
                                    ELSE now = before

Compare ==
    /\ op.step = "compare"
    /\ op' = IF SecondSnapshot
             THEN [op EXCEPT !.cmd = "typed", !.step = "count",
                             !.left = <<op.fam>>, !.inv = NoInventories]
             ELSE Idle
    /\ UNCHANGED <<list, row, report, old, pushes, owed>>

Exhausted(q) == \A v \in Values : op.plan[q][v] = 0

LRem(f, q, v) == IF list[f][q][v] > 0 THEN list[f][q][v] - 1 ELSE 0

(* LREM of one exact value, the queue before the dead letters; it removes  *)
(* nothing when the value is gone.                                         *)
RemoveEntry(q, v) ==
    /\ op.step = "retire"
    /\ ~op.inv[op.fam].truncated
    /\ op.plan[q][v] > 0
    /\ q = "queue" \/ Exhausted("queue")
    /\ list' = [list EXCEPT ![op.fam][q][v] = LRem(op.fam, q, v)]
    /\ op' = [op EXCEPT !.plan[q][v] = @ - 1,
                        !.removed[q][v] =
                            @ + list[op.fam][q][v] - LRem(op.fam, q, v)]
    /\ UNCHANGED <<row, report, old, pushes, owed>>

(* The removals are done, or the inventory is truncated and nothing was    *)
(* removed; only the coordinator records what it did.                      *)
FinishRetire ==
    /\ op.step = "retire"
    /\ op.inv[op.fam].truncated \/ \A q \in Lists : Exhausted(q)
    /\ report' = IF op.cmd = "typed" /\ ~op.inv[op.fam].truncated
                 THEN [report EXCEPT !.applied = @ \cup {op.fam}]
                 ELSE report
    /\ op' = Idle
    /\ UNCHANGED <<list, row, old, pushes, owed>>

(* The command of one family on its own: an inventory, then, as its        *)
(* arguments ask, the recovery of transient dead letters and a removal.    *)
Standalone(f) ==
    /\ op = Idle
    /\ op' = [Idle EXCEPT !.cmd = "alone", !.step = "count", !.fam = f,
                          !.left = <<f>>]
    /\ UNCHANGED <<list, row, report, old, pushes, owed>>

RecoverTransient(v) ==
    /\ op.step = "recover" /\ op.fam # "ia"
    /\ v \in op.retry
    /\ row' = IF row[op.fam][v] \in {"failed", "transient"}
              THEN [row EXCEPT ![op.fam][v] = "pending"] ELSE row
    /\ op' = [op EXCEPT !.retry = @ \ {v}]
    /\ UNCHANGED <<list, report, old, pushes, owed>>

FinishRecover ==
    /\ op.step = "recover"
    /\ op.fam = "ia" \/ op.retry = {}
    /\ op' \in {Idle, [op EXCEPT !.step = "retire", !.retry = {}]}
    /\ UNCHANGED <<list, row, report, old, pushes, owed>>

(* The command is killed or loses a connection: what it wrote stays.       *)
Interrupt ==
    /\ op # Idle
    /\ op' = Idle
    /\ UNCHANGED <<list, row, report, old, pushes, owed>>
-----------------------------------------------------------------------------
Application ==
    \/ \E f \in Families, v \in Values :
        \/ \E q \in Lists : Push(f, q, v)
        \/ Consume(f, v)
        \/ MoveRow(f, v)
    \/ SwitchVersion

Command ==
    \/ DryRun \/ Count \/ Read \/ WriteReport \/ Compare
    \/ \E f \in Families : Apply(f) \/ Standalone(f)
    \/ \E v \in Values :
        \/ RecoverTransient(v)
        \/ \E q \in Lists : RemoveEntry(q, v)
    \/ FinishRetire \/ FinishRecover \/ Interrupt

Next == Application \/ Command

Spec == Init /\ [][Next]_vars
-----------------------------------------------------------------------------
(* The state stays in its shape; counts are never negative.                *)
TypeOK ==
    /\ list \in [Families -> [Lists -> Bag]]
    /\ row \in [Families -> [Values -> Status]]
    /\ report.inv \in [Families -> Inventory]
    /\ report.applied \subseteq Families
    /\ op.inv \in [Families -> Inventory]
    /\ op.removed \in [Lists -> Bag]
    /\ owed \in [Families -> [Lists -> Bag]]
    /\ pushes \in 0..MaxPushes

(* An entry that names no PostgreSQL row, or nothing at all, stays in its  *)
(* list, whatever commands run, race with the application or die half-way. *)
(* "Unknown and malformed values remain available for investigation."      *)
EvidenceKept ==
    \A f \in Families, q \in Lists, v \in Values :
        row[f][v] = "absent" => list[f][q][v] = owed[f][q][v]

(* An apply of the coordinator removes only entries of the report it was   *)
(* given, and of each no more than the report shows.                       *)
RemovedWereReviewed ==
    op.cmd = "typed" =>
        \A q \in Lists, v \in Values :
            op.removed[q][v] <= report.inv[op.fam].seen[q][v]
=============================================================================
