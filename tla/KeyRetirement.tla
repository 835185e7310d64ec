--------------------------- MODULE KeyRetirement ---------------------------
(***************************************************************************)
(* Removal of the single keys that the Redis version left behind: the      *)
(* views ia_status:* and ia_result:* (scripts/                             *)
(* retire_ia_redis_compatibility.py, kind "view") and the orphans of the   *)
(* removed debounce (scripts/redis_residue_cleanup.py, kind "orphan").     *)
(* Both keep a reviewed report between a dry run and an apply, and delete  *)
(* one key at a time.                                                      *)
(***************************************************************************)
EXTENDS Integers, FiniteSets

CONSTANTS ResultKeys,   \* keys of ia_result:*
          StatusKeys,   \* keys of ia_status:*
          OrphanKeys,   \* keys of the patterns of ORPHANED_KEY_SPECS
          Payloads,     \* values; of a result, each of its own processed_at
          Unreadable,   \* those that parse to no object with a processed_at
          None,         \* the value of an absent key
          MaxKeys,      \* --max-keys
          MaxWrites,    \* bound: writes of old producers
          ProducersDuringApply  \* do old producers run during an apply

Keys == ResultKeys \cup StatusKeys \cup OrphanKeys
Kinds == {"view", "orphan"}
PatternsOf(kind) ==
    IF kind = "view" THEN {ResultKeys, StatusKeys} ELSE {OrphanKeys}

ASSUME KeyAssumption ==
    /\ ResultKeys \cap StatusKeys = {}
    /\ (ResultKeys \cup StatusKeys) \cap OrphanKeys = {}
    /\ Unreadable \subseteq Payloads /\ None \notin Payloads
    /\ MaxKeys \in Nat \ {0} /\ MaxWrites \in Nat
    /\ ProducersDuringApply \in BOOLEAN

VARIABLES store,     \* store[k]: the value of a key
          durable,   \* durable[k]: payloads with a row in PostgreSQL
          producing, \* do instances of the Redis version run
          writes,    \* their writes so far
          keyReport, \* keyReport[kind]: the report file of each script
          keyOp,     \* the command that runs
          erased     \* history: every entry a command has deleted

world == <<store, durable, producing, writes>>
keyVars == <<world, keyReport, keyOp, erased>>
-----------------------------------------------------------------------------
Value == Payloads \cup {None}

NoKeyReport == [mode |-> "none", entries |-> {}, unmatched |-> FALSE,
             observed |-> FALSE]

(* todo: keys of the scan still to read, or to delete; entries: what was   *)
(* read; removed: history, what this apply deleted.                        *)
KeyIdle == [cmd |-> "none", kind |-> "none", step |-> "none", todo |-> {},
         entries |-> {}, unmatched |-> FALSE, removed |-> {}]

KeyInit ==
    /\ store = [k \in Keys |-> None]
    /\ durable = [k \in ResultKeys |-> {}]
    /\ producing = TRUE
    /\ writes = 0
    /\ keyReport = [kind \in Kinds |-> NoKeyReport]
    /\ keyOp = KeyIdle
    /\ erased = {}
-----------------------------------------------------------------------------
(* The old application, and Redis itself.                                  *)
Produce(k, v) ==
    /\ producing /\ writes < MaxWrites
    /\ store' = [store EXCEPT ![k] = v]
    /\ writes' = writes + 1
    /\ UNCHANGED <<durable, producing, keyReport, keyOp, erased>>

(* A result reaches PostgreSQL on its own path, before or after its view.  *)
Persist(k, v) ==
    /\ durable' = [durable EXCEPT ![k] = @ \cup {v}]
    /\ UNCHANGED <<store, producing, writes, keyReport, keyOp, erased>>

Expire(k) ==
    /\ store[k] # None
    /\ store' = [store EXCEPT ![k] = None]
    /\ UNCHANGED <<durable, producing, writes, keyReport, keyOp, erased>>

SwitchProducers ==
    /\ producing \/ ProducersDuringApply \/ keyOp.cmd # "apply"
    /\ producing' = ~producing
    /\ UNCHANGED <<store, durable, writes, keyReport, keyOp, erased>>
-----------------------------------------------------------------------------
(* An inventory scans the names, refuses more than the limit, and reads    *)
(* one key after the other.  Of a view it keeps a digest of key and value, *)
(* of an orphan a digest of the key alone.                                 *)
Present(pattern) == {k \in pattern : store[k] # None}

ScanKeys ==
    /\ keyOp.step = "scan"
    /\ LET patterns == PatternsOf(keyOp.kind)
       IN  keyOp' = IF \A p \in patterns : Cardinality(Present(p)) <= MaxKeys
                    THEN [keyOp EXCEPT !.step = "read",
                            !.todo = UNION {Present(p) : p \in patterns}]
                    ELSE KeyIdle
    /\ UNCHANGED <<world, keyReport, erased>>

KeyEntry(k, v) == <<k, None>>
ViewEntry(k, v) == <<k, v>>
Entry(k, v) == IF k \in OrphanKeys THEN KeyEntry(k, v) ELSE ViewEntry(k, v)

(* A legible result without its row blocks the apply.                      *)
UnmatchedResult(k, v) ==
    k \in ResultKeys /\ v \in Payloads \ Unreadable /\ v \notin durable[k]

ReadKey(k) ==
    /\ keyOp.step = "read"
    /\ k \in keyOp.todo
    /\ keyOp' = [keyOp EXCEPT !.todo = @ \ {k},
                        !.entries = @ \cup {Entry(k, store[k])},
                        !.unmatched = @ \/ UnmatchedResult(k, store[k])]
    /\ UNCHANGED <<world, keyReport, erased>>
-----------------------------------------------------------------------------
KeyDryRun(kind) ==
    /\ keyOp = KeyIdle
    /\ keyOp' = [KeyIdle EXCEPT !.cmd = "dry", !.kind = kind, !.step = "scan"]
    /\ UNCHANGED <<world, keyReport, erased>>

WriteKeyReport ==
    /\ keyOp.cmd = "dry" /\ keyOp.step = "read" /\ keyOp.todo = {}
    /\ keyReport' = [keyReport EXCEPT ![keyOp.kind] =
                    [mode |-> "dry-run", entries |-> keyOp.entries,
                     unmatched |-> keyOp.unmatched, observed |-> FALSE]]
    /\ keyOp' = KeyIdle
    /\ UNCHANGED <<world, erased>>

(* The observation window of a views report passes.                        *)
Observe ==
    /\ keyReport["view"].mode = "dry-run" /\ ~keyReport["view"].observed
    /\ keyReport' = [keyReport EXCEPT !["view"].observed = TRUE]
    /\ UNCHANGED <<world, keyOp, erased>>

(* What an apply checks before it opens Redis.                             *)
ViewReportUsable(r) == r.mode = "dry-run" /\ r.observed /\ ~r.unmatched
OrphanReportUsable(r) == r.mode = "dry-run"

KeyApply(kind) ==
    /\ keyOp = KeyIdle
    /\ ProducersDuringApply \/ ~producing
    /\ IF kind = "view" THEN ViewReportUsable(keyReport[kind])
                        ELSE OrphanReportUsable(keyReport[kind])
    /\ keyOp' = [KeyIdle EXCEPT !.cmd = "apply", !.kind = kind, !.step = "scan"]
    /\ UNCHANGED <<world, keyReport, erased>>

(* Mutant of Reviewed: the second inventory is not compared.               *)
ReviewedAnything == TRUE

Reviewed == keyOp.entries \subseteq keyReport[keyOp.kind].entries

(* Everything that the second inventory shows must be in the report.       *)
CheckKeys ==
    /\ keyOp.cmd = "apply" /\ keyOp.step = "read" /\ keyOp.todo = {}
    /\ keyOp' = IF Reviewed
             THEN [keyOp EXCEPT !.step = "delete",
                             !.todo = {entry[1] : entry \in keyOp.entries}]
             ELSE KeyIdle
    /\ UNCHANGED <<world, keyReport, erased>>

DeleteKey(k) ==
    /\ keyOp.step = "delete"
    /\ k \in keyOp.todo
    /\ store' = [store EXCEPT ![k] = None]
    /\ LET gone == IF store[k] = None THEN {} ELSE {<<k, store[k]>>}
       IN  /\ keyOp' = [keyOp EXCEPT !.todo = @ \ {k}, !.removed = @ \cup gone]
           /\ erased' = erased \cup gone
    /\ UNCHANGED <<durable, producing, writes, keyReport>>

(* The last inventory changes nothing but the file of the result; the      *)
(* report stays one of a dry run.                                          *)
FinishKeys ==
    /\ keyOp.step = "delete" /\ keyOp.todo = {}
    /\ keyOp' = KeyIdle
    /\ UNCHANGED <<world, keyReport, erased>>

(* The command is killed or loses a connection: what it deleted is gone.   *)
InterruptKeys ==
    /\ keyOp # KeyIdle
    /\ keyOp' = KeyIdle
    /\ UNCHANGED <<world, keyReport, erased>>
-----------------------------------------------------------------------------
KeyNext ==
    \/ SwitchProducers \/ ScanKeys \/ WriteKeyReport \/ Observe \/ CheckKeys
    \/ FinishKeys \/ InterruptKeys
    \/ \E k \in Keys :
        \/ Expire(k) \/ ReadKey(k) \/ DeleteKey(k)
        \/ \E v \in Payloads : Produce(k, v)
    \/ \E k \in ResultKeys, v \in Payloads \ Unreadable : Persist(k, v)
    \/ \E kind \in Kinds : KeyDryRun(kind) \/ KeyApply(kind)

KeySpec == KeyInit /\ [][KeyNext]_keyVars
-----------------------------------------------------------------------------
(* Keys, reports and the command keep their shape.                         *)
KeyTypeOK ==
    /\ store \in [Keys -> Value]
    /\ durable \in [ResultKeys -> SUBSET Payloads]
    /\ producing \in BOOLEAN
    /\ writes \in 0..MaxWrites
    /\ keyReport \in [Kinds -> [mode : {"none", "dry-run"},
                             entries : SUBSET (Keys \X Value),
                             unmatched : BOOLEAN, observed : BOOLEAN]]
    /\ keyOp \in [cmd : {"none", "dry", "apply"}, kind : Kinds \cup {"none"},
               step : {"none", "scan", "read", "delete"}, todo : SUBSET Keys,
               entries : SUBSET (Keys \X Value), unmatched : BOOLEAN,
               removed : SUBSET (Keys \X Value)]
    /\ erased \subseteq Keys \X Value

(* No legible result is deleted from Redis before PostgreSQL holds it: not *)
(* one that replaced a reviewed one under its key, not one written between *)
(* dry run and apply, not after an apply that died and was run again.      *)
(* "valid legacy results without a durable match block compatibility       *)
(* retirement"                                                             *)
ErasedResultsDurable ==
    \A k \in ResultKeys, v \in Payloads \ Unreadable :
        <<k, v>> \in erased => v \in durable[k]

(* What an apply deletes was in the report that it was given: of a view    *)
(* the very value, of an orphan the key.                                   *)
ErasedWereReviewed ==
    \A entry \in keyOp.removed :
        Entry(entry[1], entry[2]) \in keyReport[keyOp.kind].entries
=============================================================================
