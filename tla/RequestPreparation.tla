------------------------- MODULE RequestPreparation -------------------------
(***************************************************************************)
(* What decides whether a finished cycle may become a Request              *)
(* (core/acessorias_preparation.py): the outcome of its contact, then the  *)
(* mapping of its department, each in a transaction of its own, while      *)
(* administrators change links and rules and the directory is republished. *)
(* A worker may be interrupted and start again; workers may overlap.       *)
(***************************************************************************)
EXTENDS DepartmentRules

CONSTANT MaxStarts      \* bound on operations begun

ASSUME PreparationAssumption == MaxStarts \in Nat

VARIABLES prep,      \* prep[w]: the preparation of a worker
          answers,   \* history: what preparations of a cycle answered
          starts     \* operations begun so far

prepVars == <<prep, answers, starts>>
preparationVars ==
    <<company, identityVars, cycleLock, directoryVars, rulesVars, prepVars>>

-----------------------------------------------------------------------------
NoPrep == [cycle |-> None, stage |-> "none"]
Prep == [cycle : Cycles \cup {None}, stage : {"none", "identity", "mapping"}]
Answers == {"identity", "mapping", "ready"}

PreparationInit ==
    /\ IdentityInit /\ RulesInit
    /\ prep = [w \in Workers |-> NoPrep]
    /\ answers = [cy \in Cycles |-> {}]
    /\ starts = 0

Free(w) == task[w] = Idle /\ job[w] = NoJob

Count == starts < MaxStarts /\ starts' = starts + 1

(* The cycle is terminal and its contact known: otherwise the preparation  *)
(* ends here, with nothing done.                                           *)
Prepare(w, cy) ==
    /\ Free(w) /\ prep[w] = NoPrep
    /\ Count
    /\ prep' = [prep EXCEPT ![w] = [cycle |-> cy, stage |-> "identity"]]
    /\ UNCHANGED <<company, identityVars, cycleLock, directoryVars, rulesVars,
                   answers>>

ResolveIdentity(w) ==
    /\ prep[w].stage = "identity"
    /\ Free(w)
    /\ BeginResolve(w, prep[w].cycle)
    /\ UNCHANGED <<directoryVars, rulesVars, prepVars>>

Answer(w, answer) ==
    /\ answers' = [answers EXCEPT ![prep[w].cycle] = @ \cup {answer}]
    /\ prep' = [prep EXCEPT ![w] = NoPrep]

(* The outcome is on record, from this worker or another.                  *)
TakeIdentity(w) ==
    /\ prep[w].stage = "identity"
    /\ Free(w) /\ cycleLock[prep[w].cycle] = None
    /\ resolution[prep[w].cycle] # Unresolved
    /\ IF resolution[prep[w].cycle].state = "confirmed"
       THEN prep' = [prep EXCEPT ![w].stage = "mapping"] /\ UNCHANGED answers
       ELSE Answer(w, "identity")
    /\ UNCHANGED <<company, identityVars, cycleLock, directoryVars, rulesVars,
                   starts>>

EvaluateMapping(w) ==
    /\ prep[w].stage = "mapping"
    /\ Free(w)
    /\ BeginEvaluate(w, prep[w].cycle)
    /\ UNCHANGED <<company, identityVars, prepVars>>

TakeMapping(w) ==
    /\ prep[w].stage = "mapping"
    /\ Free(w) /\ cycleLock[prep[w].cycle] = None
    /\ evaluation[prep[w].cycle] # NoEvaluation
    /\ Answer(w, IF evaluation[prep[w].cycle].state = "resolved" THEN "ready"
                 ELSE "mapping")
    /\ UNCHANGED <<company, identityVars, cycleLock, directoryVars, rulesVars,
                   starts>>

(* The finalization worker dies, or its lease is lost, between the two.    *)
Abandon(w) ==
    /\ prep[w] # NoPrep /\ Free(w)
    /\ prep' = [prep EXCEPT ![w] = NoPrep]
    /\ UNCHANGED <<company, identityVars, cycleLock, directoryVars, rulesVars,
                   answers, starts>>
-----------------------------------------------------------------------------
AdministerLinks(w) ==
    /\ Free(w) /\ prep[w] = NoPrep
    /\ Administer(w)
    /\ Count
    /\ UNCHANGED <<directoryVars, rulesVars, prep, answers>>

RunTask(w) == Transact(w) /\ UNCHANGED <<directoryVars, rulesVars, prepVars>>

AdministerRules(w) ==
    /\ Free(w) /\ prep[w] = NoPrep
    /\ \E d \in Departments, t \in Targets \cup {None}, state \in RuleState,
          key \in OpKeys \cup {None} : BeginConfigure(w, d, t, state, key)
    /\ Count
    /\ UNCHANGED <<company, identityVars, cycleLock, prep, answers>>

RunConfiguration(w) ==
    /\ LockRules(w) \/ Configure(w)
    /\ UNCHANGED <<company, identityVars, cycleLock, prepVars>>

RunEvaluation(w) ==
    /\ ReadRule(w) \/ ReadTarget(w) \/ ReadCompany(w) \/ Evaluate(w)
    /\ UNCHANGED <<company, identityVars, prepVars>>

RollBack(w) == FailJob(w) /\ UNCHANGED <<company, identityVars, prepVars>>

(* A publication changes one fact; a relation needs both of its ends.      *)
PublishCompany(x) ==
    /\ changes < MaxChanges /\ changes' = changes + 1
    /\ \E state \in Directory : SetCompany(x, state)
    /\ related' = {r \in related : r[1] = x => company'[x] # "unavailable"}
    /\ UNCHANGED <<target, rulesVars, prepVars>>

PublishTarget(t) ==
    /\ changes < MaxChanges /\ changes' = changes + 1
    /\ IF t \in target
       THEN target' = target \ {t} /\ related' = {r \in related : r[2] # t}
       ELSE target' = target \cup {t} /\ UNCHANGED related
    /\ UNCHANGED <<company, identityVars, cycleLock, rulesVars, prepVars>>

PublishRelation(x, t) ==
    /\ changes < MaxChanges /\ changes' = changes + 1
    /\ company[x] # "unavailable" /\ t \in target
    /\ related' = IF <<x, t>> \in related THEN related \ {<<x, t>>}
                  ELSE related \cup {<<x, t>>}
    /\ UNCHANGED <<company, identityVars, cycleLock, target, rulesVars, prepVars>>

(* DigiSac departments are added to, never removed.                        *)
LearnDepartment(d) ==
    /\ d \notin known
    /\ known' = known \cup {d}
    /\ UNCHANGED <<company, identityVars, cycleLock, directoryVars, rules,
                   transition, evaluation, job, prepVars>>
-----------------------------------------------------------------------------
Work(w) ==
    \/ AdministerLinks(w) \/ RunTask(w)
    \/ AdministerRules(w) \/ RunConfiguration(w)
    \/ RunEvaluation(w) \/ RollBack(w)
    \/ \E cy \in Cycles : Prepare(w, cy)
    \/ ResolveIdentity(w) \/ TakeIdentity(w)
    \/ EvaluateMapping(w) \/ TakeMapping(w) \/ Abandon(w)

PreparationNext ==
    \/ \E w \in Workers : Work(w)
    \/ \E x \in Companies : PublishCompany(x)
    \/ \E t \in Targets : PublishTarget(t)
    \/ \E x \in Companies, t \in Targets : PublishRelation(x, t)
    \/ \E d \in Departments : LearnDepartment(d)

PreparationSpec == PreparationInit /\ [][PreparationNext]_preparationVars
-----------------------------------------------------------------------------
(* Preparations, answers and bounds keep their shape.                      *)
TypeOK ==
    /\ IdentityTypeOK /\ RulesTypeOK
    /\ prep \in [Workers -> Prep]
    /\ answers \in [Cycles -> SUBSET Answers]
    /\ starts \in 0..MaxStarts

(* However often a cycle is prepared, by whichever workers, and whatever   *)
(* links, rules and directory become meanwhile, the answer is the same.    *)
PreparationsAgree == \A cy \in Cycles : Cardinality(answers[cy]) <= 1
=============================================================================
