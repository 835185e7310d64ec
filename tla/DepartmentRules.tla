-------------------------- MODULE DepartmentRules --------------------------
(***************************************************************************)
(* Rules from DigiSac departments to Acessorias departments and their      *)
(* evaluation for a conversation cycle (core/department_mapping.py), over  *)
(* the links and outcomes of IdentityLinks.                                *)
(*                                                                         *)
(* A job is one transaction: a configuration or an evaluation.  Both take  *)
(* the advisory lock of a department; the directory takes none, and each   *)
(* statement of an evaluation sees the directory of its own moment.        *)
(***************************************************************************)
EXTENDS IdentityLinks, SequencesExt

CONSTANTS Departments, Targets,   \* departments of DigiSac and of Acessorias
          InitialTargets,           \* those that are present at first
          DepartmentOf,   \* DepartmentOf[cy]: of the last assignment, or None
          OpKeys,         \* operation keys that operators choose
          InitialRules,   \* what earlier configurations may have left
          MaxVersions,    \* bound on the versions of a department's rule
          MaxChanges      \* bound on publications of the directory

ASSUME RulesAssumption ==
    /\ DepartmentOf \in [Cycles -> Departments \cup {None}]
    /\ None \notin Departments \cup Targets \cup OpKeys
    /\ InitialTargets \subseteq Targets
    /\ MaxVersions \in Nat /\ MaxChanges \in Nat
    /\ \A initial \in InitialRules :
          /\ initial \in [Departments ->
                Seq([target : Targets, state : {"active", "inactive"}])]
          /\ \A d \in Departments :
                /\ Len(initial[d]) <= MaxVersions
                /\ \A v \in DOMAIN initial[d] :
                      initial[d][v].state = "active" => v = Len(initial[d])

VARIABLES known,       \* digisac_departments
          target,      \* Acessorias departments that are present
          related,     \* pairs <<company, target>> of the directory
          rules,       \* rules[d]: the versions of the rule of d, in order
          transition,  \* department_mapping_transitions, by operation key
          evaluation,  \* evaluation[cy]: the default snapshot of a cycle
          job,         \* job[w]: the transaction of a worker
          changes      \* publications so far

directoryVars == <<target, related, changes>>
rulesVars == <<known, rules, transition, evaluation, job>>
-----------------------------------------------------------------------------
RuleState == {"active", "inactive"}
Rule == [target : Targets, state : RuleState]

(* Without an operation key, one is derived from the request itself.       *)
DerivedKeys == RuleState \X Departments \X (Targets \cup {None})
AnyKey == OpKeys \cup DerivedKeys

(* The row of an operation key, with the version that its ':deactivate'    *)
(* row says was replaced, 0 for none.                                      *)
NoTransition == [dept |-> None, version |-> 0, state |-> "none", replaced |-> 0]
Transition == [dept : Departments, version : 1..MaxVersions, state : RuleState,
               replaced : 0..MaxVersions]

NoEvaluation == [state |-> "none", version |-> 0, target |-> None,
                 company |-> None]
Evaluation == [state : {"none", "unresolved", "invalid", "resolved"},
               version : 0..MaxVersions, target : Targets \cup {None},
               company : Companies \cup {None}]

(* current: the version that the transaction found active, 0 for none;     *)
(* available: which of the target and the company it found available.      *)
NoJob == [op |-> "none", step |-> "none", dept |-> None, target |-> None,
          state |-> "none", key |-> None, cycle |-> None, current |-> 0,
          available |-> {}]

Job == [op : {"none", "configure", "evaluate"},
        step : {"none", "lock", "write", "target", "company", "relation"},
        dept : Departments \cup {None}, target : Targets \cup {None},
        state : RuleState \cup {"none"}, key : AnyKey \cup {None},
        cycle : Cycles \cup {None}, current : 0..MaxVersions,
        available : SUBSET {"target", "company"}]

RulesInit ==
    /\ known = {}
    /\ target = InitialTargets
    /\ related = Companies \X InitialTargets
    /\ rules \in InitialRules
    /\ transition = [k \in AnyKey |-> NoTransition]
    /\ evaluation = [cy \in Cycles |-> NoEvaluation]
    /\ job = [w \in Workers |-> NoJob]
    /\ changes = 0

(* The rule in force is the version that is active, 0 if none is.          *)
Active(d) == {v \in DOMAIN rules[d] : rules[d][v].state = "active"}
CurrentOf(d) == IF Active(d) = {} THEN 0 ELSE Max(Active(d))
-----------------------------------------------------------------------------
(* An operator activates or inactivates the rule of a department, with or  *)
(* without naming the target.                                              *)
BeginConfigure(w, d, t, state, key) ==
    /\ job[w] = NoJob
    /\ job' = [job EXCEPT ![w] =
                 [NoJob EXCEPT !.op = "configure", !.step = "lock", !.dept = d,
                               !.target = t, !.state = state,
                               !.key = IF key = None THEN <<state, d, t>>
                                       ELSE key]]
    /\ UNCHANGED <<known, rules, transition, evaluation, directoryVars>>

(* Mutant of RulesFree: no advisory lock.                                  *)
RulesFreeAnyway(w) == TRUE

(* The department's advisory lock.                                         *)
RulesFree(w) ==
    \A v \in Workers \ {w} :
        ~(job[v].dept = job[w].dept
             /\ job[v].step \in {"write", "target", "company", "relation"})

(* A known key is answered with the rule of its row, or refused for        *)
(* another state or target; neither has an effect.                         *)
Replayed(w) == transition[job[w].key] # NoTransition

RuleOfKey(w) ==
    LET row == transition[job[w].key] IN rules[row.dept][row.version]

ReplayAnswers(w) ==
    /\ Replayed(w)
    /\ transition[job[w].key].state = job[w].state
    /\ job[w].target \in {None, RuleOfKey(w).target}

(* The rule that is active must be the one named, if one is named; and     *)
(* only an active rule stands for a target that is not.                    *)
Requestable(w, current) ==
    LET named == job[w].target # None
    IN  /\ job[w].dept \in known
        /\ named \/ current # 0
        /\ job[w].state = "inactive" /\ current # 0 /\ named =>
              rules[job[w].dept][current].target = job[w].target

(* Without a named target the active rule's own is meant.                  *)
Aimed(w, current) ==
    IF job[w].target = None THEN rules[job[w].dept][current].target
    ELSE job[w].target

LockRules(w) ==
    /\ job[w].op = "configure" /\ job[w].step = "lock"
    /\ RulesFree(w)
    /\ LET d == job[w].dept
           current == CurrentOf(d)
       IN  job' = [job EXCEPT ![w] =
                     IF Replayed(w) \/ ~Requestable(w, current) THEN NoJob
                     ELSE [@ EXCEPT !.step = "write", !.current = current,
                                    !.target = Aimed(w, current)]]
    /\ UNCHANGED <<known, rules, transition, evaluation, directoryVars>>
-----------------------------------------------------------------------------
(* Versions are never removed and never change their target.               *)
Inactivated(history, v) ==
    IF v = 0 THEN history ELSE [history EXCEPT ![v].state = "inactive"]

Replaced(w) ==
    Append(Inactivated(rules[job[w].dept], job[w].current),
           [target |-> job[w].target, state |-> "active"])

(* The target that is to be active already is.                             *)
Unchanged(w) ==
    /\ job[w].current # 0
    /\ rules[job[w].dept][job[w].current].target = job[w].target

(* What the request makes of the versions.  The active target is activated *)
(* again, and an inactive rule inactivated again, only in the audit; a     *)
(* department without rules gets one that is born inactive.                *)
Configured(w) ==
    LET history == rules[job[w].dept]
        current == job[w].current
    IN  CASE job[w].state = "active" /\ Unchanged(w) -> history
          [] job[w].state = "active" /\ ~Unchanged(w) -> Replaced(w)
          [] job[w].state = "inactive" /\ current = 0 /\ history = <<>> ->
                <<[target |-> job[w].target, state |-> "inactive"]>>
          [] OTHER -> Inactivated(history, current)

(* The version that the audit row of the operation names.                  *)
Audited(w) ==
    IF job[w].state = "inactive" /\ job[w].current # 0 THEN job[w].current
    ELSE Len(Configured(w))

(* Mutant of Superseded: no row for the version that was replaced.         *)
SupersededUnnoted(w) == 0

(* The version that its ':deactivate' row says was replaced.               *)
Superseded(w) ==
    IF job[w].state = "active" /\ ~Unchanged(w) THEN job[w].current ELSE 0

(* A key that another department's transaction took since is a conflict:   *)
(* the transaction rolls back.                                             *)
Configure(w) ==
    /\ job[w].step = "write"
    /\ transition[job[w].key] = NoTransition
    /\ Len(Configured(w)) <= MaxVersions
    /\ rules' = [rules EXCEPT ![job[w].dept] = Configured(w)]
    /\ transition' = [transition EXCEPT ![job[w].key] =
                        [dept |-> job[w].dept, version |-> Audited(w),
                         state |-> job[w].state,
                         replaced |-> Superseded(w)]]
    /\ job' = [job EXCEPT ![w] = NoJob]
    /\ UNCHANGED <<known, evaluation, directoryVars>>
-----------------------------------------------------------------------------
(* A stored snapshot is final.                                             *)
Store(w, cy, snapshot) ==
    /\ evaluation' = [evaluation EXCEPT ![cy] = snapshot]
    /\ cycleLock' = [cycleLock EXCEPT ![cy] = None]
    /\ job' = [job EXCEPT ![w] = NoJob]

Unmapped(state, x) == [NoEvaluation EXCEPT !.state = state, !.company = x]

(* Mutant of Evaluated: only a resolved snapshot is final.                 *)
EvaluatedForGood(cy) == evaluation[cy].state = "resolved"

Evaluated(cy) == evaluation[cy] # NoEvaluation

(* Before any lock but the cycle's: no assignment inside the boundaries, a *)
(* department DigiSac does not list, an identity that is not confirmed.    *)
Ineligible(cy) ==
    CASE DepartmentOf[cy] = None -> {"unresolved"}
      [] DepartmentOf[cy] # None /\ DepartmentOf[cy] \notin known -> {"invalid"}
      [] OTHER -> IF resolution[cy].state = "confirmed" THEN {}
                  ELSE {"unresolved"}

BeginEvaluate(w, cy) ==
    /\ job[w] = NoJob
    /\ cycleLock[cy] = None
    /\ ~Evaluated(cy)
    /\ IF Ineligible(cy) # {}
       THEN \E state \in Ineligible(cy) : Store(w, cy, Unmapped(state, None))
       ELSE /\ cycleLock' = [cycleLock EXCEPT ![cy] = w]
            /\ job' = [job EXCEPT ![w] =
                         [NoJob EXCEPT !.op = "evaluate", !.step = "lock",
                                       !.cycle = cy,
                                       !.dept = DepartmentOf[cy]]]
            /\ UNCHANGED evaluation
    /\ UNCHANGED <<known, rules, transition, directoryVars>>

(* The rule is read under the department's lock, which is then kept.       *)
ReadRule(w) ==
    /\ job[w].op = "evaluate" /\ job[w].step = "lock"
    /\ RulesFree(w)
    /\ LET d == job[w].dept
           cy == job[w].cycle
       IN  IF CurrentOf(d) = 0
           THEN Store(w, cy, Unmapped("unresolved", resolution[cy].company))
           ELSE /\ job' = [job EXCEPT ![w] =
                             [@ EXCEPT !.step = "target",
                                       !.current = CurrentOf(d),
                                       !.target = rules[d][CurrentOf(d)].target]]
                /\ UNCHANGED <<evaluation, cycleLock>>
    /\ UNCHANGED <<known, rules, transition, directoryVars>>

(* One statement each: the target, the company, their relation.            *)
ReadTarget(w) ==
    /\ job[w].step = "target"
    /\ job' = [job EXCEPT ![w].step = "company",
                          ![w].available =
                               IF job[w].target \in target THEN {"target"}
                               ELSE {}]
    /\ UNCHANGED <<known, rules, transition, evaluation, cycleLock, directoryVars>>

ReadCompany(w) ==
    /\ job[w].step = "company"
    /\ job' = [job EXCEPT ![w].step = "relation",
                          ![w].available = @ \cup
                               IF company[resolution[job[w].cycle].company]
                                     = "active"
                               THEN {"company"} ELSE {}]
    /\ UNCHANGED <<known, rules, transition, evaluation, cycleLock, directoryVars>>

(* Mutant of Available: the relation is not asked for.                     *)
AvailableAsRead(w) == job[w].available = {"target", "company"}

Available(w) ==
    /\ job[w].available = {"target", "company"}
    /\ <<resolution[job[w].cycle].company, job[w].target>> \in related

Evaluate(w) ==
    /\ job[w].step = "relation"
    /\ Store(w, job[w].cycle,
             [state |-> IF Available(w) THEN "resolved" ELSE "invalid",
              version |-> job[w].current, target |-> job[w].target,
              company |-> resolution[job[w].cycle].company])
    /\ UNCHANGED <<known, rules, transition, directoryVars>>

(* An error or the end of the process rolls the transaction back.          *)
FailJob(w) ==
    /\ job[w] # NoJob
    /\ job' = [job EXCEPT ![w] = NoJob]
    /\ cycleLock' = [cy \in Cycles |->
                       IF job[w].cycle = cy THEN None ELSE cycleLock[cy]]
    /\ UNCHANGED <<known, rules, transition, evaluation, directoryVars>>
-----------------------------------------------------------------------------
(* Rules, audit, snapshots and transactions keep their shape.              *)
RulesTypeOK ==
    /\ known \subseteq Departments /\ target \subseteq Targets
    /\ related \subseteq Companies \X Targets
    /\ \A d \in Departments :
          rules[d] \in Seq(Rule) /\ Len(rules[d]) <= MaxVersions
    /\ transition \in [AnyKey -> Transition \cup {NoTransition}]
    /\ evaluation \in [Cycles -> Evaluation]
    /\ job \in [Workers -> Job]
    /\ changes \in 0..MaxChanges

(* A department has at most one active rule, its last version, however     *)
(* configurations of it interleave.                                        *)
OneActiveRule ==
    \A d \in Departments : Active(d) \subseteq {Len(rules[d])}

(* A cycle is mapped by the rule that is in force when its snapshot is     *)
(* stored, and to a department that is then present and related to the     *)
(* company, although other statements ran and the directory was published  *)
(* since they were read; and a snapshot is never replaced.                 *)
EvaluationUsesActiveRule ==
    [][\A cy \in Cycles : evaluation'[cy] # evaluation[cy] =>
        /\ evaluation[cy] = NoEvaluation
        /\ evaluation'[cy].version # 0 =>
              LET d == DepartmentOf[cy]
              IN  /\ Active(d) = {evaluation'[cy].version}
                  /\ rules[d][evaluation'[cy].version].target
                        = evaluation'[cy].target
        /\ evaluation'[cy].state = "resolved" =>
              /\ evaluation'[cy].target \in target
              /\ <<evaluation'[cy].company, evaluation'[cy].target>> \in related
       ]_<<evaluation, rules>>

(* The audit explains every change: a version is added or changes its      *)
(* state with the rows of a new operation key, which name it and the state *)
(* that it is then in; and no version goes.                                *)
ExplainedBy(k, d, v) ==
    /\ transition[k] = NoTransition
    /\ transition'[k].dept = d
    /\ \/ transition'[k].version = v /\ transition'[k].state = rules'[d][v].state
       \/ transition'[k].replaced = v /\ rules'[d][v].state = "inactive"

ChangesAreAudited ==
    [][\A d \in Departments :
        /\ DOMAIN rules[d] \subseteq DOMAIN rules'[d]
        /\ \A v \in DOMAIN rules'[d] :
              v \notin DOMAIN rules[d] \/ rules'[d][v] # rules[d][v] =>
                  \E k \in AnyKey : ExplainedBy(k, d, v)
       ]_<<rules, transition>>

(* "operation_key was already used for another mapping operation"          *)
(* (department_mapping.py:262): an operation that is answered from the row *)
(* of its key was about the same department.                               *)
ReplayIsSameOperation ==
    \A w \in Workers :
        job[w].step = "lock" /\ job[w].op = "configure" /\ ReplayAnswers(w) =>
            transition[job[w].key].dept = job[w].dept
=============================================================================
