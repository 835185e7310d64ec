------------------------- MODULE PreparationProofs -------------------------
(***************************************************************************)
(* Theorems about RequestPreparation and the modules it composes: links,   *)
(* rules, snapshots and answers, for any number of workers, contacts,      *)
(* companies, cycles and departments.                                      *)
(***************************************************************************)
EXTENDS RequestPreparation, SequenceTheorems, FiniteSetTheorems, TLAPS

(* Transactions on links.  Good: what a transaction t of worker w relies   *)
(* on while it runs.  Apart: which two may not run together.               *)
Holding == {"lock", "act"}

Resolving(w, t) ==
    /\ t.cycle \in Cycles /\ t.contact = ContactOf[t.cycle]
    /\ cycleLock[t.cycle] = w /\ resolution[t.cycle] = Unresolved

Good(w, t) ==
    /\ t.step # "none" => t.contact \in Contacts /\ t.op # "none"
    /\ t.step = "act" => t.links = link[t.contact]
    /\ t.key # None => t.op \in AdminOperations
    /\ t.key # None /\ t.step \in Holding => command[t.key] = NoRequest
    /\ IF t.op = "resolve" THEN Resolving(w, t) ELSE t.cycle = None

Apart(t, u) ==
    /\ ~(t.step = "act" /\ u.step = "act" /\ t.contact = u.contact)
    /\ ~(/\ t.key # None /\ t.key = u.key
         /\ t.step \in Holding /\ u.step \in Holding)

LinksTyped ==
    /\ link \in [Contacts -> [Companies -> LinkState]]
    /\ command \in [Keys -> Request] /\ applied \in [Keys -> Nat]
    /\ resolution \in [Cycles -> Resolution]
    /\ cycleLock \in [Cycles -> Workers \cup {None}]
    /\ task \in [Workers -> Task]

TasksGood == \A w \in Workers : Good(w, task[w])
TasksApart == \A w \in Workers, v \in Workers : v # w => Apart(task[w], task[v])

LinksInv ==
    /\ LinksTyped /\ TasksGood /\ TasksApart
    /\ OneConfirmedCompany /\ AppliedOncePerKey

LEMMA InitLinksInv == IdentityInit => LinksInv
<1> SUFFICES ASSUME IdentityInit PROVE LinksInv
  OBVIOUS
<1> USE IdentityAssumption DEF IdentityInit
<1>1. LinksTyped
  BY DEF LinksTyped, LinkState, Request, NoRequest, Resolution, Unresolved, Task, Idle
<1>2. TasksGood /\ TasksApart
  BY DEF TasksGood, TasksApart, Good, Apart, Idle
<1>3. OneConfirmedCompany /\ AppliedOncePerKey
  BY DEF OneConfirmedCompany, AppliedOncePerKey
<1> QED BY <1>1, <1>2, <1>3 DEF LinksInv

LEMMA IdleTyped == Idle \in Task
BY DEF Idle, Task, LinkState

(* A step that only moves the transaction of w on.                         *)
LEMMA TaskMoves ==
    ASSUME LinksInv, NEW w \in Workers, NEW t \in Task,
           task' = [task EXCEPT ![w] = t],
           UNCHANGED <<link, command, applied, resolution, cycleLock>>,
           Good(w, t), \A v \in Workers \ {w} : Apart(t, task[v])
    PROVE  LinksInv'
<1>1. LinksTyped'
  BY DEF LinksInv, LinksTyped
<1>2. /\ task'[w] = t
      /\ \A v \in Workers \ {w} : task'[v] = task[v]
  BY DEF LinksInv, LinksTyped
<1>3. TasksGood'
  BY <1>2 DEF LinksInv, TasksGood, Good, Resolving
<1>4. TasksApart'
  <2>1. \A v \in Workers \ {w} : Apart(t, task[v]) /\ Apart(task[v], t)
    BY DEF Apart
  <2> QED BY <1>2, <2>1 DEF LinksInv, TasksApart
<1>5. (OneConfirmedCompany /\ AppliedOncePerKey)'
  BY DEF LinksInv, OneConfirmedCompany, AppliedOncePerKey
<1> QED BY <1>1, <1>3, <1>4, <1>5 DEF LinksInv

LEMMA BeginsKeep ==
    ASSUME LinksInv, NEW w \in Workers,
           NEW op \in AdminOperations, NEW c \in Contacts, NEW x \in Companies,
           \/ BeginManual(w, op, c, x)
           \/ \E k \in Keys : BeginCommand(w, op, c, x, k)
    PROVE  LinksInv'
<1> USE DEF AdminOperations
<1>1. CASE BeginManual(w, op, c, x)
  <2> DEFINE t == [Idle EXCEPT !.op = op, !.step = "lock", !.contact = c,
                               !.company = IF op = "discover" THEN None ELSE x]
  <2>1. /\ t \in Task /\ t.op = op /\ t.step = "lock" /\ t.contact = c
        /\ t.key = None /\ t.cycle = None
    BY DEF Idle, Task, LinkState
  <2>2. Good(w, t) /\ \A v \in Workers \ {w} : Apart(t, task[v])
    BY <2>1 DEF Good, Apart
  <2> QED BY <1>1, <2>1, <2>2, TaskMoves DEF BeginManual
<1>2. ASSUME NEW k \in Keys, BeginCommand(w, op, c, x, k) PROVE LinksInv'
  <2> DEFINE t == [Idle EXCEPT !.op = op, !.step = "reserve", !.contact = c,
                               !.company = IF op = "discover" THEN None ELSE x,
                               !.key = k]
  <2>1. /\ t \in Task /\ t.op = op /\ t.step = "reserve" /\ t.contact = c
        /\ t.cycle = None
    BY DEF Idle, Task, LinkState
  <2>2. Good(w, t) /\ \A v \in Workers \ {w} : Apart(t, task[v])
    BY <2>1 DEF Good, Apart, Holding
  <2> QED BY <1>2, <2>1, <2>2, TaskMoves DEF BeginCommand
<1> QED BY <1>1, <1>2

LEMMA ReserveKeeps == ASSUME LinksInv, NEW w \in Workers, Reserve(w) PROVE LinksInv'
<1>1. PICK t \in Task : t = IF command[task[w].key] = NoRequest
                          THEN [task[w] EXCEPT !.step = "lock"] ELSE Idle
  <2>1. task[w] \in Task
    BY DEF LinksInv, LinksTyped
  <2>2. [task[w] EXCEPT !.step = "lock"] \in Task
    BY <2>1 DEF Task
  <2> QED BY <2>2, IdleTyped
<1>2. task' = [task EXCEPT ![w] = t]
  BY <1>1 DEF Reserve, LinksInv, LinksTyped
<1>3. Good(w, t) /\ \A v \in Workers \ {w} : Apart(t, task[v])
  <2>1. CASE command[task[w].key] = NoRequest
    <3>1. /\ t.step = "lock" /\ t.contact = task[w].contact /\ t.op = task[w].op
          /\ t.key = task[w].key /\ t.cycle = task[w].cycle
      BY <1>1, <2>1 DEF LinksInv, LinksTyped, Task
    <3>2. Good(w, task[w])
      BY DEF LinksInv, TasksGood
    <3>3. Good(w, t)
      BY <2>1, <3>1, <3>2 DEF Good, Resolving, Reserve
    <3>4. ASSUME NEW v \in Workers \ {w} PROVE Apart(t, task[v])
      BY <3>1, <3>4 DEF Reserve, KeyFree, Apart, Holding
    <3> QED BY <3>3, <3>4
  <2>2. CASE t = Idle
    BY <2>2 DEF Good, Apart, Idle
  <2> QED BY <1>1, <2>1, <2>2
<1> QED BY <1>2, <1>3, TaskMoves DEF Reserve

LEMMA LockContactKeeps ==
    ASSUME LinksInv, NEW w \in Workers, LockContact(w) PROVE LinksInv'
<1> DEFINE new == [task[w] EXCEPT !.step = "act", !.matched = Matched(task[w].contact),
                                  !.links = link[task[w].contact]]
<1>1. Good(w, task[w]) /\ task[w] \in Task /\ task[w].step = "lock"
  BY DEF LinksInv, LinksTyped, TasksGood, LockContact
<1>2. new \in Task
  <2>1. /\ Matched(task[w].contact) \subseteq Companies
        /\ link[task[w].contact] \in [Companies -> LinkState]
    BY <1>1 DEF Matched, Good, LinksInv, LinksTyped
  <2> QED BY <1>1, <2>1 DEF Task
<1>3. PICK t \in Task : t = new
  BY <1>2
<1>4. task' = [task EXCEPT ![w] = t]
  BY <1>3 DEF LockContact, LinksInv, LinksTyped
<1>5. /\ t.step = "act" /\ t.contact = task[w].contact /\ t.op = task[w].op
      /\ t.key = task[w].key /\ t.cycle = task[w].cycle
      /\ t.links = link[task[w].contact]
  BY <1>1, <1>3 DEF Task
<1>6. Good(w, t)
  BY <1>1, <1>5 DEF Good, Resolving, Holding
<1>7. ASSUME NEW v \in Workers \ {w} PROVE Apart(t, task[v])
  <2>1. Apart(task[w], task[v])
    BY DEF LinksInv, TasksApart
  <2> QED BY <1>1, <1>5, <2>1 DEF Apart, Holding, LockContact, ContactFree
<1> QED BY <1>4, <1>6, <1>7, TaskMoves DEF LockContact

(* A step of w that may also change links, commands, outcomes and locks,   *)
(* as long as what the others rely on stays.                               *)
LEMMA StepKeeps ==
    ASSUME LinksInv, NEW w \in Workers, NEW t \in Task,
           task' = [task EXCEPT ![w] = t], LinksTyped', Good(w, t)',
           \A v \in Workers \ {w} : Apart(t, task[v]),
           \A v \in Workers \ {w}, u \in Task :
               u = task[v] /\ Good(v, u) => Good(v, u)',
           OneConfirmedCompany', AppliedOncePerKey'
    PROVE  LinksInv'
<1>1. /\ task'[w] = t
      /\ \A v \in Workers \ {w} : task'[v] = task[v] /\ task[v] \in Task
  BY DEF LinksInv, LinksTyped
<1>2. TasksGood'
  <2>1. ASSUME NEW v \in Workers PROVE Good(v, task[v])'
    <3>1. CASE v = w
      BY <1>1, <3>1 DEF Good, Resolving
    <3>2. CASE v # w
      <4>1. PICK u \in Task : u = task[v] /\ u = task'[v]
        BY <1>1, <3>2
      <4>2. Good(v, u)'
        BY <3>2, <4>1 DEF LinksInv, TasksGood
      <4> QED BY <4>1, <4>2 DEF Good, Resolving
    <3> QED BY <3>1, <3>2
  <2> QED BY <2>1 DEF TasksGood
<1>3. TasksApart'
  <2>1. \A v \in Workers \ {w} : Apart(t, task[v]) /\ Apart(task[v], t)
    BY DEF Apart
  <2> QED BY <1>1, <2>1 DEF LinksInv, TasksApart
<1> QED BY <1>2, <1>3 DEF LinksInv

LEMMA BeginResolveKeeps ==
    ASSUME LinksInv, NEW w \in Workers, NEW cy \in Cycles, BeginResolve(w, cy)
    PROVE  LinksInv'
<1> USE IdentityAssumption
<1> DEFINE t == [Idle EXCEPT !.op = "resolve", !.step = "lock",
                             !.contact = ContactOf[cy], !.cycle = cy]
<1>1. /\ t \in Task /\ t.op = "resolve" /\ t.step = "lock" /\ t.key = None
      /\ t.contact = ContactOf[cy] /\ t.contact \in Contacts /\ t.cycle = cy
  BY DEF Idle, Task, LinkState
<1>2. task' = [task EXCEPT ![w] = t]
  BY DEF BeginResolve
<1>3. LinksTyped'
  BY <1>1, <1>2 DEF BeginResolve, LinksInv, LinksTyped
<1>4. Good(w, t)'
  BY <1>1 DEF BeginResolve, Good, Resolving, LinksInv, LinksTyped
<1>5. \A v \in Workers \ {w} : Apart(t, task[v])
  BY <1>1 DEF Apart
<1>6. ASSUME NEW v \in Workers \ {w}, NEW u \in Task, u = task[v], Good(v, u)
      PROVE  Good(v, u)'
  BY <1>6 DEF BeginResolve, Good, Resolving, LinksInv, LinksTyped
<1>7. OneConfirmedCompany' /\ AppliedOncePerKey'
  BY DEF BeginResolve, LinksInv, OneConfirmedCompany, AppliedOncePerKey
<1> HIDE DEF t
<1> QED BY <1>1, <1>2, <1>3, <1>4, <1>5, <1>6, <1>7, StepKeeps

(* After a transaction its worker is idle or waits for its next contact.   *)
AtRest(t) ==
    /\ t.step \in {"none", "lock"} /\ t.op \in {"none", "batch"}
    /\ t.key = None /\ t.cycle = None
    /\ t.step = "lock" => t.contact \in Contacts /\ t.op = "batch"

LEMMA LeaveLeads ==
    ASSUME LinksInv, NEW w \in Workers, Leave(w) \/ task' = [task EXCEPT ![w] = Idle]
    PROVE  \E t \in Task : task' = [task EXCEPT ![w] = t] /\ AtRest(t)
<1>1. CASE task' = [task EXCEPT ![w] = Idle]
  BY <1>1, IdleTyped DEF Idle, AtRest
<1>2. ASSUME NEW c \in task[w].left,
             task' = [task EXCEPT ![w] =
                        [Idle EXCEPT !.op = "batch", !.step = "lock", !.contact = c,
                                     !.left = task[w].left \ {c}]]
      PROVE  \E t \in Task : task' = [task EXCEPT ![w] = t] /\ AtRest(t)
  <2> DEFINE t == [Idle EXCEPT !.op = "batch", !.step = "lock", !.contact = c,
                               !.left = task[w].left \ {c}]
  <2>1. task[w].left \subseteq Contacts
    BY DEF LinksInv, LinksTyped, Task
  <2>2. t \in Task /\ t.op = "batch" /\ t.step = "lock" /\ t.contact = c
        /\ t.key = None /\ t.cycle = None
    BY <2>1, <1>2 DEF Idle, Task, LinkState
  <2> QED BY <1>2, <2>1, <2>2 DEF AtRest
<1> QED BY <1>1, <1>2 DEF Leave

(* A transaction that commits new links of its contact, of which at most   *)
(* one is confirmed.                                                       *)
LEMMA CommitKeeps ==
    ASSUME LinksInv, NEW w \in Workers, task[w].step = "act",
           NEW new \in [Companies -> LinkState],
           \A x \in Companies, y \in Companies :
               new[x] = "confirmed" /\ new[y] = "confirmed" => x = y,
           link' = [link EXCEPT ![task[w].contact] = new],
           Complete(w), Leave(w),
           resolution' \in [Cycles -> Resolution],
           cycleLock' \in [Cycles -> Workers \cup {None}],
           \A v \in Workers \ {w} :
               Good(v, task[v]) /\ task[v].op = "resolve" =>
                   /\ resolution'[task[v].cycle] = resolution[task[v].cycle]
                   /\ cycleLock'[task[v].cycle] = cycleLock[task[v].cycle]
    PROVE  LinksInv'
<1> DEFINE c == task[w].contact
           k == task[w].key
<1>1. PICK t \in Task : task' = [task EXCEPT ![w] = t] /\ AtRest(t)
  BY LeaveLeads
<1>2. /\ task[w] \in Task /\ c \in Contacts /\ task[w].op # "none"
      /\ k # None => k \in Keys /\ task[w].op \in AdminOperations
                       /\ command[k] = NoRequest
  BY DEF LinksInv, LinksTyped, TasksGood, Good, Holding, Task
<1>3. /\ command' \in [Keys -> Request] /\ applied' \in [Keys -> Nat]
      /\ \A h \in Keys : k = None \/ h # k =>
            command'[h] = command[h] /\ applied'[h] = applied[h]
      /\ k # None => command'[k] = RequestOf(task[w]) /\ applied'[k] = applied[k] + 1
  <2>1. CASE k = None
    BY <2>1 DEF Complete, LinksInv, LinksTyped
  <2>2. CASE k # None
    <3>1. RequestOf(task[w]) \in Request
      BY <1>2, <2>2 DEF RequestOf, Request, Task
    <3>2. /\ command \in [Keys -> Request] /\ applied \in [Keys -> Nat]
          /\ k \in Keys /\ applied[k] + 1 \in Nat
      BY <1>2, <2>2 DEF LinksInv, LinksTyped
    <3>3. /\ command' = [command EXCEPT ![k] = RequestOf(task[w])]
          /\ applied' = [applied EXCEPT ![k] = applied[k] + 1]
      BY <2>2 DEF Complete
    <3>4. command' \in [Keys -> Request] /\ applied' \in [Keys -> Nat]
      BY <3>1, <3>2, <3>3
    <3>5. \A h \in Keys : h # k => command'[h] = command[h] /\ applied'[h] = applied[h]
      BY <3>2, <3>3
    <3>6. command'[k] = RequestOf(task[w]) /\ applied'[k] = applied[k] + 1
      BY <3>2, <3>3
    <3> QED BY <2>2, <3>4, <3>5, <3>6
  <2> QED BY <2>1, <2>2
<1>4. LinksTyped'
  BY <1>1, <1>2, <1>3 DEF LinksInv, LinksTyped
<1>5. Good(w, t)'
  BY <1>1 DEF AtRest, Good, Holding
<1>6. \A v \in Workers \ {w} : Apart(t, task[v])
  BY <1>1 DEF AtRest, Apart
<1>7. ASSUME NEW v \in Workers \ {w}, NEW u \in Task, u = task[v], Good(v, u)
      PROVE  Good(v, u)'
  <2>1. Apart(u, task[w])
    BY <1>7 DEF LinksInv, TasksApart
  <2>2. u.step = "act" => u.links = link'[u.contact]
    BY <1>2, <1>7, <2>1 DEF Good, Apart, LinksInv, LinksTyped
  <2>3. u.key # None /\ u.step \in Holding => command'[u.key] = NoRequest
    <3>1. u.key # None => u.key \in Keys
      BY <1>7 DEF Task
    <3> QED BY <1>3, <1>7, <2>1, <3>1 DEF Good, Apart, Holding
  <2>4. u.op = "resolve" => Resolving(v, u)'
    BY <1>7 DEF Good, Resolving
  <2> QED BY <1>7, <2>2, <2>3, <2>4 DEF Good
<1>8. OneConfirmedCompany'
  BY <1>2 DEF LinksInv, LinksTyped, OneConfirmedCompany
<1>9. AppliedOncePerKey'
  <2>1. ASSUME NEW h \in Keys
        PROVE  applied'[h] = IF command'[h] = NoRequest THEN 0 ELSE 1
    <3>1. CASE k = None \/ h # k
      BY <1>3, <3>1 DEF LinksInv, AppliedOncePerKey
    <3>2. CASE k # None /\ h = k
      <4>1. command'[h] # NoRequest
        BY <1>2, <1>3, <3>2 DEF RequestOf, NoRequest
      <4>2. applied[h] = 0
        BY <1>2, <3>2 DEF LinksInv, AppliedOncePerKey
      <4> QED BY <1>3, <3>2, <4>1, <4>2
    <3> QED BY <3>1, <3>2
  <2> QED BY <2>1 DEF AppliedOncePerKey
<1> QED BY <1>1, <1>4, <1>5, <1>6, <1>7, <1>8, <1>9, StepKeeps

(* What a transaction that acts has read is still so.                      *)
LEMMA ActsOnCurrent ==
    ASSUME LinksInv, NEW w \in Workers, task[w].step = "act"
    PROVE  /\ task[w].contact \in Contacts
           /\ task[w].links = link[task[w].contact]
           /\ task[w].links \in [Companies -> LinkState]
           /\ \A x \in Companies, y \in Companies :
                task[w].links[x] = "confirmed" /\ task[w].links[y] = "confirmed"
                    => x = y
BY DEF LinksInv, LinksTyped, TasksGood, Good, OneConfirmedCompany

LEMMA DiscoveryKeepsConfirmed ==
    ASSUME LinksInv, NEW w \in Workers, task[w].step = "act"
    PROVE  /\ WithCandidates(w) \in [Companies -> LinkState]
           /\ \A x \in Companies, y \in Companies :
                WithCandidates(w)[x] = "confirmed" /\ WithCandidates(w)[y] = "confirmed"
                    => x = y
BY ActsOnCurrent DEF WithCandidates, LinkState

LEMMA AdministrationKeeps ==
    ASSUME LinksInv, NEW w \in Workers, Discover(w) \/ Confirm(w) \/ Reject(w)
    PROVE  LinksInv'
<1>1. /\ task[w].step = "act" /\ Complete(w) /\ Leave(w)
      /\ UNCHANGED <<resolution, cycleLock>>
  BY DEF Discover, Confirm, Reject
<1>2. /\ resolution' \in [Cycles -> Resolution]
      /\ cycleLock' \in [Cycles -> Workers \cup {None}]
  BY <1>1 DEF LinksInv, LinksTyped
<1>3. \E new \in [Companies -> LinkState] :
        /\ \A x \in Companies, y \in Companies :
              new[x] = "confirmed" /\ new[y] = "confirmed" => x = y
        /\ link' = [link EXCEPT ![task[w].contact] = new]
  <2>1. CASE Discover(w)
    BY <1>1, <2>1, DiscoveryKeepsConfirmed DEF Discover
  <2>2. CASE Confirm(w)
    <3> DEFINE new == [task[w].links EXCEPT ![task[w].company] = "confirmed"]
    <3>1. new \in [Companies -> LinkState]
      BY <1>1, ActsOnCurrent DEF LinkState
    <3>2. \A x \in Companies, y \in Companies :
              new[x] = "confirmed" /\ new[y] = "confirmed" => x = y
      BY <1>1, <2>2, ActsOnCurrent DEF Confirm, MayConfirm
    <3> QED BY <2>2, <3>1, <3>2 DEF Confirm
  <2>3. CASE Reject(w)
    <3> DEFINE new == [task[w].links EXCEPT ![task[w].company] = "rejected"]
    <3>1. new \in [Companies -> LinkState]
      BY <1>1, ActsOnCurrent DEF LinkState
    <3>2. \A x \in Companies, y \in Companies :
              new[x] = "confirmed" /\ new[y] = "confirmed" => x = y
      BY <1>1, ActsOnCurrent
    <3> QED BY <2>3, <3>1, <3>2 DEF Reject
  <2> QED BY <2>1, <2>2, <2>3
<1> QED BY <1>1, <1>2, <1>3, CommitKeeps

LEMMA ResolveKeeps == ASSUME LinksInv, NEW w \in Workers, Resolve(w) PROVE LinksInv'
<1>1. /\ task[w].step = "act" /\ task[w].op = "resolve" /\ Leave(w)
      /\ link' = [link EXCEPT ![task[w].contact] = WithCandidates(w)]
  BY DEF Resolve
<1>2. Good(w, task[w]) /\ task[w].cycle \in Cycles /\ cycleLock[task[w].cycle] = w
  BY <1>1 DEF LinksInv, TasksGood, Good, Resolving
<1>3. Complete(w)
  BY <1>1, <1>2 DEF Good, AdminOperations, Complete, Resolve
<1>4. \A o \in Outcome(w) : o \in Resolution
  BY DEF Outcome, Confirmed, Resolution
<1>5. resolution' \in [Cycles -> Resolution]
  BY <1>2, <1>4 DEF Resolve, LinksInv, LinksTyped
<1>6. cycleLock' \in [Cycles -> Workers \cup {None}]
  BY DEF Resolve, LinksInv, LinksTyped
<1>7. ASSUME NEW v \in Workers \ {w}, Good(v, task[v]), task[v].op = "resolve"
      PROVE  /\ resolution'[task[v].cycle] = resolution[task[v].cycle]
             /\ cycleLock'[task[v].cycle] = cycleLock[task[v].cycle]
  BY <1>2, <1>7 DEF Good, Resolving, Resolve, LinksInv, LinksTyped
<1> QED BY <1>1, <1>3, <1>5, <1>6, <1>7, DiscoveryKeepsConfirmed, CommitKeeps

(* A transaction that fails releases its own lock only.                    *)
LEMMA FailTaskKeeps == ASSUME LinksInv, NEW w \in Workers, FailTask(w) PROVE LinksInv'
<1> USE IdentityAssumption
<1>1. PICK t \in Task : task' = [task EXCEPT ![w] = t] /\ AtRest(t)
  BY LeaveLeads DEF FailTask
<1>2. LinksTyped'
  BY <1>1 DEF FailTask, LinksInv, LinksTyped
<1>3. Good(w, t)'
  BY <1>1 DEF AtRest, Good, Holding
<1>4. \A v \in Workers \ {w} : Apart(t, task[v])
  BY <1>1 DEF AtRest, Apart
<1>5. ASSUME NEW v \in Workers \ {w}, NEW u \in Task, u = task[v], Good(v, u)
      PROVE  Good(v, u)'
  <2>1. Good(w, task[w])
    BY DEF LinksInv, TasksGood
  <2>2. u.op = "resolve" => Resolving(v, u)'
    <3> SUFFICES ASSUME u.op = "resolve" PROVE Resolving(v, u)'
      OBVIOUS
    <3>1. Resolving(v, u)
      BY <1>5 DEF Good
    <3>2. task[w].cycle # u.cycle
      BY <2>1, <3>1 DEF Good, Resolving
    <3> QED BY <3>1, <3>2 DEF Resolving, FailTask
  <2> QED BY <1>5, <2>2 DEF Good, FailTask
<1>6. OneConfirmedCompany' /\ AppliedOncePerKey'
  BY DEF FailTask, LinksInv, OneConfirmedCompany, AppliedOncePerKey
<1> QED BY <1>1, <1>2, <1>3, <1>4, <1>5, <1>6, StepKeeps
-----------------------------------------------------------------------------
(* Transactions on rules and snapshots, in the same terms.                 *)
Critical == {"write", "target", "company", "relation"}

GoodJob(w, j) ==
    /\ j.step # "none" => j.dept \in Departments
    /\ j.op = "configure" => j.key \in AnyKey /\ j.state \in RuleState
    /\ j.step = "write" =>
          j.op = "configure" /\ j.current = CurrentOf(j.dept) /\ j.target \in Targets
    /\ j.step \in {"target", "company", "relation"} =>
          /\ j.op = "evaluate" /\ j.current \in Active(j.dept)
          /\ j.target = rules[j.dept][j.current].target
    /\ IF j.op = "evaluate"
       THEN /\ j.cycle \in Cycles /\ j.dept = DepartmentOf[j.cycle]
            /\ cycleLock[j.cycle] = w /\ evaluation[j.cycle] = NoEvaluation
       ELSE j.cycle = None

ApartJobs(j, i) == ~(j.dept = i.dept /\ j.step \in Critical /\ i.step \in Critical)

RulesTyped ==
    /\ known \subseteq Departments
    /\ rules \in [Departments -> Seq(Rule)]
    /\ \A d \in Departments : Len(rules[d]) <= MaxVersions
    /\ transition \in [AnyKey -> Transition \cup {NoTransition}]
    /\ evaluation \in [Cycles -> Evaluation]
    /\ job \in [Workers -> Job]

JobsGood == \A w \in Workers : GoodJob(w, job[w])
JobsApart == \A w \in Workers, v \in Workers : v # w => ApartJobs(job[w], job[v])

RulesInv == RulesTyped /\ JobsGood /\ JobsApart /\ OneActiveRule

LEMMA NoJobTyped == NoJob \in Job
BY RulesAssumption DEF NoJob, Job

LEMMA InitRulesInv == RulesInit => RulesInv
<1> SUFFICES ASSUME RulesInit PROVE RulesInv
  OBVIOUS
<1> USE RulesAssumption DEF RulesInit
<1>1. RulesTyped
  <2>1. /\ rules \in [Departments -> Seq(Rule)]
        /\ \A d \in Departments : Len(rules[d]) <= MaxVersions
    BY DEF Rule, RuleState
  <2>2. known \subseteq Departments /\ job \in [Workers -> Job]
    BY NoJobTyped
  <2>3. evaluation \in [Cycles -> Evaluation]
    BY DEF Evaluation, NoEvaluation
  <2>4. transition \in [AnyKey -> Transition \cup {NoTransition}]
    OBVIOUS
  <2> QED BY <2>1, <2>2, <2>3, <2>4 DEF RulesTyped
<1>2. JobsGood /\ JobsApart
  BY DEF JobsGood, JobsApart, GoodJob, ApartJobs, NoJob, Critical
<1>3. OneActiveRule
  BY DEF OneActiveRule, Active
<1> QED BY <1>1, <1>2, <1>3 DEF RulesInv

(* The rule in force is the last version, or there is none.                *)
LEMMA RuleInForce ==
    ASSUME RulesInv, NEW d \in Departments
    PROVE  /\ rules[d] \in Seq(Rule) /\ Len(rules[d]) \in 0..MaxVersions
           /\ CurrentOf(d) \in 0..Len(rules[d])
           /\ CurrentOf(d) = 0 => Active(d) = {}
           /\ CurrentOf(d) # 0 =>
                Active(d) = {CurrentOf(d)} /\ CurrentOf(d) = Len(rules[d])
<1>1. /\ rules[d] \in Seq(Rule) /\ Len(rules[d]) \in 0..MaxVersions
      /\ Active(d) \subseteq {Len(rules[d])} /\ Active(d) \subseteq 1..Len(rules[d])
  BY RulesAssumption DEF RulesInv, RulesTyped, OneActiveRule, Active
<1>2. CASE Active(d) = {}
  BY <1>1, <1>2 DEF CurrentOf
<1>3. CASE Active(d) = {Len(rules[d])}
  <2>1. Max({Len(rules[d])}) = Len(rules[d])
    BY <1>1 DEF Max
  <2>2. Active(d) # {} /\ Len(rules[d]) \in 1..Len(rules[d])
    BY <1>1, <1>3
  <2>3. CurrentOf(d) = Len(rules[d])
    BY <1>3, <2>1, <2>2 DEF CurrentOf
  <2> QED BY <1>1, <1>3, <2>2, <2>3
<1>4. Active(d) = {} \/ Active(d) = {Len(rules[d])}
  BY <1>1
<1> QED BY <1>2, <1>3, <1>4

LEMMA InactivatedKeeps ==
    ASSUME NEW h \in Seq(Rule), NEW v \in 0..Len(h)
    PROVE  /\ Inactivated(h, v) \in Seq(Rule)
           /\ Len(Inactivated(h, v)) = Len(h)
           /\ \A i \in 1..Len(h) :
                 /\ Inactivated(h, v)[i].target = h[i].target
                 /\ Inactivated(h, v)[i].state =
                        IF i = v THEN "inactive" ELSE h[i].state
<1>1. CASE v = 0
  BY <1>1 DEF Inactivated
<1>2. CASE v # 0
  <2> DEFINE e == [h[v] EXCEPT !.state = "inactive"]
  <2>1. v \in 1..Len(h) /\ h[v] \in Rule
    BY <1>2
  <2>2. e \in Rule /\ e.target = h[v].target /\ e.state = "inactive"
    BY <2>1 DEF Rule, RuleState
  <2>3. Inactivated(h, v) = [h EXCEPT ![v] = e]
    BY <1>2 DEF Inactivated
  <2> QED BY <2>1, <2>2, <2>3, ExceptSeq
<1> QED BY <1>1, <1>2

(* What a configuration makes of the versions: the last one at most is     *)
(* active, and a change is the one that the audit names.                   *)
LEMMA ConfiguredSound ==
    ASSUME RulesInv, NEW w \in Workers, job[w].step = "write"
    PROVE  /\ Configured(w) \in Seq(Rule)
           /\ \A i \in 1..Len(Configured(w)) :
                 Configured(w)[i].state = "active" => i = Len(Configured(w))
           /\ Audited(w) \in 1..Len(Configured(w))
           /\ Configured(w) # rules[job[w].dept] =>
                 Configured(w)[Audited(w)].state = job[w].state
<1> DEFINE d == job[w].dept
           h == rules[d]
           cur == job[w].current
           n == Configured(w)
<1>1. /\ d \in Departments /\ cur = CurrentOf(d) /\ job[w].target \in Targets
      /\ job[w].state \in RuleState
  BY DEF RulesInv, JobsGood, GoodJob
<1>2. /\ h \in Seq(Rule) /\ cur \in 0..Len(h) /\ Len(h) \in Nat
      /\ cur # 0 => cur = Len(h)
      /\ \A i \in 1..Len(h) : h[i].state = "active" => i = cur
  BY <1>1, RuleInForce DEF Active
<1>3. \A i \in 1..Len(h) : h[i] \in Rule /\ h[i].state \in RuleState
  <2>1. \A i \in 1..Len(h) : h[i] \in Rule
    BY <1>2, ElementOfSeq
  <2> QED BY <2>1 DEF Rule
<1> DEFINE quiet == Inactivated(h, cur)
<1>4. /\ quiet \in Seq(Rule) /\ Len(quiet) = Len(h)
      /\ \A i \in 1..Len(h) : quiet[i].state = "inactive"
      /\ cur = 0 => quiet = h
  <2>1. \A i \in 1..Len(h) : quiet[i].state = IF i = cur THEN "inactive" ELSE h[i].state
    BY <1>2, InactivatedKeeps
  <2>2. \A i \in 1..Len(h) : quiet[i].state = "inactive"
    BY <1>2, <1>3, <2>1 DEF RuleState
  <2>3. quiet \in Seq(Rule) /\ Len(quiet) = Len(h)
    BY <1>2, InactivatedKeeps
  <2>4. cur = 0 => quiet = h
    BY DEF Inactivated
  <2> QED BY <2>2, <2>3, <2>4
<1>5. CASE job[w].state = "active" /\ cur # 0 /\ h[cur].target = job[w].target
  <2>1. n = h /\ Audited(w) = Len(n)
    BY <1>5 DEF Configured, Audited, Unchanged
  <2>2. cur = Len(h) /\ cur \in 1..Len(h)
    BY <1>2, <1>5
  <2>3. \A i \in 1..Len(h) : h[i].state = "active" => i = Len(h)
    BY <1>2, <2>2
  <2> HIDE DEF n
  <2> QED BY <1>2, <2>1, <2>2, <2>3 DEF n
<1>6. CASE job[w].state = "active" /\ ~(cur # 0 /\ h[cur].target = job[w].target)
  <2> DEFINE e == [target |-> job[w].target, state |-> "active"]
  <2>1. n = Append(quiet, e) /\ Audited(w) = Len(n)
    BY <1>6 DEF Configured, Replaced, Audited, Unchanged
  <2>2. e \in Rule /\ e.state = "active"
    BY <1>1 DEF Rule, RuleState
  <2>3. /\ n \in Seq(Rule) /\ Len(n) = Len(h) + 1
        /\ \A i \in 1..Len(h) : n[i] = quiet[i]
        /\ n[Len(h) + 1] = e
    <3>1. /\ Append(quiet, e) \in Seq(Rule) /\ Len(Append(quiet, e)) = Len(quiet) + 1
          /\ \A i \in 1..Len(quiet) : Append(quiet, e)[i] = quiet[i]
          /\ Append(quiet, e)[Len(quiet) + 1] = e
      <4> HIDE DEF quiet, e
      <4> QED BY <1>4, <2>2, AppendProperties
    <3> HIDE DEF quiet, e, n
    <3> QED BY <1>4, <2>1, <3>1
  <2>4. ASSUME NEW i \in 1..Len(n), n[i].state = "active" PROVE i = Len(n)
    <3>1. i \in 1..Len(h) => n[i].state = "inactive"
      BY <1>4, <2>3
    <3>2. i \in 1..Len(h) \/ i = Len(h) + 1
      <4> HIDE DEF n
      <4> QED BY <1>2, <2>3, <2>4
    <3>3. i \notin 1..Len(h)
      BY <2>4, <3>1
    <3> HIDE DEF n
    <3> QED BY <2>3, <3>2, <3>3
  <2>5. Len(n) \in 1..Len(n) /\ n[Len(n)].state = job[w].state
    <3> HIDE DEF n, e
    <3> QED BY <1>2, <1>6, <2>2, <2>3
  <2> HIDE DEF n
  <2> QED BY <2>1, <2>3, <2>4, <2>5 DEF n
<1>7. CASE job[w].state = "inactive" /\ cur = 0 /\ h = <<>>
  <2> DEFINE e == [target |-> job[w].target, state |-> "inactive"]
  <2>1. n = <<e>> /\ Audited(w) = Len(n)
    BY <1>7 DEF Configured, Audited
  <2>2. e \in Rule /\ e.state = "inactive"
    BY <1>1 DEF Rule, RuleState
  <2>3. n \in Seq(Rule) /\ Len(n) = 1 /\ n[1] = e
    BY <2>1, <2>2
  <2> QED BY <1>7, <2>1, <2>2, <2>3
<1>8. CASE job[w].state = "inactive" /\ ~(cur = 0 /\ h = <<>>)
  <2>1. n = quiet
    BY <1>8 DEF Configured
  <2>2. CASE cur = 0
    <3>1. Audited(w) = Len(n) /\ n = h /\ h # <<>>
      BY <1>4, <1>8, <2>1, <2>2 DEF Audited
    <3>2. Len(h) # 0
      BY <1>2, <3>1, EmptySeq
    <3> QED BY <1>2, <2>2, <3>1, <3>2
  <2>3. CASE cur # 0
    <3>1. Audited(w) = cur
      BY <1>8, <2>3 DEF Audited
    <3>2. cur \in 1..Len(n) /\ n[cur].state = "inactive"
      BY <1>2, <1>4, <2>1, <2>3
    <3>3. \A i \in 1..Len(n) : n[i].state # "active"
      BY <1>4, <2>1
    <3> QED BY <1>4, <1>8, <2>1, <3>1, <3>2, <3>3
  <2> QED BY <2>2, <2>3
<1> QED BY <1>1, <1>5, <1>6, <1>7, <1>8 DEF RuleState

(* Other versions than the one inactivated stay.                           *)
LEMMA InactivatedOthers ==
    ASSUME NEW h \in Seq(Rule), NEW v \in 0..Len(h)
    PROVE  \A i \in 1..Len(h) : i # v => Inactivated(h, v)[i] = h[i]
<1>1. CASE v = 0
  BY <1>1 DEF Inactivated
<1>2. CASE v # 0
  <2> DEFINE e == [h[v] EXCEPT !.state = "inactive"]
  <2>1. v \in 1..Len(h) /\ h[v] \in Rule
    BY <1>2
  <2>2. e \in Rule
    BY <2>1 DEF Rule, RuleState
  <2>3. Inactivated(h, v) = [h EXCEPT ![v] = e]
    BY <1>2 DEF Inactivated
  <2> HIDE DEF e
  <2> QED BY <2>1, <2>2, <2>3, ExceptSeq
<1> QED BY <1>1, <1>2

(* A version that a configuration adds or changes is the one its audit row *)
(* names, or the one that its ':deactivate' row says was replaced.         *)
LEMMA ConfiguredExplained ==
    ASSUME RulesInv, NEW w \in Workers, job[w].step = "write"
    PROVE  /\ Superseded(w) \in 0..MaxVersions
           /\ Len(rules[job[w].dept]) <= Len(Configured(w))
           /\ \A v \in 1..Len(Configured(w)) :
                \/ v \notin 1..Len(rules[job[w].dept])
                \/ Configured(w)[v] # rules[job[w].dept][v]
                => \/ v = Audited(w) /\ Configured(w)[v].state = job[w].state
                   \/ v = Superseded(w) /\ Configured(w)[v].state = "inactive"
<1> DEFINE d == job[w].dept
           h == rules[d]
           cur == job[w].current
           n == Configured(w)
           quiet == Inactivated(h, cur)
<1>1. /\ d \in Departments /\ cur = CurrentOf(d) /\ job[w].target \in Targets
      /\ job[w].state \in RuleState
  BY DEF RulesInv, JobsGood, GoodJob
<1>2. /\ h \in Seq(Rule) /\ cur \in 0..Len(h) /\ Len(h) \in 0..MaxVersions
      /\ cur # 0 => cur \in 1..Len(h)
  BY <1>1, RuleInForce
<1>3. Superseded(w) \in 0..MaxVersions
  <2>1. cur \in 0..MaxVersions /\ 0 \in 0..MaxVersions
    BY <1>2, RulesAssumption
  <2> QED BY <2>1 DEF Superseded
<1>4. /\ quiet \in Seq(Rule) /\ Len(quiet) = Len(h)
      /\ \A i \in 1..Len(h) : i # cur => quiet[i] = h[i]
      /\ \A i \in 1..Len(h) : i = cur => quiet[i].state = "inactive"
  BY <1>2, InactivatedKeeps, InactivatedOthers
<1>5. CASE job[w].state = "active" /\ Unchanged(w)
  <2>1. n = h
    BY <1>5 DEF Configured
  <2> QED BY <1>2, <1>3, <2>1
<1>6. CASE job[w].state = "active" /\ ~Unchanged(w)
  <2> DEFINE e == [target |-> job[w].target, state |-> "active"]
  <2>1. n = Append(quiet, e) /\ Audited(w) = Len(n) /\ Superseded(w) = cur
    BY <1>6 DEF Configured, Replaced, Audited, Superseded
  <2>2. e \in Rule /\ e.state = "active"
    BY <1>1 DEF Rule, RuleState
  <2> HIDE DEF e, quiet
  <2>3. /\ Len(n) = Len(h) + 1 /\ n[Len(h) + 1] = e
        /\ \A i \in 1..Len(h) : n[i] = quiet[i]
    BY <1>4, <2>1, <2>2, AppendProperties
  <2> HIDE DEF n, h, cur
  <2>4. ASSUME NEW v \in 1..Len(n), v \notin 1..Len(h) \/ n[v] # h[v]
        PROVE  \/ v = Audited(w) /\ n[v].state = job[w].state
               \/ v = Superseded(w) /\ n[v].state = "inactive"
    <3>1. CASE v \in 1..Len(h)
      <4>1. v = cur
        BY <1>4, <2>3, <2>4, <3>1
      <4> QED BY <1>4, <2>1, <2>3, <3>1, <4>1
    <3>2. CASE v \notin 1..Len(h)
      <4>1. v = Len(h) + 1
        BY <1>2, <2>3, <3>2
      <4> QED BY <1>6, <2>1, <2>2, <2>3, <4>1
    <3> QED BY <3>1, <3>2
  <2>5. Len(h) <= Len(n)
    BY <1>2, <2>3
  <2> QED BY <1>3, <2>4, <2>5 DEF n, h
<1>7. CASE job[w].state = "inactive" /\ cur = 0 /\ h = <<>>
  <2> DEFINE e == [target |-> job[w].target, state |-> "inactive"]
  <2>1. n = <<e>> /\ Audited(w) = Len(n)
    BY <1>7 DEF Configured, Audited
  <2>2. Len(n) = 1 /\ n[1] = e /\ Len(h) = 0
    BY <1>7, <2>1
  <2>3. \A v \in 1..Len(n) : v = Audited(w) /\ n[v].state = job[w].state
    BY <1>7, <2>1, <2>2
  <2> HIDE DEF n, h
  <2> QED BY <1>3, <2>2, <2>3 DEF n, h
<1>8. CASE job[w].state = "inactive" /\ ~(cur = 0 /\ h = <<>>)
  <2>1. n = quiet
    BY <1>8 DEF Configured
  <2> HIDE DEF n, h, cur, quiet
  <2>2. ASSUME NEW v \in 1..Len(n), v \notin 1..Len(h) \/ n[v] # h[v]
        PROVE  v = Audited(w) /\ n[v].state = job[w].state
    <3>1. v = cur /\ v \in 1..Len(h) /\ n[v].state = "inactive"
      BY <1>4, <2>1, <2>2
    <3>2. cur # 0
      BY <3>1
    <3>3. Audited(w) = cur
      BY <1>8, <3>2 DEF Audited, cur
    <3> QED BY <1>8, <3>1, <3>3
  <2>3. Len(h) <= Len(n)
    BY <1>2, <1>4, <2>1
  <2> QED BY <1>3, <2>2, <2>3 DEF n, h
<1> QED BY <1>1, <1>5, <1>6, <1>7, <1>8 DEF RuleState

(* What is good of a job is good of the worker that has it.                *)
LEMMA GoodJobNext ==
    ASSUME NEW v \in Workers, NEW j, job'[v] = j, GoodJob(v, j)'
    PROVE  GoodJob(v, job[v])'
BY DEF GoodJob, CurrentOf, Active

(* A step of w that may also change rules, audit, snapshots and locks.     *)
LEMMA JobStepKeeps ==
    ASSUME RulesInv, NEW w \in Workers, NEW j \in Job,
           job' = [job EXCEPT ![w] = j], RulesTyped', GoodJob(w, j)',
           \A v \in Workers \ {w} : ApartJobs(j, job[v]),
           \A v \in Workers \ {w}, i \in Job :
               i = job[v] /\ GoodJob(v, i) => GoodJob(v, i)',
           OneActiveRule'
    PROVE  RulesInv'
<1>1. /\ job'[w] = j
      /\ \A v \in Workers \ {w} : job'[v] = job[v] /\ job[v] \in Job
  BY DEF RulesInv, RulesTyped
<1>2. JobsGood'
  <2>1. ASSUME NEW v \in Workers PROVE GoodJob(v, job[v])'
    <3>1. CASE v = w
      <4>1. job'[v] = j /\ GoodJob(v, j)'
        BY <1>1, <3>1
      <4> QED BY <4>1, GoodJobNext
    <3>2. CASE v # w
      <4>1. PICK i \in Job : i = job[v] /\ i = job'[v]
        BY <1>1, <3>2
      <4>2. GoodJob(v, i)'
        BY <3>2, <4>1 DEF RulesInv, JobsGood
      <4> QED BY <4>1, <4>2, GoodJobNext
    <3> QED BY <3>1, <3>2
  <2> QED BY <2>1 DEF JobsGood
<1>3. JobsApart'
  <2>1. \A v \in Workers \ {w} : ApartJobs(j, job[v]) /\ ApartJobs(job[v], j)
    BY DEF ApartJobs
  <2> QED BY <1>1, <2>1 DEF RulesInv, JobsApart
<1> QED BY <1>2, <1>3 DEF RulesInv

(* A step that only moves the job of w on.                                 *)
LEMMA JobMoves ==
    ASSUME RulesInv, NEW w \in Workers, NEW j \in Job,
           job' = [job EXCEPT ![w] = j],
           UNCHANGED <<known, rules, transition, evaluation, cycleLock>>,
           GoodJob(w, j), \A v \in Workers \ {w} : ApartJobs(j, job[v])
    PROVE  RulesInv'
<1>1. RulesTyped'
  BY DEF RulesInv, RulesTyped
<1>2. \A v \in Workers, i \in Job : GoodJob(v, i) => GoodJob(v, i)'
  BY DEF GoodJob, CurrentOf, Active
<1>3. OneActiveRule'
  BY DEF RulesInv, OneActiveRule, Active
<1> QED BY <1>1, <1>2, <1>3, JobStepKeeps

LEMMA BeginConfigureKeeps ==
    ASSUME RulesInv, NEW w \in Workers, NEW d \in Departments,
           NEW t \in Targets \cup {None}, NEW state \in RuleState,
           NEW key \in OpKeys \cup {None}, BeginConfigure(w, d, t, state, key),
           UNCHANGED cycleLock
    PROVE  RulesInv'
<1> DEFINE k == IF key = None THEN <<state, d, t>> ELSE key
           j == [NoJob EXCEPT !.op = "configure", !.step = "lock", !.dept = d,
                              !.target = t, !.state = state, !.key = k]
<1>1. k \in AnyKey
  BY DEF AnyKey, DerivedKeys
<1>2. /\ j \in Job /\ j.op = "configure" /\ j.step = "lock" /\ j.dept = d
      /\ j.key = k /\ j.state = state /\ j.cycle = None
  BY <1>1, NoJobTyped DEF NoJob, Job, RuleState
<1>3. GoodJob(w, j) /\ \A v \in Workers \ {w} : ApartJobs(j, job[v])
  BY <1>1, <1>2 DEF GoodJob, ApartJobs, Critical
<1>4. job' = [job EXCEPT ![w] = j]
  BY DEF BeginConfigure
<1> HIDE DEF j, k
<1> QED BY <1>2, <1>3, <1>4, JobMoves DEF BeginConfigure

LEMMA LockRulesKeeps ==
    ASSUME RulesInv, NEW w \in Workers, LockRules(w), UNCHANGED cycleLock
    PROVE  RulesInv'
<1> DEFINE d == job[w].dept
           current == CurrentOf(d)
           aim == Aimed(w, current)
<1>1. /\ job[w] \in Job /\ GoodJob(w, job[w]) /\ job[w].step = "lock"
      /\ job[w].op = "configure" /\ d \in Departments
  BY DEF LockRules, RulesInv, RulesTyped, JobsGood, GoodJob
<1>2. CASE Replayed(w) \/ ~Requestable(w, current)
  <2>1. NoJob \in Job /\ job' = [job EXCEPT ![w] = NoJob]
    BY <1>2, NoJobTyped DEF LockRules
  <2>2. GoodJob(w, NoJob) /\ \A v \in Workers \ {w} : ApartJobs(NoJob, job[v])
    BY DEF GoodJob, ApartJobs, Critical, NoJob
  <2> QED BY <2>1, <2>2, JobMoves DEF LockRules
<1>3. CASE ~(Replayed(w) \/ ~Requestable(w, current))
  <2>1. /\ rules[d] \in Seq(Rule) /\ current \in 0..MaxVersions
        /\ current # 0 => current \in 1..Len(rules[d])
    BY <1>1, RuleInForce, RulesAssumption
  <2>2. aim \in Targets
    <3>1. CASE job[w].target = None
      <4>1. current \in 1..Len(rules[d])
        BY <1>3, <2>1, <3>1 DEF Requestable
      <4>2. rules[d][current] \in Rule
        BY <2>1, <4>1, ElementOfSeq
      <4> QED BY <3>1, <4>2 DEF Rule, Aimed
    <3>2. CASE job[w].target # None
      BY <1>1, <3>2 DEF Job, Aimed
    <3> QED BY <3>1, <3>2
  <2> DEFINE new == [job[w] EXCEPT !.step = "write", !.current = current,
                                   !.target = aim]
  <2>3. new \in Job
    BY <1>1, <2>1, <2>2 DEF Job
  <2>4. PICK j \in Job : j = new
    BY <2>3
  <2>5. /\ j.step = "write" /\ j.dept = d /\ j.op = job[w].op
        /\ j.key = job[w].key /\ j.state = job[w].state /\ j.cycle = job[w].cycle
        /\ j.current = current /\ j.target = aim
    BY <1>1, <2>4 DEF Job
  <2>6. job' = [job EXCEPT ![w] = j]
    <3>1. job' = [job EXCEPT ![w] = new]
      BY <1>3 DEF LockRules
    <3> HIDE DEF new
    <3> QED BY <2>4, <3>1
  <2>7. GoodJob(w, j)
    BY <1>1, <2>2, <2>5 DEF GoodJob
  <2>8. \A v \in Workers \ {w} : ApartJobs(j, job[v])
    BY <2>5 DEF LockRules, RulesFree, ApartJobs, Critical
  <2> QED BY <2>6, <2>7, <2>8, JobMoves DEF LockRules
<1> QED BY <1>2, <1>3

LEMMA IdleJob ==
    ASSUME NEW w \in Workers
    PROVE  /\ NoJob \in Job
           /\ GoodJob(w, NoJob) /\ GoodJob(w, NoJob)'
           /\ \A v \in Workers : ApartJobs(NoJob, job[v])
BY NoJobTyped DEF GoodJob, ApartJobs, Critical, NoJob

LEMMA ConfigureKeeps ==
    ASSUME RulesInv, NEW w \in Workers, Configure(w), UNCHANGED cycleLock
    PROVE  RulesInv'
<1> DEFINE d == job[w].dept
           n == Configured(w)
<1>1. /\ job[w].step = "write" /\ d \in Departments /\ job[w].key \in AnyKey
      /\ job[w].state \in RuleState
  BY DEF Configure, RulesInv, JobsGood, GoodJob
<1>2. /\ n \in Seq(Rule) /\ Len(n) \in Nat /\ Len(n) <= MaxVersions
      /\ \A i \in 1..Len(n) : n[i].state = "active" => i = Len(n)
      /\ Audited(w) \in 1..Len(n)
  BY <1>1, ConfiguredSound DEF Configure
<1>3. /\ rules' \in [Departments -> Seq(Rule)]
      /\ rules'[d] = n
      /\ \A e \in Departments : e # d => rules'[e] = rules[e]
  <2>1. rules \in [Departments -> Seq(Rule)] /\ rules' = [rules EXCEPT ![d] = n]
    BY DEF Configure, RulesInv, RulesTyped
  <2> HIDE DEF d, n
  <2> QED BY <1>1, <1>2, <2>1
<1>4. \A e \in Departments :
        e # d => Active(e)' = Active(e) /\ CurrentOf(e)' = CurrentOf(e)
  BY <1>3 DEF Active, CurrentOf
<1>5. RulesTyped'
  <2>1. [dept |-> d, version |-> Audited(w), state |-> job[w].state,
         replaced |-> Superseded(w)] \in Transition
    BY <1>1, <1>2, ConfiguredExplained, RulesAssumption DEF Transition
  <2>2. transition' \in [AnyKey -> Transition \cup {NoTransition}]
    BY <2>1 DEF Configure, RulesInv, RulesTyped
  <2>3. \A e \in Departments : Len(rules'[e]) <= MaxVersions
    BY <1>2, <1>3 DEF RulesInv, RulesTyped
  <2>4. job' \in [Workers -> Job]
    BY NoJobTyped DEF Configure, RulesInv, RulesTyped
  <2> QED BY <1>3, <2>2, <2>3, <2>4 DEF Configure, RulesInv, RulesTyped
<1>6. ASSUME NEW v \in Workers \ {w}, NEW i \in Job, i = job[v], GoodJob(v, i)
      PROVE  GoodJob(v, i)'
  <2>1. i.step \in Critical => i.dept \in Departments \ {d}
    BY <1>1, <1>6 DEF RulesInv, JobsApart, ApartJobs, GoodJob, Critical
  <2>2. i.step \in Critical =>
          /\ rules'[i.dept] = rules[i.dept]
          /\ Active(i.dept)' = Active(i.dept) /\ CurrentOf(i.dept)' = CurrentOf(i.dept)
    BY <1>3, <1>4, <2>1
  <2> QED BY <1>6, <2>2 DEF GoodJob, Critical, Configure
<1>7. OneActiveRule'
  <2>1. ASSUME NEW e \in Departments PROVE Active(e)' \subseteq {Len(rules'[e])}
    <3>1. CASE e = d
      <4>1. DOMAIN n = 1..Len(n)
        BY <1>2
      <4> QED BY <1>2, <1>3, <3>1, <4>1 DEF Active
    <3>2. CASE e # d
      BY <1>3, <1>4, <3>2 DEF RulesInv, OneActiveRule
    <3> QED BY <3>1, <3>2
  <2> QED BY <2>1 DEF OneActiveRule
<1>8. job' = [job EXCEPT ![w] = NoJob]
  BY DEF Configure
<1> QED BY <1>5, <1>6, <1>7, <1>8, IdleJob, JobStepKeeps

(* An evaluation takes its cycle, reads, and stores what it read: no other *)
(* worker holds the lock of the cycle meanwhile.                           *)
LEMMA StoreKeeps ==
    ASSUME RulesInv, LinksTyped, NEW w \in Workers, NEW cy \in Cycles,
           NEW snapshot \in Evaluation, Store(w, cy, snapshot),
           cycleLock[cy] \in {None, w},
           UNCHANGED <<known, rules, transition, resolution>>
    PROVE  RulesInv'
<1>1. RulesTyped'
  BY NoJobTyped DEF Store, RulesInv, RulesTyped
<1>2. ASSUME NEW v \in Workers \ {w}, NEW i \in Job, i = job[v], GoodJob(v, i)
      PROVE  GoodJob(v, i)'
  <2>1. i.op = "evaluate" =>
          /\ i.cycle # cy /\ i.cycle \in Cycles
          /\ cycleLock'[i.cycle] = v /\ evaluation'[i.cycle] = NoEvaluation
    BY <1>2, IdentityAssumption DEF GoodJob, Store, LinksTyped, RulesInv, RulesTyped
  <2> QED BY <1>2, <2>1 DEF GoodJob, CurrentOf, Active
<1>3. OneActiveRule'
  BY DEF RulesInv, OneActiveRule, Active
<1>4. job' = [job EXCEPT ![w] = NoJob]
  BY DEF Store
<1> QED BY <1>1, <1>2, <1>3, <1>4, IdleJob, JobStepKeeps

LEMMA UnmappedTyped ==
    ASSUME NEW state \in {"unresolved", "invalid"}, NEW x \in Companies \cup {None}
    PROVE  /\ Unmapped(state, x) \in Evaluation
           /\ Unmapped(state, x).version = 0 /\ Unmapped(state, x).state = state
<1>1. NoEvaluation \in Evaluation /\ NoEvaluation.version = 0
  BY RulesAssumption DEF NoEvaluation, Evaluation
<1> QED BY <1>1 DEF Unmapped, Evaluation

LEMMA BeginEvaluateKeeps ==
    ASSUME RulesInv, LinksTyped, NEW w \in Workers, NEW cy \in Cycles,
           BeginEvaluate(w, cy), UNCHANGED resolution
    PROVE  RulesInv'
<1>1. ASSUME NEW state \in Ineligible(cy), Store(w, cy, Unmapped(state, None))
      PROVE  RulesInv'
  <2>1. state \in {"unresolved", "invalid"}
    BY DEF Ineligible
  <2>2. Unmapped(state, None) \in Evaluation
    BY <2>1, UnmappedTyped
  <2> QED BY <1>1, <2>2, StoreKeeps DEF BeginEvaluate
<1>2. CASE Ineligible(cy) = {}
  <2> DEFINE j == [NoJob EXCEPT !.op = "evaluate", !.step = "lock", !.cycle = cy,
                                !.dept = DepartmentOf[cy]]
  <2>1. DepartmentOf[cy] \in Departments
    BY <1>2, RulesAssumption DEF Ineligible
  <2>2. /\ j \in Job /\ j.op = "evaluate" /\ j.step = "lock" /\ j.cycle = cy
        /\ j.dept = DepartmentOf[cy]
    BY <2>1, NoJobTyped DEF NoJob, Job
  <2>3. /\ job' = [job EXCEPT ![w] = j]
        /\ cycleLock' = [cycleLock EXCEPT ![cy] = w]
        /\ UNCHANGED <<known, rules, transition, evaluation>>
        /\ cycleLock[cy] = None /\ evaluation[cy] = NoEvaluation
    BY <1>2 DEF BeginEvaluate, Evaluated
  <2> HIDE DEF j
  <2>4. RulesTyped'
    BY <2>2, <2>3 DEF RulesInv, RulesTyped
  <2>5. GoodJob(w, j)'
    BY <2>1, <2>2, <2>3 DEF GoodJob, LinksTyped
  <2>6. \A v \in Workers \ {w} : ApartJobs(j, job[v])
    BY <2>2 DEF ApartJobs, Critical
  <2>7. ASSUME NEW v \in Workers \ {w}, NEW i \in Job, i = job[v], GoodJob(v, i)
        PROVE  GoodJob(v, i)'
    <3>1. i.op = "evaluate" =>
            i.cycle \in Cycles /\ cycleLock'[i.cycle] = v
      BY <2>3, <2>7, IdentityAssumption DEF GoodJob, LinksTyped
    <3> QED BY <2>3, <2>7, <3>1 DEF GoodJob, CurrentOf, Active
  <2>8. OneActiveRule'
    BY <2>3 DEF RulesInv, OneActiveRule, Active
  <2> QED BY <2>2, <2>3, <2>4, <2>5, <2>6, <2>7, <2>8, JobStepKeeps
<1> QED BY <1>1, <1>2 DEF BeginEvaluate

(* What a job that evaluates has, at each of its steps.                    *)
LEMMA EvaluatingJob ==
    ASSUME RulesInv, LinksTyped, NEW w \in Workers, job[w].op = "evaluate"
    PROVE  /\ job[w] \in Job /\ GoodJob(w, job[w])
           /\ job[w].cycle \in Cycles /\ cycleLock[job[w].cycle] = w
           /\ evaluation[job[w].cycle] = NoEvaluation
           /\ resolution[job[w].cycle].company \in Companies \cup {None}
BY DEF RulesInv, RulesTyped, JobsGood, GoodJob, LinksTyped, Resolution

(* A job whose rule was read.                                              *)
LEMMA RuleRead ==
    ASSUME NEW j \in Job, NEW v \in 0..MaxVersions, NEW t \in Targets
    PROVE  LET new == [j EXCEPT !.step = "target", !.current = v, !.target = t]
           IN  /\ new \in Job /\ new.step = "target" /\ new.current = v
               /\ new.target = t /\ new.dept = j.dept /\ new.op = j.op
               /\ new.cycle = j.cycle
  BY DEF Job

LEMMA ReadRuleKeeps ==
    ASSUME RulesInv, LinksTyped, NEW w \in Workers, ReadRule(w),
           UNCHANGED resolution
    PROVE  RulesInv'
<1> DEFINE d == job[w].dept
           cy == job[w].cycle
<1>1. /\ job[w].op = "evaluate" /\ job[w].step = "lock" /\ d \in Departments
      /\ job[w] \in Job /\ GoodJob(w, job[w])
      /\ cy \in Cycles /\ cycleLock[cy] = w
      /\ resolution[cy].company \in Companies \cup {None}
  BY EvaluatingJob DEF ReadRule, GoodJob
<1>2. CASE CurrentOf(d) = 0
  <2>1. Store(w, cy, Unmapped("unresolved", resolution[cy].company))
    BY <1>2 DEF ReadRule
  <2>2. Unmapped("unresolved", resolution[cy].company) \in Evaluation
    BY <1>1, UnmappedTyped
  <2> QED BY <1>1, <2>1, <2>2, StoreKeeps DEF ReadRule
<1>3. CASE CurrentOf(d) # 0
  <2> DEFINE new == [job[w] EXCEPT !.step = "target", !.current = CurrentOf(d),
                                   !.target = rules[d][CurrentOf(d)].target]
  <2>1. /\ CurrentOf(d) \in 0..MaxVersions /\ CurrentOf(d) \in Active(d)
        /\ rules[d] \in Seq(Rule) /\ CurrentOf(d) \in 1..Len(rules[d])
    BY <1>1, <1>3, RuleInForce, RulesAssumption
  <2>2. rules[d][CurrentOf(d)].target \in Targets
    <3>1. rules[d][CurrentOf(d)] \in Rule
      BY <2>1, ElementOfSeq
    <3> QED BY <3>1 DEF Rule
  <2>3. /\ new \in Job /\ new.step = "target" /\ new.current = CurrentOf(d)
        /\ new.dept = d /\ new.target = rules[d][CurrentOf(d)].target
        /\ new.op = job[w].op /\ new.cycle = cy
    <3>1. PICK p \in Job, v \in 0..MaxVersions, t \in Targets :
              p = job[w] /\ v = CurrentOf(d) /\ t = rules[d][CurrentOf(d)].target
      BY <1>1, <2>1, <2>2
    <3> DEFINE r == [p EXCEPT !.step = "target", !.current = v, !.target = t]
    <3>2. /\ r \in Job /\ r.step = "target" /\ r.current = v /\ r.target = t
          /\ r.dept = p.dept /\ r.op = p.op /\ r.cycle = p.cycle
      <4> HIDE DEF new
      <4>1. r \in Job
        BY DEF Job
      <4>2. /\ r.step = "target" /\ r.current = v /\ r.target = t
            /\ r.dept = p.dept /\ r.op = p.op /\ r.cycle = p.cycle
        BY DEF Job
      <4> QED BY <4>1, <4>2, Zenon
    <3>3. new = r
      BY <3>1
    <3> HIDE DEF new, r
    <3>4. p.dept = d /\ p.op = job[w].op /\ p.cycle = cy
      BY <3>1, Zenon
    <3> QED BY <3>1, <3>2, <3>3, <3>4, Zenon
  <2>4. PICK j \in Job : j = new
    BY <2>3
  <2>5. /\ j.step = "target" /\ j.current = CurrentOf(d) /\ j.dept = d
        /\ j.target = rules[d][CurrentOf(d)].target
        /\ j.op = "evaluate" /\ j.cycle = cy
    <3> HIDE DEF new
    <3> QED BY <1>1, <2>3, <2>4
  <2>6. job' = [job EXCEPT ![w] = j]
    <3>1. job' = [job EXCEPT ![w] = new]
      BY <1>3 DEF ReadRule
    <3> HIDE DEF new
    <3> QED BY <2>4, <3>1
  <2>7. GoodJob(w, j)
    BY <1>1, <2>1, <2>5 DEF GoodJob
  <2>8. \A v \in Workers \ {w} : ApartJobs(j, job[v])
    BY <2>5 DEF ReadRule, RulesFree, ApartJobs, Critical
  <2> QED BY <1>3, <2>6, <2>7, <2>8, JobMoves DEF ReadRule
<1> QED BY <1>2, <1>3

LEMMA ReadsKeep ==
    ASSUME RulesInv, NEW w \in Workers, ReadTarget(w) \/ ReadCompany(w)
    PROVE  RulesInv'
<1>1. \E step \in {"company", "relation"}, seen \in SUBSET {"target", "company"} :
        job' = [job EXCEPT ![w] = [job[w] EXCEPT !.step = step, !.available = seen]]
  <2>1. job[w] \in Job
    BY DEF RulesInv, RulesTyped
  <2>2. CASE ReadTarget(w)
    <3> DEFINE seen == IF job[w].target \in target THEN {"target"} ELSE {}
    <3>1. job' = [job EXCEPT ![w] = [job[w] EXCEPT !.step = "company",
                                                   !.available = seen]]
      BY <2>2 DEF ReadTarget
    <3> QED BY <3>1
  <2>3. CASE ReadCompany(w)
    <3> DEFINE seen == job[w].available \cup
                         IF company[resolution[job[w].cycle].company] = "active"
                         THEN {"company"} ELSE {}
    <3>1. job' = [job EXCEPT ![w] = [job[w] EXCEPT !.step = "relation",
                                                   !.available = seen]]
      BY <2>3 DEF ReadCompany
    <3>2. seen \in SUBSET {"target", "company"}
      BY <2>1 DEF Job
    <3> HIDE DEF seen
    <3> QED BY <3>1, <3>2
  <2> QED BY <2>2, <2>3
<1>2. PICK step \in {"company", "relation"}, seen \in SUBSET {"target", "company"} :
        job' = [job EXCEPT ![w] = [job[w] EXCEPT !.step = step, !.available = seen]]
  BY <1>1
<1>3. /\ job[w] \in Job /\ GoodJob(w, job[w])
      /\ job[w].step \in {"target", "company"}
      /\ \A v \in Workers \ {w} : ApartJobs(job[w], job[v])
  BY DEF RulesInv, RulesTyped, JobsGood, JobsApart, ReadTarget, ReadCompany
<1>4. [job[w] EXCEPT !.step = step, !.available = seen] \in Job
  BY <1>3 DEF Job
<1>5. PICK j \in Job : j = [job[w] EXCEPT !.step = step, !.available = seen]
  BY <1>4
<1>6. /\ j.step = step /\ j.dept = job[w].dept /\ j.op = job[w].op
      /\ j.cycle = job[w].cycle /\ j.current = job[w].current
      /\ j.target = job[w].target /\ j.key = job[w].key /\ j.state = job[w].state
  BY <1>3, <1>5 DEF Job
<1>7. GoodJob(w, j)
  BY <1>3, <1>6 DEF GoodJob
<1>8. \A v \in Workers \ {w} : ApartJobs(j, job[v])
  BY <1>3, <1>6 DEF ApartJobs, Critical
<1>9. job' = [job EXCEPT ![w] = j]
  BY <1>2, <1>5
<1> QED BY <1>7, <1>8, <1>9, JobMoves DEF ReadTarget, ReadCompany

LEMMA EvaluateKeeps ==
    ASSUME RulesInv, LinksTyped, NEW w \in Workers, Evaluate(w),
           UNCHANGED resolution
    PROVE  RulesInv'
<1> DEFINE snapshot == [state |-> IF Available(w) THEN "resolved" ELSE "invalid",
                        version |-> job[w].current, target |-> job[w].target,
                        company |-> resolution[job[w].cycle].company]
<1>1. job[w].op = "evaluate"
  BY DEF Evaluate, RulesInv, JobsGood, GoodJob
<1>2. /\ job[w] \in Job /\ job[w].cycle \in Cycles /\ cycleLock[job[w].cycle] = w
      /\ resolution[job[w].cycle].company \in Companies \cup {None}
  BY <1>1, EvaluatingJob
<1>3. snapshot \in Evaluation
  BY <1>2 DEF Job, Evaluation
<1>4. Store(w, job[w].cycle, snapshot)
  BY DEF Evaluate
<1> HIDE DEF snapshot
<1> QED BY <1>2, <1>3, <1>4, StoreKeeps DEF Evaluate

LEMMA FailJobKeeps ==
    ASSUME RulesInv, LinksTyped, NEW w \in Workers, FailJob(w)
    PROVE  RulesInv'
<1>1. job' = [job EXCEPT ![w] = NoJob]
  BY DEF FailJob
<1>2. RulesTyped'
  BY NoJobTyped DEF FailJob, RulesInv, RulesTyped
<1>3. GoodJob(w, job[w])
  BY DEF RulesInv, JobsGood
<1>4. ASSUME NEW v \in Workers \ {w}, NEW i \in Job, i = job[v], GoodJob(v, i)
      PROVE  GoodJob(v, i)'
  <2>1. i.op = "evaluate" => cycleLock'[i.cycle] = v
    BY <1>3, <1>4, IdentityAssumption DEF GoodJob, FailJob
  <2> QED BY <1>4, <2>1 DEF FailJob, GoodJob, CurrentOf, Active
<1>5. OneActiveRule'
  BY DEF FailJob, RulesInv, OneActiveRule, Active
<1> QED BY <1>1, <1>2, <1>4, <1>5, IdleJob, JobStepKeeps
-----------------------------------------------------------------------------
(* The two halves share the workers and the locks of the cycles.           *)
OneAtATime == \A w \in Workers : task[w] = Idle \/ job[w] = NoJob

(* What is on record of a cycle stays, and an answer rests on it.          *)
OutcomesKept ==
    \A cy \in Cycles :
        /\ resolution[cy] # Unresolved => resolution'[cy] = resolution[cy]
        /\ evaluation[cy] # NoEvaluation => evaluation'[cy] = evaluation[cy]

Answered(cy, answer) ==
    /\ answer = "identity" =>
            resolution[cy] # Unresolved /\ resolution[cy].state # "confirmed"
    /\ answer = "mapping" =>
            /\ resolution[cy].state = "confirmed"
            /\ evaluation[cy] # NoEvaluation /\ evaluation[cy].state # "resolved"
    /\ answer = "ready" =>
            resolution[cy].state = "confirmed" /\ evaluation[cy].state = "resolved"

AnswersInv ==
    /\ prep \in [Workers -> Prep]
    /\ answers \in [Cycles -> SUBSET Answers]
    /\ \A w \in Workers :
          /\ prep[w].stage # "none" => prep[w].cycle \in Cycles
          /\ prep[w].stage = "mapping" => resolution[prep[w].cycle].state = "confirmed"
    /\ \A cy \in Cycles : \A answer \in answers[cy] : Answered(cy, answer)

DirectoryTyped ==
    /\ company \in [Companies -> Directory]
    /\ target \subseteq Targets /\ related \subseteq Companies \X target
    /\ changes \in 0..MaxChanges /\ starts \in 0..MaxStarts

(* The inductive invariant.                                                *)
IInv == LinksInv /\ RulesInv /\ OneAtATime /\ AnswersInv /\ DirectoryTyped

(* A transaction on links belongs to a worker without a job, and leaves    *)
(* the locks of evaluations alone.                                         *)
TaskStep(w) ==
    \/ AdministerLinks(w) \/ RunTask(w) \/ ResolveIdentity(w)

(* A transaction that moves has begun.                                     *)
LEMMA TaskRuns == ASSUME NEW w, Transact(w) PROVE task[w] # Idle
<1>1. Idle.step = "none"
  BY DEF Idle
<1>2. CASE FailTask(w)
  BY <1>2 DEF FailTask
<1>3. CASE ~FailTask(w)
  <2>1. task[w].step \in {"reserve", "lock", "act"}
    BY <1>3 DEF Transact, Reserve, LockContact, Discover, Confirm, Reject, Resolve
  <2> QED BY <1>1, <2>1
<1> QED BY <1>2, <1>3

LEMMA TaskStepIsOwn ==
    ASSUME IInv, NEW w \in Workers, TaskStep(w)
    PROVE  /\ job[w] = NoJob /\ UNCHANGED <<directoryVars, rulesVars, company>>
           /\ \A v \in Workers \ {w} : task'[v] = task[v]
           /\ \A v \in Workers :
                 job[v].op = "evaluate" => cycleLock'[job[v].cycle] = v
<1>1. job[w] = NoJob
  <2>1. CASE AdministerLinks(w) \/ ResolveIdentity(w)
    BY <2>1 DEF AdministerLinks, ResolveIdentity, Free
  <2>2. CASE RunTask(w)
    <3>1. task[w] # Idle
      BY <2>2, TaskRuns DEF RunTask
    <3> QED BY <3>1 DEF IInv, OneAtATime
  <2> QED BY <2>1, <2>2 DEF TaskStep
<1>2. UNCHANGED <<directoryVars, rulesVars, company>>
  BY DEF TaskStep, AdministerLinks, RunTask, ResolveIdentity, Administer, Transact,
         BeginManual, BeginCommand, BeginBatch, BeginResolve, Reserve, LockContact,
         Discover, Confirm, Reject, Resolve, FailTask
<1>3. \A v \in Workers \ {w} : task'[v] = task[v]
  <2>1. task \in [Workers -> Task]
    BY DEF IInv, LinksInv, LinksTyped
  <2> QED BY <2>1 DEF TaskStep, AdministerLinks, RunTask, ResolveIdentity, Administer,
         Transact, BeginManual, BeginCommand, BeginBatch, BeginResolve, Reserve,
         LockContact, Discover, Confirm, Reject, Resolve, FailTask, Leave
<1>4. ASSUME NEW v \in Workers, job[v].op = "evaluate"
      PROVE  cycleLock'[job[v].cycle] = v
  <2>1. /\ v # w /\ job[v].cycle \in Cycles /\ cycleLock[job[v].cycle] = v
    BY <1>1, <1>4, EvaluatingJob DEF IInv, LinksInv, NoJob
  <2>2. CASE UNCHANGED cycleLock
    BY <2>1, <2>2
  <2>3. ASSUME NEW cy \in Cycles, BeginResolve(w, cy)
        PROVE  cycleLock'[job[v].cycle] = v
    BY <2>1, <2>3, IdentityAssumption DEF BeginResolve, IInv, LinksInv, LinksTyped
  <2>4. Good(w, task[w]) /\ cycleLock \in [Cycles -> Workers \cup {None}]
    BY DEF IInv, LinksInv, LinksTyped, TasksGood
  <2>5. CASE Resolve(w)
    BY <2>1, <2>4, <2>5 DEF Resolve, Good, Resolving
  <2>6. CASE FailTask(w)
    BY <2>1, <2>4, <2>6, IdentityAssumption DEF FailTask, Good, Resolving
  <2>7. \/ UNCHANGED cycleLock \/ Resolve(w) \/ FailTask(w)
        \/ \E cy \in Cycles : BeginResolve(w, cy)
    <3>1. CASE ResolveIdentity(w)
      <4>1. prep[w].cycle \in Cycles
        BY <3>1 DEF ResolveIdentity, IInv, AnswersInv
      <4> QED BY <3>1, <4>1 DEF ResolveIdentity
    <3> QED BY <3>1 DEF TaskStep, AdministerLinks, RunTask, Administer, Transact,
         BeginManual, BeginCommand, BeginBatch, Reserve, LockContact,
         Discover, Confirm, Reject
  <2> QED BY <2>2, <2>3, <2>5, <2>6, <2>7
<1> QED BY <1>1, <1>2, <1>3, <1>4

LEMMA TaskStepKeepsLinks == ASSUME IInv, NEW w \in Workers, TaskStep(w) PROVE LinksInv'
<1>1. CASE ResolveIdentity(w)
  <2>1. prep[w].cycle \in Cycles
    BY <1>1 DEF ResolveIdentity, IInv, AnswersInv
  <2> QED BY <1>1, <2>1, BeginResolveKeeps DEF ResolveIdentity, IInv
<1>2. CASE RunTask(w)
  BY <1>2, ReserveKeeps, LockContactKeeps, AdministrationKeeps, ResolveKeeps,
     FailTaskKeeps DEF RunTask, Transact, IInv
<1>3. CASE AdministerLinks(w)
  <2>1. ASSUME NEW op \in AdminOperations, NEW c \in Contacts, NEW x \in Companies,
               BeginManual(w, op, c, x) \/ \E k \in Keys : BeginCommand(w, op, c, x, k)
        PROVE  LinksInv'
    BY <2>1, BeginsKeep DEF IInv
  <2>2. ASSUME NEW c \in Contacts, BeginBatch(w, c) PROVE LinksInv'
    <3> DEFINE t == [Idle EXCEPT !.op = "batch", !.step = "lock", !.contact = c,
                                 !.left = Contacts \ {c}]
    <3>1. /\ t \in Task /\ t.op = "batch" /\ t.step = "lock" /\ t.contact = c
          /\ t.key = None /\ t.cycle = None
      BY DEF Idle, Task, LinkState
    <3>2. Good(w, t) /\ \A v \in Workers \ {w} : Apart(t, task[v])
      BY <3>1 DEF Good, Apart
    <3> QED BY <2>2, <3>1, <3>2, TaskMoves DEF BeginBatch, IInv
  <2> QED BY <1>3, <2>1, <2>2 DEF AdministerLinks, Administer
<1> QED BY <1>1, <1>2, <1>3 DEF TaskStep

LEMMA TaskStepKeepsRules == ASSUME IInv, NEW w \in Workers, TaskStep(w) PROVE RulesInv'
<1>1. UNCHANGED rulesVars /\ RulesInv
  BY TaskStepIsOwn DEF IInv
<1>2. \A v \in Workers : job[v].op = "evaluate" => cycleLock'[job[v].cycle] = v
  BY TaskStepIsOwn
<1>3. ASSUME NEW v \in Workers PROVE GoodJob(v, job[v])'
  <2>1. GoodJob(v, job[v]) /\ (job[v].op = "evaluate" => cycleLock'[job[v].cycle] = v)
    BY <1>1, <1>2 DEF RulesInv, JobsGood
  <2> QED BY <1>1, <2>1 DEF rulesVars, GoodJob, CurrentOf, Active
<1> QED BY <1>1, <1>3
        DEF rulesVars, RulesInv, RulesTyped, JobsGood, JobsApart, ApartJobs,
            OneActiveRule, Active

(* An outcome is decided once.                                             *)
LEMMA TaskStepKeepsOutcomes ==
    ASSUME IInv, NEW w \in Workers, TaskStep(w) PROVE OutcomesKept
<1>1. UNCHANGED evaluation
  BY TaskStepIsOwn DEF rulesVars
<1>2. CASE Resolve(w)
  <2>1. task[w].cycle \in Cycles /\ resolution[task[w].cycle] = Unresolved
    BY <1>2 DEF Resolve, IInv, LinksInv, TasksGood, Good, Resolving
  <2>2. \A cy \in Cycles : cy # task[w].cycle => resolution'[cy] = resolution[cy]
    BY <1>2 DEF Resolve, IInv, LinksInv, LinksTyped
  <2> QED BY <1>1, <2>1, <2>2 DEF OutcomesKept
<1>3. Resolve(w) \/ UNCHANGED resolution
  BY DEF TaskStep, AdministerLinks, RunTask, ResolveIdentity, Administer, Transact,
         BeginManual, BeginCommand, BeginBatch, BeginResolve, Reserve, LockContact,
         Discover, Confirm, Reject, FailTask
<1> QED BY <1>1, <1>2, <1>3 DEF OutcomesKept

LEMMA TaskStepKeepsRest ==
    ASSUME IInv, NEW w \in Workers, TaskStep(w)
    PROVE  OneAtATime' /\ DirectoryTyped' /\ UNCHANGED <<prep, answers>>
<1>1. OneAtATime'
  BY TaskStepIsOwn DEF IInv, OneAtATime, rulesVars
<1>2. UNCHANGED <<prep, answers>> /\ (UNCHANGED starts \/ Count)
  BY DEF TaskStep, AdministerLinks, RunTask, ResolveIdentity, prepVars
<1>3. starts' \in 0..MaxStarts
  BY <1>2, PreparationAssumption DEF IInv, DirectoryTyped, Count
<1> QED BY <1>1, <1>2, <1>3, TaskStepIsOwn DEF IInv, DirectoryTyped, directoryVars

(* A job belongs to a worker without a transaction on links.               *)
JobStep(w) ==
    \/ AdministerRules(w) \/ RunConfiguration(w) \/ RunEvaluation(w)
    \/ RollBack(w) \/ EvaluateMapping(w)

(* A job that moves has begun.                                             *)
LEMMA JobRuns ==
    ASSUME NEW w, \/ LockRules(w) \/ Configure(w)
                  \/ ReadRule(w) \/ ReadTarget(w) \/ ReadCompany(w) \/ Evaluate(w)
                  \/ FailJob(w)
    PROVE  job[w] # NoJob
<1>1. NoJob.step = "none"
  BY DEF NoJob
<1>2. CASE FailJob(w)
  BY <1>2 DEF FailJob
<1>3. CASE ~FailJob(w)
  <2>1. job[w].step \in {"lock", "write", "target", "company", "relation"}
    BY <1>3 DEF LockRules, Configure, ReadRule, ReadTarget, ReadCompany, Evaluate
  <2> QED BY <1>1, <2>1
<1> QED BY <1>2, <1>3

LEMMA JobStepIsOwn ==
    ASSUME IInv, NEW w \in Workers, JobStep(w)
    PROVE  /\ task[w] = Idle /\ UNCHANGED <<company, identityVars, prep, answers>>
           /\ UNCHANGED <<directoryVars, known>>
           /\ \A v \in Workers \ {w} : job'[v] = job[v]
           /\ UNCHANGED starts \/ Count
<1>1. task[w] = Idle
  <2>1. CASE AdministerRules(w) \/ EvaluateMapping(w)
    BY <2>1 DEF AdministerRules, EvaluateMapping, Free
  <2>2. CASE RunConfiguration(w) \/ RunEvaluation(w) \/ RollBack(w)
    <3>1. job[w] # NoJob
      BY <2>2, JobRuns DEF RunConfiguration, RunEvaluation, RollBack
    <3> QED BY <3>1 DEF IInv, OneAtATime
  <2> QED BY <2>1, <2>2 DEF JobStep
<1>2. /\ UNCHANGED <<company, identityVars, prep, answers>>
      /\ UNCHANGED <<directoryVars, known>> /\ (UNCHANGED starts \/ Count)
  BY DEF JobStep, AdministerRules, RunConfiguration, RunEvaluation, RollBack,
         EvaluateMapping, BeginConfigure, BeginEvaluate, LockRules, Configure,
         ReadRule, ReadTarget, ReadCompany, Evaluate, FailJob, prepVars
<1>3. \A v \in Workers \ {w} : job'[v] = job[v]
  <2>1. job \in [Workers -> Job]
    BY DEF IInv, RulesInv, RulesTyped
  <2> QED BY <2>1 DEF JobStep, AdministerRules, RunConfiguration, RunEvaluation,
         RollBack, EvaluateMapping, BeginConfigure, BeginEvaluate, LockRules,
         Configure, ReadRule, ReadTarget, ReadCompany, Evaluate, FailJob, Store
<1> QED BY <1>1, <1>2, <1>3

LEMMA JobStepKeepsRules == ASSUME IInv, NEW w \in Workers, JobStep(w) PROVE RulesInv'
<1>1. RulesInv /\ LinksTyped /\ UNCHANGED resolution
  BY JobStepIsOwn DEF IInv, LinksInv, identityVars
<1>2. CASE AdministerRules(w)
  BY <1>1, <1>2, BeginConfigureKeeps DEF AdministerRules
<1>3. CASE RunConfiguration(w)
  BY <1>1, <1>3, LockRulesKeeps, ConfigureKeeps DEF RunConfiguration
<1>4. CASE RunEvaluation(w)
  BY <1>1, <1>4, ReadRuleKeeps, ReadsKeep, EvaluateKeeps DEF RunEvaluation
<1>5. CASE RollBack(w)
  BY <1>1, <1>5, FailJobKeeps DEF RollBack
<1>6. CASE EvaluateMapping(w)
  <2>1. prep[w].cycle \in Cycles
    BY <1>6 DEF EvaluateMapping, IInv, AnswersInv
  <2> QED BY <1>1, <1>6, <2>1, BeginEvaluateKeeps DEF EvaluateMapping
<1> QED BY <1>2, <1>3, <1>4, <1>5, <1>6 DEF JobStep

(* What a job does to a cycle: it takes it when it is free, or stores or   *)
(* fails while it holds it.                                                *)
LEMMA JobStepCycle ==
    ASSUME IInv, NEW w \in Workers, JobStep(w)
    PROVE  /\ cycleLock' \in [Cycles -> Workers \cup {None}]
           /\ \A cy \in Cycles :
                /\ cycleLock[cy] \notin {None, w} => cycleLock'[cy] = cycleLock[cy]
                /\ evaluation[cy] # NoEvaluation => evaluation'[cy] = evaluation[cy]
<1>1. /\ cycleLock \in [Cycles -> Workers \cup {None}]
      /\ evaluation \in [Cycles -> Evaluation]
      /\ GoodJob(w, job[w]) /\ None \notin Cycles
  BY IdentityAssumption DEF IInv, LinksInv, LinksTyped, RulesInv, RulesTyped, JobsGood
<1>2. CASE UNCHANGED <<cycleLock, evaluation>>
  BY <1>1, <1>2
<1>3. ASSUME NEW cy \in Cycles, BeginEvaluate(w, cy)
      PROVE  /\ cycleLock' \in [Cycles -> Workers \cup {None}]
             /\ \A c \in Cycles :
                  /\ cycleLock[c] \notin {None, w} => cycleLock'[c] = cycleLock[c]
                  /\ evaluation[c] # NoEvaluation => evaluation'[c] = evaluation[c]
  BY <1>1, <1>3 DEF BeginEvaluate, Store, Evaluated
<1>4. ASSUME job[w].op = "evaluate", NEW snapshot, Store(w, job[w].cycle, snapshot)
      PROVE  /\ cycleLock' \in [Cycles -> Workers \cup {None}]
             /\ \A c \in Cycles :
                  /\ cycleLock[c] \notin {None, w} => cycleLock'[c] = cycleLock[c]
                  /\ evaluation[c] # NoEvaluation => evaluation'[c] = evaluation[c]
  BY <1>1, <1>4 DEF Store, GoodJob
<1>5. CASE FailJob(w)
  BY <1>1, <1>5 DEF FailJob, GoodJob
<1>6. \/ UNCHANGED <<cycleLock, evaluation>> \/ FailJob(w)
      \/ \E cy \in Cycles : BeginEvaluate(w, cy)
      \/ job[w].op = "evaluate" /\ \E snapshot : Store(w, job[w].cycle, snapshot)
  <2>1. CASE EvaluateMapping(w)
    <3>1. prep[w].cycle \in Cycles
      BY <2>1 DEF EvaluateMapping, IInv, AnswersInv
    <3> QED BY <2>1, <3>1 DEF EvaluateMapping
  <2>2. CASE RunEvaluation(w)
    <3>1. ReadRule(w) => UNCHANGED <<cycleLock, evaluation>> \/
              (job[w].op = "evaluate" /\ \E snapshot : Store(w, job[w].cycle, snapshot))
      BY DEF ReadRule
    <3>2. Evaluate(w) =>
              job[w].op = "evaluate" /\ \E snapshot : Store(w, job[w].cycle, snapshot)
      BY <1>1 DEF Evaluate, GoodJob
    <3>3. ReadTarget(w) \/ ReadCompany(w) => UNCHANGED <<cycleLock, evaluation>>
      BY DEF ReadTarget, ReadCompany
    <3> QED BY <2>2, <3>1, <3>2, <3>3 DEF RunEvaluation
  <2>3. CASE AdministerRules(w) \/ RunConfiguration(w)
    BY <2>3 DEF AdministerRules, RunConfiguration, BeginConfigure, LockRules, Configure
  <2> QED BY <2>1, <2>2, <2>3 DEF JobStep, RollBack
<1> QED BY <1>2, <1>3, <1>4, <1>5, <1>6

LEMMA JobStepKeepsLinks == ASSUME IInv, NEW w \in Workers, JobStep(w) PROVE LinksInv'
<1>1. LinksInv /\ task[w] = Idle /\ UNCHANGED <<link, command, resolution, task, applied>>
  BY JobStepIsOwn DEF IInv, identityVars
<1>2. LinksTyped'
  BY <1>1, JobStepCycle DEF LinksInv, LinksTyped
<1>3. TasksGood'
  <2>1. ASSUME NEW v \in Workers PROVE Good(v, task[v])'
    <3>1. Good(v, task[v])
      BY <1>1 DEF LinksInv, TasksGood
    <3>2. task[v].op = "resolve" => cycleLock'[task[v].cycle] = v
      <4> SUFFICES ASSUME task[v].op = "resolve" PROVE cycleLock'[task[v].cycle] = v
        OBVIOUS
      <4>1. /\ task[v].cycle \in Cycles /\ cycleLock[task[v].cycle] = v
            /\ v # w /\ v # None
        BY <1>1, <3>1, IdentityAssumption DEF Good, Resolving, Idle
      <4> QED BY <4>1, JobStepCycle
    <3> QED BY <1>1, <3>1, <3>2 DEF Good, Resolving
  <2> QED BY <2>1 DEF TasksGood
<1>4. (TasksApart /\ OneConfirmedCompany /\ AppliedOncePerKey)'
  BY <1>1 DEF LinksInv, TasksApart, Apart, OneConfirmedCompany, AppliedOncePerKey
<1> QED BY <1>2, <1>3, <1>4 DEF LinksInv

LEMMA JobStepKeepsRest ==
    ASSUME IInv, NEW w \in Workers, JobStep(w)
    PROVE  /\ OneAtATime' /\ DirectoryTyped' /\ OutcomesKept
           /\ UNCHANGED <<prep, answers>>
<1>1. OneAtATime'
  BY JobStepIsOwn DEF IInv, OneAtATime, identityVars
<1>2. starts' \in 0..MaxStarts
  BY JobStepIsOwn, PreparationAssumption DEF IInv, DirectoryTyped, Count
<1>3. DirectoryTyped'
  BY <1>2, JobStepIsOwn DEF IInv, DirectoryTyped, directoryVars
<1>4. OutcomesKept
  BY JobStepIsOwn, JobStepCycle DEF OutcomesKept, identityVars
<1> QED BY <1>1, <1>3, <1>4, JobStepIsOwn

(* The steps of a preparation between its two transactions.                *)
PrepStep(w) ==
    TakeIdentity(w) \/ TakeMapping(w) \/ Abandon(w)
        \/ \E cy \in Cycles : Prepare(w, cy)

(* What a publication of the directory or of DigiSac changes.              *)
Published ==
    \/ \E x \in Companies : PublishCompany(x)
    \/ \E t \in Targets : PublishTarget(t)
    \/ \E x \in Companies, t \in Targets : PublishRelation(x, t)
    \/ \E d \in Departments : LearnDepartment(d)

LEMMA OthersKeepTransactions ==
    ASSUME IInv, Published \/ \E w \in Workers : PrepStep(w)
    PROVE  LinksInv' /\ RulesInv' /\ OneAtATime' /\ DirectoryTyped' /\ OutcomesKept
<1>1. UNCHANGED <<identityVars, cycleLock, rules, transition, evaluation, job>>
  BY DEF Published, PublishCompany, SetCompany, PublishTarget, PublishRelation,
         LearnDepartment, PrepStep, TakeIdentity, TakeMapping, Abandon, Prepare, rulesVars
<1>2. known' \subseteq Departments
  BY DEF Published, PublishCompany, PublishTarget, PublishRelation, LearnDepartment,
         PrepStep, TakeIdentity, TakeMapping, Abandon, Prepare, rulesVars,
         IInv, RulesInv, RulesTyped
<1>3. LinksInv'
  BY <1>1 DEF IInv, LinksInv, LinksTyped, TasksGood, TasksApart, Good, Apart, Resolving,
              OneConfirmedCompany, AppliedOncePerKey, identityVars
<1>4. RulesInv'
  <2>1. \A v \in Workers : GoodJob(v, job[v])'
    <3> SUFFICES ASSUME NEW v \in Workers PROVE GoodJob(v, job[v])'
      OBVIOUS
    <3>1. GoodJob(v, job[v])
      BY DEF IInv, RulesInv, JobsGood
    <3> QED BY <1>1, <3>1 DEF GoodJob, CurrentOf, Active
  <2> QED BY <1>1, <1>2, <2>1 DEF IInv, RulesInv, RulesTyped, JobsGood, JobsApart,
                                  ApartJobs, OneActiveRule, Active
<1>5. OneAtATime' /\ OutcomesKept
  BY <1>1 DEF IInv, OneAtATime, OutcomesKept, identityVars
<1>6. DirectoryTyped'
  <2> USE RulesAssumption, PreparationAssumption DEF IInv, DirectoryTyped
  <2>1. ASSUME NEW x \in Companies, PublishCompany(x) PROVE DirectoryTyped'
    BY <2>1 DEF PublishCompany, SetCompany, prepVars
  <2>2. ASSUME NEW t \in Targets, PublishTarget(t) PROVE DirectoryTyped'
    BY <2>2 DEF PublishTarget, prepVars
  <2>3. ASSUME NEW x \in Companies, NEW t \in Targets, PublishRelation(x, t)
        PROVE  DirectoryTyped'
    BY <2>3 DEF PublishRelation, prepVars
  <2>4. ASSUME NEW d \in Departments, LearnDepartment(d) PROVE DirectoryTyped'
    BY <2>4 DEF LearnDepartment, prepVars, directoryVars
  <2>5. ASSUME NEW w \in Workers, PrepStep(w) PROVE DirectoryTyped'
    <3>1. UNCHANGED <<company, directoryVars>> /\ (UNCHANGED starts \/ Count)
      BY <2>5 DEF PrepStep, TakeIdentity, TakeMapping, Abandon, Prepare
    <3> QED BY <3>1 DEF directoryVars, Count
  <2> QED BY <2>1, <2>2, <2>3, <2>4, <2>5 DEF Published
<1> QED BY <1>3, <1>4, <1>5, <1>6

(* Answers rest on outcomes, and outcomes are kept.                        *)
LEMMA AnsweredStays ==
    ASSUME OutcomesKept, NEW cy \in Cycles, NEW answer \in Answers, Answered(cy, answer)
    PROVE  Answered(cy, answer)'
BY DEF OutcomesKept, Answered, Answers, Unresolved, NoEvaluation

LEMMA AnswersStay ==
    ASSUME AnswersInv, OutcomesKept, UNCHANGED <<prep, answers>>
    PROVE  AnswersInv'
<1>1. \A cy \in Cycles : \A answer \in answers'[cy] : Answered(cy, answer)'
  BY AnsweredStays DEF AnswersInv
<1>2. \A cy \in Cycles : resolution[cy].state = "confirmed" =>
                            resolution'[cy].state = "confirmed"
  BY DEF OutcomesKept, Unresolved
<1> QED BY <1>1, <1>2 DEF AnswersInv

LEMMA PrepStepKeepsAnswers ==
    ASSUME IInv, NEW w \in Workers, PrepStep(w) PROVE AnswersInv'
<1>1. UNCHANGED <<resolution, evaluation>>
  BY DEF PrepStep, TakeIdentity, TakeMapping, Abandon, Prepare, identityVars, rulesVars
<1>2. AnswersInv
  BY DEF IInv
<1>3. \A cy \in Cycles : \A answer \in answers[cy] : Answered(cy, answer)'
  BY <1>1, <1>2 DEF AnswersInv, Answered
<1>4. NoPrep \in Prep /\ NoPrep.stage = "none"
  BY DEF NoPrep, Prep
<1>5. CASE Abandon(w)
  BY <1>1, <1>2, <1>3, <1>4, <1>5 DEF Abandon, AnswersInv
<1>6. ASSUME NEW cy \in Cycles, Prepare(w, cy) PROVE AnswersInv'
  <2> DEFINE p == [cycle |-> cy, stage |-> "identity"]
  <2>1. p \in Prep /\ p.stage = "identity" /\ p.cycle = cy
    BY DEF Prep
  <2>2. prep' = [prep EXCEPT ![w] = p] /\ UNCHANGED answers
    BY <1>6 DEF Prepare
  <2> HIDE DEF p
  <2> QED BY <1>1, <1>2, <1>3, <2>1, <2>2 DEF AnswersInv
<1>7. ASSUME NEW answer \in Answers, Answer(w, answer), NEW c \in Cycles,
             c = prep[w].cycle, Answered(c, answer)'
      PROVE  AnswersInv'
  <2>1. /\ answers' = [answers EXCEPT ![prep[w].cycle] = @ \cup {answer}]
        /\ prep' = [prep EXCEPT ![w] = NoPrep]
    BY <1>7 DEF Answer
  <2>2. answers' \in [Cycles -> SUBSET Answers] /\ prep' \in [Workers -> Prep]
    BY <1>2, <1>4, <1>7, <2>1 DEF AnswersInv
  <2>3. ASSUME NEW cy \in Cycles, NEW a \in answers'[cy] PROVE Answered(cy, a)'
    <3>1. CASE a \in answers[cy]
      BY <1>3, <3>1
    <3>2. CASE a \notin answers[cy]
      <4>1. cy = c /\ a = answer
        BY <1>2, <1>7, <2>1, <3>2 DEF AnswersInv
      <4> QED BY <1>7, <4>1
    <3> QED BY <3>1, <3>2
  <2> QED BY <1>1, <1>2, <1>4, <2>1, <2>2, <2>3 DEF AnswersInv
<1>8. CASE TakeIdentity(w)
  <2>1. prep[w].cycle \in Cycles /\ prep[w] \in Prep
    BY <1>2, <1>8 DEF TakeIdentity, AnswersInv
  <2>2. CASE resolution[prep[w].cycle].state = "confirmed"
    <3>1. prep' = [prep EXCEPT ![w].stage = "mapping"] /\ UNCHANGED answers
      BY <1>8, <2>2 DEF TakeIdentity
    <3>2. /\ prep' \in [Workers -> Prep]
          /\ prep'[w].cycle = prep[w].cycle
          /\ \A v \in Workers \ {w} : prep'[v] = prep[v]
      BY <1>2, <2>1, <3>1 DEF AnswersInv, Prep
    <3> QED BY <1>1, <1>2, <1>3, <2>1, <2>2, <3>1, <3>2 DEF AnswersInv
  <2>3. CASE resolution[prep[w].cycle].state # "confirmed"
    <3>1. Answered(prep[w].cycle, "identity")
      BY <1>8, <2>3 DEF TakeIdentity, Answered
    <3>2. Answer(w, "identity")
      BY <1>8, <2>3 DEF TakeIdentity
    <3>3. PICK cy \in Cycles : cy = prep[w].cycle
      BY <2>1
    <3>4. Answered(cy, "identity")'
      BY <1>1, <3>1, <3>3 DEF Answered
    <3> QED BY <1>7, <3>2, <3>3, <3>4 DEF Answers
  <2> QED BY <2>2, <2>3
<1>9. CASE TakeMapping(w)
  <2>1. /\ prep[w].cycle \in Cycles
        /\ resolution[prep[w].cycle].state = "confirmed"
        /\ evaluation[prep[w].cycle] # NoEvaluation
    BY <1>2, <1>9 DEF TakeMapping, AnswersInv
  <2>2. PICK cy \in Cycles : cy = prep[w].cycle
    BY <2>1
  <2>3. PICK a \in Answers :
          /\ a = IF evaluation[cy].state = "resolved" THEN "ready" ELSE "mapping"
          /\ Answer(w, a)
    BY <1>9, <2>2 DEF TakeMapping, Answers
  <2>4. Answered(cy, a)'
    BY <1>1, <2>1, <2>2, <2>3 DEF Answered
  <2> QED BY <1>7, <2>2, <2>3, <2>4
<1> QED BY <1>5, <1>6, <1>8, <1>9 DEF PrepStep
-----------------------------------------------------------------------------
LEMMA InitIInv == PreparationInit => IInv
<1> SUFFICES ASSUME PreparationInit PROVE IInv
  OBVIOUS
<1>1. LinksInv /\ RulesInv
  BY InitLinksInv, InitRulesInv DEF PreparationInit
<1>2. OneAtATime
  BY DEF PreparationInit, IdentityInit, OneAtATime
<1>3. AnswersInv
  BY DEF PreparationInit, AnswersInv, Prep, NoPrep
<1>4. DirectoryTyped
  BY RulesAssumption, PreparationAssumption
     DEF PreparationInit, IdentityInit, RulesInit, DirectoryTyped, Directory
<1> QED BY <1>1, <1>2, <1>3, <1>4 DEF IInv

(* Whose step it is.                                                       *)
LEMMA Steps ==
    ASSUME PreparationNext
    PROVE  \/ \E w \in Workers : TaskStep(w) \/ JobStep(w) \/ PrepStep(w)
           \/ Published
BY DEF PreparationNext, Work, TaskStep, JobStep, PrepStep, Published

LEMMA NextKeeps == IInv /\ [PreparationNext]_preparationVars => IInv'
<1> SUFFICES ASSUME IInv, [PreparationNext]_preparationVars PROVE IInv'
  OBVIOUS
<1>1. ASSUME NEW w \in Workers, TaskStep(w) PROVE IInv'
  <2>1. AnswersInv'
    BY <1>1, TaskStepKeepsOutcomes, TaskStepKeepsRest, AnswersStay DEF IInv
  <2> QED BY <1>1, <2>1, TaskStepKeepsLinks, TaskStepKeepsRules, TaskStepKeepsRest DEF IInv
<1>2. ASSUME NEW w \in Workers, JobStep(w) PROVE IInv'
  <2>1. AnswersInv'
    BY <1>2, JobStepKeepsRest, AnswersStay DEF IInv
  <2> QED BY <1>2, <2>1, JobStepKeepsLinks, JobStepKeepsRules, JobStepKeepsRest DEF IInv
<1>3. ASSUME NEW w \in Workers, PrepStep(w) PROVE IInv'
  BY <1>3, OthersKeepTransactions, PrepStepKeepsAnswers DEF IInv
<1>4. CASE Published
  <2>1. UNCHANGED <<prep, answers>>
    BY <1>4 DEF Published, PublishCompany, PublishTarget, PublishRelation,
                LearnDepartment, prepVars
  <2>2. AnswersInv'
    BY <1>4, <2>1, OthersKeepTransactions, AnswersStay DEF IInv
  <2> QED BY <1>4, <2>2, OthersKeepTransactions DEF IInv
<1>5. CASE UNCHANGED preparationVars
  <2> USE <1>5 DEF preparationVars, identityVars, directoryVars, rulesVars, prepVars, IInv
  <2>1. LinksInv'
    BY DEF LinksInv, LinksTyped, TasksGood, TasksApart, Good, Apart, Resolving,
           OneConfirmedCompany, AppliedOncePerKey
  <2>2. RulesInv'
    BY DEF RulesInv, RulesTyped, JobsGood, JobsApart, GoodJob, ApartJobs, CurrentOf,
           Active, OneActiveRule
  <2>3. (OneAtATime /\ AnswersInv /\ DirectoryTyped)'
    BY DEF OneAtATime, AnswersInv, Answered, DirectoryTyped
  <2> QED BY <2>1, <2>2, <2>3
<1> QED BY <1>1, <1>2, <1>3, <1>4, <1>5, Steps

LEMMA AlwaysIInv == PreparationSpec => []IInv
BY InitIInv, NextKeeps, PTL DEF PreparationSpec

(* Links, rules, snapshots and preparations keep their shape.              *)
THEOREM TypeCorrect == PreparationSpec => []TypeOK
<1>1. IInv => TypeOK
  BY DEF IInv, LinksInv, LinksTyped, RulesInv, RulesTyped, AnswersInv, DirectoryTyped,
         TypeOK, IdentityTypeOK, RulesTypeOK
<1> QED BY <1>1, AlwaysIInv, PTL

(* However discoveries, confirmations and rejections interleave, a contact *)
(* has at most one confirmed company.                                      *)
THEOREM OneCompany == PreparationSpec => []OneConfirmedCompany
BY AlwaysIInv, PTL DEF IInv, LinksInv

(* An administrator's request takes effect at most once per key.           *)
THEOREM KeysAppliedOnce == PreparationSpec => []AppliedOncePerKey
BY AlwaysIInv, PTL DEF IInv, LinksInv

(* The last version of a rule at most is active.                           *)
THEOREM OneRule == PreparationSpec => []OneActiveRule
BY AlwaysIInv, PTL DEF IInv, RulesInv

(* All preparations of a cycle, by whichever workers, answer the same.     *)
THEOREM SameAnswer == PreparationSpec => []PreparationsAgree
<1>1. IInv => PreparationsAgree
  <2> SUFFICES ASSUME IInv, NEW cy \in Cycles PROVE Cardinality(answers[cy]) <= 1
    BY DEF PreparationsAgree
  <2>1. answers[cy] \subseteq Answers /\ \A a \in answers[cy] : Answered(cy, a)
    BY DEF IInv, AnswersInv
  <2>2. \A a \in answers[cy], b \in answers[cy] : a = b
    BY <2>1 DEF Answers, Answered
  <2>3. CASE answers[cy] = {}
    BY <2>3, FS_EmptySet
  <2>4. ASSUME NEW a \in answers[cy] PROVE Cardinality(answers[cy]) <= 1
    <3>1. answers[cy] = {a}
      BY <2>2
    <3>2. Cardinality({a}) = 1
      BY FS_Singleton
    <3> QED BY <3>1, <3>2
  <2> QED BY <2>3, <2>4
<1> QED BY <1>1, AlwaysIInv, PTL

(* An outcome is decided once, and a confirmed one by a confirmed link.    *)
THEOREM OutcomeJustified == PreparationSpec => OutcomeIsConfirmedLink
<1>1. ASSUME IInv, [PreparationNext]_preparationVars, NEW cy \in Cycles,
             resolution'[cy] # resolution[cy]
      PROVE  /\ resolution[cy] = Unresolved
             /\ resolution'[cy].state = "confirmed" =>
                   link[ContactOf[cy]][resolution'[cy].company] = "confirmed"
  <2>1. PICK w \in Workers : TaskStep(w)
    <3>1. \E w \in Workers : TaskStep(w)
      BY <1>1, Steps, JobStepIsOwn, OthersKeepTransactions
         DEF Published, PublishCompany, SetCompany, PublishTarget, PublishRelation,
             LearnDepartment, PrepStep, TakeIdentity, TakeMapping, Abandon, Prepare,
             identityVars, preparationVars
    <3> QED BY <3>1
  <2>2. resolution[cy] = Unresolved
    BY <1>1, <2>1, TaskStepKeepsOutcomes DEF OutcomesKept
  <2>3. Resolve(w)
    BY <1>1, <2>1 DEF TaskStep, AdministerLinks, RunTask, ResolveIdentity, Administer,
         Transact, BeginManual, BeginCommand, BeginBatch, BeginResolve, Reserve,
         LockContact, Discover, Confirm, Reject, FailTask
  <2>4. /\ resolution \in [Cycles -> Resolution] /\ task[w].cycle \in Cycles
        /\ task[w].links = link[task[w].contact]
        /\ task[w].contact = ContactOf[task[w].cycle]
    BY <1>1, <2>3, ActsOnCurrent DEF Resolve, IInv, LinksInv, LinksTyped, TasksGood,
                                     Good, Resolving
  <2>5. cy = task[w].cycle /\ resolution'[cy] \in Outcome(w)
    BY <1>1, <2>3, <2>4 DEF Resolve
  <2>6. \A o \in Outcome(w) :
          o.state = "confirmed" => task[w].links[o.company] = "confirmed"
    BY DEF Outcome, Confirmed
  <2> QED BY <2>2, <2>4, <2>5, <2>6
<1>2. IInv /\ [PreparationNext]_preparationVars =>
        [\A cy \in Cycles : resolution'[cy] # resolution[cy] =>
            /\ resolution[cy] = Unresolved
            /\ resolution'[cy].state = "confirmed" =>
                  link[ContactOf[cy]][resolution'[cy].company] = "confirmed"
           ]_<<resolution, link>>
  BY <1>1
<1> QED BY <1>2, AlwaysIInv, PTL DEF PreparationSpec, OutcomeIsConfirmedLink

(* A snapshot is stored once, under the rule that is then in force, for a  *)
(* department that is then present and related to the company.             *)
THEOREM MappedByRuleInForce == PreparationSpec => EvaluationUsesActiveRule
<1>1. ASSUME IInv, [PreparationNext]_preparationVars, NEW cy \in Cycles,
             evaluation'[cy] # evaluation[cy]
      PROVE  /\ evaluation[cy] = NoEvaluation
             /\ evaluation'[cy].version # 0 =>
                   LET d == DepartmentOf[cy]
                   IN  /\ Active(d) = {evaluation'[cy].version}
                       /\ rules[d][evaluation'[cy].version].target
                             = evaluation'[cy].target
             /\ evaluation'[cy].state = "resolved" =>
                   /\ evaluation'[cy].target \in target
                   /\ <<evaluation'[cy].company, evaluation'[cy].target>> \in related
  <2>1. PICK w \in Workers : JobStep(w)
    <3>1. \E w \in Workers : JobStep(w)
      BY <1>1, Steps, TaskStepIsOwn
         DEF Published, PublishCompany, SetCompany, PublishTarget, PublishRelation,
             LearnDepartment, PrepStep, TakeIdentity, TakeMapping, Abandon, Prepare,
             rulesVars, preparationVars
    <3> QED BY <3>1
  <2>2. evaluation[cy] = NoEvaluation
    BY <1>1, <2>1, JobStepCycle
  <2>3. evaluation \in [Cycles -> Evaluation]
    BY <1>1 DEF IInv, RulesInv, RulesTyped
  <2>4. ASSUME NEW c \in Cycles, NEW state \in {"unresolved", "invalid"},
               NEW x \in Companies \cup {None}, Store(w, c, Unmapped(state, x))
        PROVE  evaluation'[cy].version = 0 /\ evaluation'[cy].state # "resolved"
    BY <1>1, <2>3, <2>4, UnmappedTyped DEF Store
  <2>5. CASE Evaluate(w)
    <3> DEFINE d == job[w].dept
    <3>1. /\ job[w].op = "evaluate" /\ d \in Departments
          /\ job[w].current \in Active(d)
          /\ job[w].target = rules[d][job[w].current].target
          /\ d = DepartmentOf[job[w].cycle] /\ job[w].cycle \in Cycles
      BY <1>1, <2>5 DEF Evaluate, IInv, RulesInv, JobsGood, GoodJob
    <3>2. Active(d) = {job[w].current}
      BY <1>1, <3>1, RuleInForce DEF IInv
    <3>3. /\ cy = job[w].cycle
          /\ evaluation'[cy].version = job[w].current
          /\ evaluation'[cy].target = job[w].target
      BY <1>1, <2>3, <2>5, <3>1 DEF Evaluate, Store
    <3>4. /\ evaluation'[cy].company = resolution[cy].company
          /\ evaluation'[cy].state = "resolved" =>
                <<resolution[cy].company, job[w].target>> \in related
      BY <1>1, <2>3, <2>5, <3>1, <3>3 DEF Evaluate, Store, Available
    <3>5. related \subseteq Companies \X target
      BY <1>1 DEF IInv, DirectoryTyped
    <3> QED BY <2>2, <3>1, <3>2, <3>3, <3>4, <3>5
  <2>6. CASE ReadRule(w)
    <3>1. /\ job[w].cycle \in Cycles
          /\ resolution[job[w].cycle].company \in Companies \cup {None}
      BY <1>1, <2>6, EvaluatingJob DEF ReadRule, IInv, LinksInv
    <3>2. Store(w, job[w].cycle, Unmapped("unresolved", resolution[job[w].cycle].company))
      BY <1>1, <2>6 DEF ReadRule
    <3> QED BY <2>2, <2>4, <3>1, <3>2
  <2>7. CASE EvaluateMapping(w)
    <3>1. PICK c \in Cycles : c = prep[w].cycle
      BY <1>1, <2>7 DEF EvaluateMapping, IInv, AnswersInv
    <3>2. PICK state \in Ineligible(c) : Store(w, c, Unmapped(state, None))
      BY <1>1, <2>7, <3>1 DEF EvaluateMapping, BeginEvaluate
    <3>3. state \in {"unresolved", "invalid"}
      BY DEF Ineligible
    <3> QED BY <2>2, <2>4, <3>2, <3>3
  <2>8. Evaluate(w) \/ ReadRule(w) \/ EvaluateMapping(w)
    BY <1>1, <2>1 DEF JobStep, AdministerRules, RunConfiguration, RunEvaluation,
         RollBack, BeginConfigure, LockRules, Configure, ReadTarget, ReadCompany, FailJob
  <2> QED BY <2>5, <2>6, <2>7, <2>8
<1>2. IInv /\ [PreparationNext]_preparationVars =>
        [\A cy \in Cycles : evaluation'[cy] # evaluation[cy] =>
            /\ evaluation[cy] = NoEvaluation
            /\ evaluation'[cy].version # 0 =>
                  LET d == DepartmentOf[cy]
                  IN  /\ Active(d) = {evaluation'[cy].version}
                      /\ rules[d][evaluation'[cy].version].target
                            = evaluation'[cy].target
            /\ evaluation'[cy].state = "resolved" =>
                  /\ evaluation'[cy].target \in target
                  /\ <<evaluation'[cy].company, evaluation'[cy].target>> \in related
           ]_<<evaluation, rules>>
  BY <1>1
<1> QED BY <1>2, AlwaysIInv, PTL DEF PreparationSpec, EvaluationUsesActiveRule

(* Every version that is added or changes is one that the rows of a new    *)
(* operation key name, with its new state.                                 *)
THEOREM ChangesExplained == PreparationSpec => ChangesAreAudited
<1>1. ASSUME IInv, [PreparationNext]_preparationVars, NEW d \in Departments,
             rules'[d] # rules[d]
      PROVE  /\ DOMAIN rules[d] \subseteq DOMAIN rules'[d]
             /\ \A v \in DOMAIN rules'[d] :
                   v \notin DOMAIN rules[d] \/ rules'[d][v] # rules[d][v] =>
                       \E k \in AnyKey : ExplainedBy(k, d, v)
  <2>1. PICK w \in Workers : Configure(w)
    <3>1. rules' # rules
      BY <1>1
    <3>2. PreparationNext
      BY <1>1, <3>1 DEF preparationVars, rulesVars
    <3>3. ~Published
      BY <3>1 DEF Published, PublishCompany, SetCompany, PublishTarget,
                  PublishRelation, LearnDepartment, rulesVars
    <3>4. ASSUME NEW w \in Workers, TaskStep(w) PROVE FALSE
      BY <1>1, <3>1, <3>4, TaskStepIsOwn DEF rulesVars
    <3>5. ASSUME NEW w \in Workers, PrepStep(w) PROVE FALSE
      BY <3>1, <3>5 DEF PrepStep, TakeIdentity, TakeMapping, Abandon, Prepare,
                        rulesVars
    <3>6. ASSUME NEW w \in Workers, JobStep(w) PROVE Configure(w)
      BY <3>1, <3>6
         DEF JobStep, AdministerRules, RunConfiguration, RunEvaluation, RollBack,
             EvaluateMapping, BeginConfigure, BeginEvaluate, LockRules, ReadRule,
             ReadTarget, ReadCompany, Evaluate, FailJob
    <3>7. \E w \in Workers : Configure(w)
      BY <3>2, <3>3, <3>4, <3>5, <3>6, Steps
    <3> QED BY <3>7
  <2>2. /\ rules \in [Departments -> Seq(Rule)] /\ job[w].step = "write"
        /\ transition \in [AnyKey -> Transition \cup {NoTransition}]
        /\ job[w].key \in AnyKey
    BY <1>1, <2>1 DEF Configure, IInv, RulesInv, RulesTyped, JobsGood, GoodJob
  <2>3. d = job[w].dept /\ rules'[d] = Configured(w)
    BY <1>1, <2>1, <2>2 DEF Configure
  <2>4. /\ Configured(w) \in Seq(Rule) /\ rules[d] \in Seq(Rule)
        /\ Len(rules[d]) <= Len(Configured(w))
        /\ \A v \in 1..Len(Configured(w)) :
             v \notin 1..Len(rules[d]) \/ Configured(w)[v] # rules[d][v] =>
                 \/ v = Audited(w) /\ Configured(w)[v].state = job[w].state
                 \/ v = Superseded(w) /\ Configured(w)[v].state = "inactive"
    BY <1>1, <2>2, <2>3, ConfiguredSound, ConfiguredExplained DEF IInv
  <2>5. transition'[job[w].key] =
          [dept |-> d, version |-> Audited(w), state |-> job[w].state,
           replaced |-> Superseded(w)]
    BY <2>1, <2>2, <2>3 DEF Configure
  <2>6. transition[job[w].key] = NoTransition
    BY <2>1 DEF Configure
  <2>7. /\ transition'[job[w].key].dept = d
        /\ transition'[job[w].key].version = Audited(w)
        /\ transition'[job[w].key].state = job[w].state
        /\ transition'[job[w].key].replaced = Superseded(w)
    BY <2>5
  <2>8. /\ DOMAIN rules[d] = 1..Len(rules[d])
        /\ DOMAIN rules'[d] = 1..Len(Configured(w))
        /\ 1..Len(rules[d]) \subseteq 1..Len(Configured(w))
    BY <2>3, <2>4, LenProperties
  <2>9. ASSUME NEW v \in DOMAIN rules'[d],
               v \notin DOMAIN rules[d] \/ rules'[d][v] # rules[d][v]
        PROVE  ExplainedBy(job[w].key, d, v)
    <3>1. \/ v = Audited(w) /\ rules'[d][v].state = job[w].state
          \/ v = Superseded(w) /\ rules'[d][v].state = "inactive"
      BY <2>3, <2>4, <2>8, <2>9
    <3> QED BY <2>6, <2>7, <3>1 DEF ExplainedBy
  <2> QED BY <2>2, <2>8, <2>9
<1>2. IInv /\ [PreparationNext]_preparationVars =>
        [\A d \in Departments :
            /\ DOMAIN rules[d] \subseteq DOMAIN rules'[d]
            /\ \A v \in DOMAIN rules'[d] :
                  v \notin DOMAIN rules[d] \/ rules'[d][v] # rules[d][v] =>
                      \E k \in AnyKey : ExplainedBy(k, d, v)
           ]_<<rules, transition>>
  <2>1. ASSUME NEW d \in Departments, rules'[d] = rules[d]
        PROVE  /\ DOMAIN rules[d] \subseteq DOMAIN rules'[d]
               /\ \A v \in DOMAIN rules'[d] :
                     v \in DOMAIN rules[d] /\ rules'[d][v] = rules[d][v]
    BY <2>1
  <2> QED BY <1>1, <2>1
<1> QED BY <1>2, AlwaysIInv, PTL DEF PreparationSpec, ChangesAreAudited
=============================================================================
