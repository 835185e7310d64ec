--------------------------- MODULE IdentityLinks ---------------------------
(***************************************************************************)
(* Links between DigiSac contacts and Acessorias companies                 *)
(* (core/identity_resolution.py): automatic discovery of candidates,       *)
(* confirmation and rejection by an administrator, with or without an      *)
(* idempotency key, and the outcome that each conversation cycle keeps.    *)
(*                                                                         *)
(* A task is one transaction.  It takes its locks, reads, and writes when  *)
(* it commits; a task that fails writes nothing.                           *)
(***************************************************************************)
EXTENDS Integers, FiniteSets

CONSTANTS Contacts, Companies, Cycles, Workers,
          ContactOf,   \* ContactOf[cy]: the canonical contact of a cycle
          Evidence,    \* pairs <<contact, company>> that share a phone or an
                       \* e-mail; none of a group
          Keys,        \* idempotency keys of the administration API
          InitialLinks,   \* what earlier administration may have left
          None

ASSUME IdentityAssumption ==
    /\ ContactOf \in [Cycles -> Contacts]
    /\ Evidence \subseteq Contacts \X Companies
    /\ None \notin Contacts \cup Companies \cup Cycles \cup Workers \cup Keys
    /\ \A links \in InitialLinks :
          /\ links \in [Contacts -> [Companies ->
                {"none", "candidate", "confirmed", "rejected"}]]
          /\ \A c \in Contacts, x \in Companies, y \in Companies :
                links[c][x] = "confirmed" /\ links[c][y] = "confirmed" => x = y

VARIABLES company,     \* company[x]: what the directory says of a company
          link,        \* link[c][x]: the state of a link
          command,     \* command[k]: the request that a key completed
          resolution,  \* resolution[cy]: the immutable outcome of a cycle
          cycleLock,   \* cycleLock[cy]: the worker that locks the cycle row
          task,        \* task[w]: the transaction of a worker
          applied      \* history: how often the request of a key took effect

identityVars == <<link, command, resolution, task, applied>>
-----------------------------------------------------------------------------
(* active: present and is_active; unknown: present, is_active NULL.        *)
Directory == {"active", "unknown", "unavailable"}
LinkState == {"none", "candidate", "confirmed", "rejected"}
AdminOperations == {"discover", "confirm", "reject"}

Unresolved == [state |-> "none", company |-> None]
Resolution == [state : {"none", "confirmed", "conflict", "ambiguous",
                        "unresolved"},
               company : Companies \cup {None}]

NoRequest == [op |-> "none", contact |-> None, company |-> None]
Request == [op : AdminOperations \cup {"none"},
            contact : Contacts \cup {None}, company : Companies \cup {None}]

(* left: contacts that a batch has still to visit; matched, links: what    *)
(* the transaction has read.                                               *)
Idle == [op |-> "none", step |-> "none", contact |-> None, company |-> None,
         key |-> None, cycle |-> None, left |-> {}, matched |-> {},
         links |-> [x \in Companies |-> "none"]]

Task == [op : AdminOperations \cup {"none", "batch", "resolve"},
         step : {"none", "reserve", "lock", "act"},
         contact : Contacts \cup {None}, company : Companies \cup {None},
         key : Keys \cup {None}, cycle : Cycles \cup {None},
         left : SUBSET Contacts, matched : SUBSET Companies,
         links : [Companies -> LinkState]]

IdentityInit ==
    /\ company = [x \in Companies |-> "active"]
    /\ link \in InitialLinks
    /\ command = [k \in Keys |-> NoRequest]
    /\ resolution = [cy \in Cycles |-> Unresolved]
    /\ cycleLock = [cy \in Cycles |-> None]
    /\ task = [w \in Workers |-> Idle]
    /\ applied = [k \in Keys |-> 0]

RequestOf(t) == [op |-> t.op, contact |-> t.contact, company |-> t.company]
-----------------------------------------------------------------------------
(* An administrator's command.  A key that has completed is answered from  *)
(* its row, or refused for another request; neither changes anything.      *)
BeginCommand(w, op, c, x, k) ==
    /\ task[w] = Idle
    /\ command[k] = NoRequest
    /\ task' = [task EXCEPT ![w] =
                  [Idle EXCEPT !.op = op, !.step = "reserve", !.contact = c,
                               !.company = IF op = "discover" THEN None ELSE x,
                               !.key = k]]
    /\ UNCHANGED <<company, link, command, resolution, cycleLock, applied>>

(* Mutant of KeyFree: no transaction waits for the row of its key.         *)
KeyFreeAnyway(w) == TRUE

(* INSERT ... ON CONFLICT DO NOTHING waits for a transaction that inserted *)
(* the key, and finds the row of one that committed.                       *)
KeyFree(w) ==
    \A v \in Workers \ {w} :
        ~(task[v].key = task[w].key /\ task[v].step \in {"lock", "act"})

Reserve(w) ==
    /\ task[w].step = "reserve"
    /\ KeyFree(w)
    /\ task' = [task EXCEPT ![w] =
                  IF command[task[w].key] = NoRequest
                  THEN [@ EXCEPT !.step = "lock"] ELSE Idle]
    /\ UNCHANGED <<company, link, command, resolution, cycleLock, applied>>

(* The same operations without a key: manual_db confirmation and           *)
(* rejection, and discovery of one contact.                                *)
BeginManual(w, op, c, x) ==
    /\ task[w] = Idle
    /\ task' = [task EXCEPT ![w] =
                  [Idle EXCEPT !.op = op, !.step = "lock", !.contact = c,
                               !.company = IF op = "discover" THEN None ELSE x]]
    /\ UNCHANGED <<company, link, command, resolution, cycleLock, applied>>

(* Discovery of every contact, a transaction each.                         *)
BeginBatch(w, c) ==
    /\ task[w] = Idle
    /\ task' = [task EXCEPT ![w] =
                  [Idle EXCEPT !.op = "batch", !.step = "lock", !.contact = c,
                               !.left = Contacts \ {c}]]
    /\ UNCHANGED <<company, link, command, resolution, cycleLock, applied>>

(* A cycle that has an outcome keeps it: the caller gets the stored one.   *)
BeginResolve(w, cy) ==
    /\ task[w] = Idle
    /\ cycleLock[cy] = None
    /\ resolution[cy] = Unresolved
    /\ cycleLock' = [cycleLock EXCEPT ![cy] = w]
    /\ task' = [task EXCEPT ![w] =
                  [Idle EXCEPT !.op = "resolve", !.step = "lock",
                               !.contact = ContactOf[cy], !.cycle = cy]]
    /\ UNCHANGED <<company, link, command, resolution, applied>>
-----------------------------------------------------------------------------
(* match_identity over the directory as it is now.                         *)
Matched(c) ==
    {x \in Companies : <<c, x>> \in Evidence /\ company[x] # "unavailable"}

(* Mutant of ContactFree: the contact is not locked.                       *)
ContactFreeAnyway(w) == TRUE

(* The advisory lock and FOR UPDATE on the contact.                        *)
ContactFree(w) ==
    \A v \in Workers \ {w} :
        ~(task[v].contact = task[w].contact /\ task[v].step = "act")

LockContact(w) ==
    /\ task[w].step = "lock"
    /\ ContactFree(w)
    /\ task' = [task EXCEPT ![w].step = "act",
                            ![w].matched = Matched(task[w].contact),
                            ![w].links = link[task[w].contact]]
    /\ UNCHANGED <<company, link, command, resolution, cycleLock, applied>>

(* A batch goes on with its next contact, in the order of their ids.       *)
Leave(w) ==
    \E next \in IF task[w].left = {} THEN {Idle}
                ELSE {[Idle EXCEPT !.op = "batch", !.step = "lock",
                                   !.contact = c, !.left = task[w].left \ {c}] :
                        c \in task[w].left} :
        task' = [task EXCEPT ![w] = next]

(* The command is completed in the transaction of its effect.              *)
Complete(w) ==
    IF task[w].key = None THEN UNCHANGED <<command, applied>>
    ELSE /\ command' = [command EXCEPT ![task[w].key] = RequestOf(task[w])]
         /\ applied' = [applied EXCEPT ![task[w].key] = @ + 1]

(* A new match becomes a candidate; a link in any state stays as it is.    *)
WithCandidates(w) ==
    [x \in Companies |->
        IF x \in task[w].matched /\ task[w].links[x] = "none"
        THEN "candidate" ELSE task[w].links[x]]

Discover(w) ==
    /\ task[w].step = "act"
    /\ task[w].op \in {"discover", "batch"}
    /\ link' = [link EXCEPT ![task[w].contact] = WithCandidates(w)]
    /\ Complete(w)
    /\ Leave(w)
    /\ UNCHANGED <<company, resolution, cycleLock>>

(* Mutant of MayConfirm: other companies are not looked at.                *)
MayConfirmAnyway(w) == company[task[w].company] # "unavailable"

(* The company must be available, and no other one confirmed.              *)
MayConfirm(w) ==
    /\ company[task[w].company] # "unavailable"
    /\ \A x \in Companies \ {task[w].company} : task[w].links[x] # "confirmed"

Confirm(w) ==
    /\ task[w].step = "act"
    /\ task[w].op = "confirm"
    /\ MayConfirm(w)
    /\ link' = [link EXCEPT ![task[w].contact] =
                  [task[w].links EXCEPT ![task[w].company] = "confirmed"]]
    /\ Complete(w)
    /\ Leave(w)
    /\ UNCHANGED <<company, resolution, cycleLock>>

(* Only a link that exists is rejected, whatever its state.                *)
Reject(w) ==
    /\ task[w].step = "act"
    /\ task[w].op = "reject"
    /\ task[w].links[task[w].company] # "none"
    /\ link' = [link EXCEPT ![task[w].contact] =
                  [task[w].links EXCEPT ![task[w].company] = "rejected"]]
    /\ Complete(w)
    /\ Leave(w)
    /\ UNCHANGED <<company, resolution, cycleLock>>

Confirmed(links) == {x \in Companies : links[x] = "confirmed"}

(* A confirmed link decides, matched or not; one candidate does not.       *)
Outcome(w) ==
    LET confirmed == Confirmed(task[w].links)
    IN  IF Cardinality(confirmed) = 1
        THEN {[state |-> "confirmed", company |-> x] : x \in confirmed}
        ELSE {[state |-> IF Cardinality(confirmed) > 1 THEN "conflict"
                         ELSE IF Cardinality(task[w].matched) > 1
                         THEN "ambiguous" ELSE "unresolved",
               company |-> None]}

(* The outcome of a cycle is decided by a discovery in its transaction.    *)
Resolve(w) ==
    /\ task[w].step = "act"
    /\ task[w].op = "resolve"
    /\ link' = [link EXCEPT ![task[w].contact] = WithCandidates(w)]
    /\ \E outcome \in Outcome(w) :
        resolution' = [resolution EXCEPT ![task[w].cycle] = outcome]
    /\ cycleLock' = [cycleLock EXCEPT ![task[w].cycle] = None]
    /\ Leave(w)
    /\ UNCHANGED <<company, command, applied>>

(* Any error rolls the transaction back, its reservation of a key too; the *)
(* batch counts a failure and goes on, unless its process died.            *)
FailTask(w) ==
    /\ task[w] # Idle
    /\ Leave(w) \/ task' = [task EXCEPT ![w] = Idle]
    /\ cycleLock' = [cy \in Cycles |->
                       IF task[w].cycle = cy THEN None ELSE cycleLock[cy]]
    /\ UNCHANGED <<company, link, command, resolution, applied>>

(* A publication of the directory; a confirmation locks its company row.   *)
SetCompany(x, state) ==
    /\ company[x] # state
    /\ \A w \in Workers :
        ~(task[w].op = "confirm" /\ task[w].step = "act" /\ task[w].company = x)
    /\ company' = [company EXCEPT ![x] = state]
    /\ UNCHANGED <<identityVars, cycleLock>>
-----------------------------------------------------------------------------
Administer(w) ==
    \/ \E op \in AdminOperations, c \in Contacts, x \in Companies :
        \/ BeginManual(w, op, c, x)
        \/ \E k \in Keys : BeginCommand(w, op, c, x, k)
    \/ \E c \in Contacts : BeginBatch(w, c)

Transact(w) ==
    \/ Reserve(w) \/ LockContact(w)
    \/ Discover(w) \/ Confirm(w) \/ Reject(w) \/ Resolve(w)
    \/ FailTask(w)

IdentityNext ==
    \/ \E w \in Workers : Administer(w) \/ Transact(w)
    \/ \E w \in Workers, cy \in Cycles : BeginResolve(w, cy)
    \/ \E x \in Companies, state \in Directory : SetCompany(x, state)

IdentitySpec ==
    IdentityInit /\ [][IdentityNext]_<<company, identityVars, cycleLock>>
-----------------------------------------------------------------------------
(* Links, outcomes, locks and transactions keep their shape.               *)
IdentityTypeOK ==
    /\ company \in [Companies -> Directory]
    /\ link \in [Contacts -> [Companies -> LinkState]]
    /\ command \in [Keys -> Request]
    /\ resolution \in [Cycles -> Resolution]
    /\ cycleLock \in [Cycles -> Workers \cup {None}]
    /\ task \in [Workers -> Task]
    /\ applied \in [Keys -> Nat]

(* A contact has at most one confirmed company, however discoveries,       *)
(* confirmations and rejections of its links interleave.                   *)
OneConfirmedCompany ==
    \A c \in Contacts, x \in Companies, y \in Companies :
        link[c][x] = "confirmed" /\ link[c][y] = "confirmed" => x = y

(* The request of a key takes effect at most once, and is the one on       *)
(* record: two deliveries that race, a retry after a failure, a reuse.     *)
AppliedOncePerKey ==
    \A k \in Keys : applied[k] = IF command[k] = NoRequest THEN 0 ELSE 1

(* A cycle gets a confirmed outcome only for the company that is confirmed *)
(* at that moment, and no outcome is ever replaced.                        *)
OutcomeIsConfirmedLink ==
    [][\A cy \in Cycles : resolution'[cy] # resolution[cy] =>
        /\ resolution[cy] = Unresolved
        /\ resolution'[cy].state = "confirmed" =>
              link[ContactOf[cy]][resolution'[cy].company] = "confirmed"
       ]_<<resolution, link>>
=============================================================================
