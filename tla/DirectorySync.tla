--------------------------- MODULE DirectorySync ---------------------------
(***************************************************************************)
(* How the Acessorias directory and the DigiSac contacts are published:    *)
(* the refresh of the directory (core/acessorias_directory.py) and the     *)
(* manual reconciliation of both (core/digisac_acessorias_reconciliation). *)
(* Each acquires the provider's view page by page while the provider       *)
(* changes, then publishes it in one transaction under try-locks.          *)
(*                                                                         *)
(* A fact is a department, a company or a relation between them; company   *)
(* contacts behave as relations do.  The contacts of DigiSac are the       *)
(* newest version that was stored of them.                                 *)
(***************************************************************************)
EXTENDS Integers, SequencesExt

CONSTANTS Executions, Companies, Targets,
          Backfill,       \* the contact backfill, which locks contacts too
          None,
          PageLimit,      \* page_safety_limit; a page is one company
          MaxChanges      \* bound on changes at the providers

ASSUME DirectoryAssumption ==
    /\ {Backfill, None} \cap Executions = {} /\ Backfill # None
    /\ IsFiniteSet(Companies) /\ Companies \cap Targets = {}
    /\ (Companies \X Targets) \cap (Companies \cup Targets) = {}
    /\ PageLimit \in Nat /\ MaxChanges \in Nat

VARIABLES listed,     \* the provider's list of companies, in order
          offered,    \* the provider's facts
          changes,    \* changes at the providers so far, their version
          present,    \* facts that the directory shows as present
          contacts,   \* version of digisac_contacts
          held,       \* held[l]: who holds an advisory lock
          run,        \* run[e]: the process of an execution
          record,     \* record[e]: its row
          published,  \* history: what each execution published
          latest,     \* history: what was published last
          asked       \* history: facts at the start of an acquisition that no
                      \* change met

vars == <<listed, offered, changes, present, contacts, held, run, record,
          published, latest, asked>>
provider == <<listed, offered, changes>>
-----------------------------------------------------------------------------
Facts == Targets \cup Companies \cup (Companies \X Targets)
RelationsOf(x) == {f \in Companies \X Targets : f[1] = x}
Closed(facts) ==
    \A f \in facts \cap (Companies \X Targets) : f[1] \in facts /\ f[2] \in facts

Locks == {"reconciliation", "acessorias", "contacts"}
LocksOf(kind) == IF kind = "refresh" THEN {"acessorias"} ELSE Locks

Kinds == {"refresh", "dry_run", "apply"}
Statuses == {"none", "started", "succeeded", "deduplicated", "failed",
             "dry_run", "matching_failed"}

(* facts: acquired so far; read: companies in the order of their pages;    *)
(* version: of the DigiSac contacts; seen: rows the transaction found;     *)
(* outcome: what it concluded from the executions before it.               *)
NoRun == [kind |-> "none", step |-> "none", facts |-> {}, read |-> <<>>,
          version |-> 0, seen |-> {}, outcome |-> "none"]
Run == [kind : Kinds \cup {"none"},
        step : {"none", "departments", "companies", "publish", "write",
                "report", "match", "matched", "ended", "dead"},
        facts : SUBSET Facts, read : Seq(Companies), version : Nat,
        seen : SUBSET Facts, outcome : {"none", "succeeded", "deduplicated"}]
NoRecord == [status |-> "none", snapshot |-> {}]

Unpublished == [facts |-> {}, done |-> FALSE]

Init ==
    /\ listed \in {s \in SeqOf(Companies, Cardinality(Companies)) :
                     IsInjective(s)}
    /\ offered = Targets \cup ToSet(listed)
    /\ changes = 0
    /\ present = {} /\ contacts = 0
    /\ held = [l \in Locks |-> None]
    /\ run = [e \in Executions |-> NoRun]
    /\ record = [e \in Executions |-> NoRecord]
    /\ published = [e \in Executions |-> Unpublished]
    /\ latest = {}
    /\ asked = [e \in Executions |-> {}]
-----------------------------------------------------------------------------
(* The providers.  A company is listed last; one that goes moves the ones  *)
(* behind it to earlier pages.                                             *)
Change(facts, list) ==
    /\ changes < MaxChanges
    /\ changes' = changes + 1
    /\ offered' = facts /\ listed' = list
    /\ asked' = [e \in Executions |-> {}]
    /\ UNCHANGED <<present, contacts, held, run, record, published, latest>>

ListCompany(x) ==
    /\ x \notin offered
    /\ \E related \in SUBSET {f \in RelationsOf(x) : f[2] \in offered} :
        Change(offered \cup {x} \cup related, Append(listed, x))

UnlistCompany(x) ==
    /\ x \in offered
    /\ \E i \in DOMAIN listed :
        /\ listed[i] = x
        /\ Change(offered \ ({x} \cup RelationsOf(x)), RemoveAt(listed, i))

OfferTarget(t) ==
    t \notin offered /\ Change(offered \cup {t}, listed)

WithdrawTarget(t) ==
    /\ t \in offered
    /\ Change({f \in offered \ {t} : f \in Companies \X Targets => f[2] # t},
              listed)

ChangeContacts == Change(offered, listed)
-----------------------------------------------------------------------------
(* The execution row is committed before anything is read.                 *)
Start(e, kind) ==
    /\ run[e] = NoRun
    /\ record' = [record EXCEPT ![e].status = "started"]
    /\ run' = [run EXCEPT ![e] =
                 [NoRun EXCEPT !.kind = kind, !.step = "departments"]]
    /\ asked' = [asked EXCEPT ![e] = offered]
    /\ UNCHANGED <<provider, present, contacts, held, published, latest>>

(* All departments are one response; so are, here, the contacts.           *)
ReadDepartments(e) ==
    /\ run[e].step = "departments"
    /\ run' = [run EXCEPT ![e].step = "companies",
                          ![e].facts = offered \cap Targets,
                          ![e].version = changes]
    /\ UNCHANGED <<provider, present, contacts, held, record, published,
                   latest, asked>>

(* A company comes with its relations; a page past the last one is empty   *)
(* and ends the list.                                                      *)
Page(e) == Len(run[e].read) + 1

(* A full view must end before the limit.                                  *)
MayReadPage(e) == Page(e) <= PageLimit

ReadCompany(e) ==
    /\ run[e].step = "companies"
    /\ MayReadPage(e) /\ Page(e) <= Len(listed)
    /\ LET x == listed[Page(e)]
       IN  /\ x \notin ToSet(run[e].read)
           /\ run' = [run EXCEPT ![e].read = Append(@, x),
                                 ![e].facts = @ \cup {x}
                                    \cup (offered \cap RelationsOf(x))]
    /\ UNCHANGED <<provider, present, contacts, held, record, published,
                   latest, asked>>

(* Mutant of Complete: an error or the limit ends the list.                *)
CompleteOnError(e) == Closed(run[e].facts)

(* Before it leaves the adapter a view is checked: a relation needs both   *)
(* of its ends.                                                            *)
Complete(e) ==
    /\ MayReadPage(e) /\ Page(e) > Len(listed)
    /\ Closed(run[e].facts)

EndAcquisition(e) ==
    /\ run[e].step = "companies"
    /\ Complete(e)
    /\ run' = [run EXCEPT ![e].step = "publish"]
    /\ UNCHANGED <<provider, present, contacts, held, record, published,
                   latest, asked>>
-----------------------------------------------------------------------------
(* Mutant of Granted: no lock is asked for.                                *)
GrantedAnyway(e) == TRUE

(* pg_try_advisory_xact_lock: who does not get a lock fails at once.       *)
Granted(e) == \A l \in LocksOf(run[e].kind) : held[l] = None

Lock(e) ==
    /\ run[e].step = "publish"
    /\ Granted(e)
    /\ held' = [l \in Locks |->
                  IF l \in LocksOf(run[e].kind) THEN e ELSE held[l]]
    /\ run' = [run EXCEPT ![e].step = "write", ![e].seen = present]
    /\ UNCHANGED <<provider, present, contacts, record, published, latest, asked>>

Released(e) == [l \in Locks |-> IF held[l] = e THEN None ELSE held[l]]

(* What the transaction found and the view does not have becomes absent;   *)
(* every fact of the view becomes present.                                 *)
Merged(e) == (present \ run[e].seen) \cup run[e].facts

Publish(e) ==
    /\ present' = Merged(e)
    /\ published' = [published EXCEPT ![e] =
                       [facts |-> run[e].facts, done |-> TRUE]]
    /\ latest' = run[e].facts
    /\ held' = Released(e)

(* A view that an earlier refresh published is published again, but is not *)
(* a second success: the rows of the executions are read once, ...         *)
AlreadySucceeded(facts) ==
    \E d \in Executions : /\ run[d].kind = "refresh"
                          /\ record[d].status = "succeeded"
                          /\ record[d].snapshot = facts

Outcome(e) ==
    IF AlreadySucceeded(run[e].facts) THEN "deduplicated" ELSE "succeeded"

Judge(e) ==
    /\ run[e].kind = "refresh" /\ run[e].step = "write"
    /\ run[e].outcome = "none"
    /\ run' = [run EXCEPT ![e].outcome = Outcome(e)]
    /\ UNCHANGED <<provider, present, contacts, held, record, published, latest,
                   asked>>

(* ... and a second success of a view does not pass                        *)
(* ux_acessorias_sync_success_snapshot: the transaction rolls back (Fail). *)
IndexAllows(e) ==
    run[e].outcome = "succeeded" => ~AlreadySucceeded(run[e].facts)

PublishRefresh(e) ==
    /\ run[e].kind = "refresh" /\ run[e].step = "write"
    /\ run[e].outcome # "none" /\ IndexAllows(e)
    /\ Publish(e)
    /\ record' = [record EXCEPT ![e] = [status |-> run[e].outcome,
                                        snapshot |-> run[e].facts]]
    /\ run' = [run EXCEPT ![e].step = "ended"]
    /\ UNCHANGED <<provider, contacts, asked>>

(* Mutant of Newest: the version acquired, whatever is stored.             *)
NewestAcquired(e) == run[e].version

(* Contacts are merged: a newer version stays (see ContactHydration).      *)
Newest(e) == Max({contacts, run[e].version})

PublishBoth(e) ==
    /\ run[e].kind = "apply" /\ run[e].step = "write"
    /\ Publish(e)
    /\ contacts' = Newest(e)
    /\ record' = [record EXCEPT ![e] = [status |-> "succeeded",
                                        snapshot |-> run[e].facts]]
    /\ run' = [run EXCEPT ![e].step = "match"]
    /\ UNCHANGED <<provider, asked>>

(* A dry run computes its plan under the locks, then reports.              *)
Plan(e) ==
    /\ run[e].kind = "dry_run" /\ run[e].step = "write"
    /\ held' = Released(e)
    /\ run' = [run EXCEPT ![e].step = "report"]
    /\ UNCHANGED <<provider, present, contacts, record, published, latest, asked>>

Report(e) ==
    /\ run[e].step = "report"
    /\ record' = [record EXCEPT ![e].status = "dry_run"]
    /\ run' = [run EXCEPT ![e].step = "ended"]
    /\ UNCHANGED <<provider, present, contacts, held, published, latest, asked>>

(* discover_all_identities, after the publication; all, or not all, of the *)
(* contacts were matched.                                                  *)
Match(e) ==
    /\ run[e].step = "match"
    /\ run' = [run EXCEPT ![e].step = "matched"]
    /\ UNCHANGED <<provider, present, contacts, held, record, published, latest,
                   asked>>

FinishMatching(e) ==
    /\ run[e].step \in {"match", "matched"}
    /\ record' = [record EXCEPT ![e].status =
                    IF run[e].step = "matched" THEN "succeeded"
                    ELSE "matching_failed"]
    /\ run' = [run EXCEPT ![e].step = "ended"]
    /\ UNCHANGED <<provider, present, contacts, held, published, latest, asked>>
-----------------------------------------------------------------------------
(* Every error ends as a failed execution: of the provider, a repeated     *)
(* company, the page limit, a relation without an end, a lock, the         *)
(* database, the unique index, and for a reconciliation an error after its *)
(* publication.                                                            *)
Fail(e) ==
    /\ run[e].step \notin {"none", "ended", "dead"}
    /\ held' = Released(e)
    /\ record' = [record EXCEPT ![e].status = "failed"]
    /\ run' = [run EXCEPT ![e].step = "ended"]
    /\ UNCHANGED <<provider, present, contacts, published, latest, asked>>

(* The process ends; nothing takes its execution up again.                 *)
Crash(e) ==
    /\ run[e].step \notin {"none", "ended", "dead"}
    /\ held' = Released(e)
    /\ run' = [run EXCEPT ![e].step = "dead"]
    /\ UNCHANGED <<provider, present, contacts, record, published, latest, asked>>

(* run_contact_backfill publishes contacts under the same lock.            *)
BeginBackfill ==
    /\ held["contacts"] = None
    /\ held' = [held EXCEPT !["contacts"] = Backfill]
    /\ UNCHANGED <<provider, present, contacts, run, record, published, latest,
                   asked>>

EndBackfill ==
    /\ held["contacts"] = Backfill
    /\ held' = [held EXCEPT !["contacts"] = None]
    /\ contacts' = changes
    /\ UNCHANGED <<provider, present, run, record, published, latest, asked>>
-----------------------------------------------------------------------------
Advance(e) ==
    \/ ReadDepartments(e) \/ ReadCompany(e) \/ EndAcquisition(e) \/ Lock(e)
    \/ Judge(e) \/ PublishRefresh(e) \/ PublishBoth(e) \/ Plan(e) \/ Report(e)
    \/ Match(e) \/ FinishMatching(e)

Next ==
    \/ \E x \in Companies : ListCompany(x) \/ UnlistCompany(x)
    \/ \E t \in Targets : OfferTarget(t) \/ WithdrawTarget(t)
    \/ ChangeContacts
    \/ \E e \in Executions :
        \/ \E kind \in Kinds : Start(e, kind)
        \/ Advance(e) \/ Fail(e) \/ Crash(e)
    \/ BeginBackfill \/ EndBackfill

Spec == Init /\ [][Next]_vars
-----------------------------------------------------------------------------
(* Provider, tables, locks and executions keep their shape.                *)
TypeOK ==
    /\ listed \in Seq(Companies) /\ offered \subseteq Facts
    /\ changes \in 0..MaxChanges
    /\ present \subseteq Facts /\ contacts \in 0..MaxChanges
    /\ held \in [Locks -> Executions \cup {Backfill, None}]
    /\ run \in [Executions -> Run]
    /\ record \in [Executions -> [status : Statuses, snapshot : SUBSET Facts]]
    /\ published \in [Executions -> [facts : SUBSET Facts, done : BOOLEAN]]
    /\ latest \in SUBSET Facts
    /\ asked \in [Executions -> SUBSET Facts]

(* Refreshes and reconciliations that run together never mix their views:  *)
(* the directory is exactly the last view that was published, with both    *)
(* ends of each of its relations.                                          *)
DirectoryIsOneView == present = latest /\ Closed(present)

(* What a refresh concluded from the executions before it still holds when *)
(* it commits: two refreshes that acquired the same view are never both    *)
(* about to be its first success, so the unique index refuses neither and  *)
(* no publication is lost to it.                                           *)
OutcomeStillHolds ==
    \A e \in Executions :
        run[e].step = "write" /\ run[e].outcome # "none" =>
            run[e].outcome = Outcome(e)

(* What a row says of its execution is so, at every moment: a success or a *)
(* matching failure was published, a refresh that failed or a dry run was  *)
(* not; and a reconciliation publishes both of its sources or neither.     *)
RecordIsTruthful ==
    \A e \in Executions :
        /\ record[e].status \in {"succeeded", "deduplicated", "matching_failed"}
              => published[e].done /\ published[e].facts = record[e].snapshot
        /\ (\/ record[e].status \in {"started", "dry_run"}
            \/ record[e].status = "failed" /\ run[e].kind # "apply")
              => ~published[e].done
        /\ published[e].done /\ run[e].kind = "apply"
              => contacts >= run[e].version

(* "nunca interpretar como fim normal" a limit, a loop or an error: a view *)
(* that is published without a change at the provider since its            *)
(* acquisition began is all of the provider's, so nothing becomes absent   *)
(* that the provider has.                                                  *)
QuietViewIsWhole ==
    [][\A e \in Executions :
        ~published[e].done /\ published'[e].done /\ asked[e] # {}
            => present' = asked[e]
       ]_<<published, present>>
=============================================================================
