# CAI (Central de Atendimento Inteligente): verification project

TLA+ models, TLC runs and TLAPS proofs of CAI, the service that receives
DigiSac webhooks, finalizes conversation cycles with an LLM and creates
internal Requests at Acessorias.  Every definition is translated from the
Python source; `PROJECT.json` maps each one to its lines.

## The system

All durable state is in PostgreSQL; every function of the repositories is one
SQL transaction.  Independent processes poll it: the API (webhooks and
administration), audio workers, image workers, IA workers.  They never talk to
each other; they meet in the rows, under leases, compare-and-set updates and
advisory locks.  An earlier version kept queues, results and event markers in
Redis; scripts in `src/scripts` retire what it left.

| part | state | operations | what makes it correct | module |
|---|---|---|---|---|
| Durable media (`durable_media_repository`, `audio_worker`, `image_worker`) | one row per audio/image message: status, attempts, `updated_at` token, lease, text | reserve, claim, conclude/retry/fail, recover | one verdict per claim, by its last claimant; a completed row never changes; every row is decided | DurableMedia |
| Conversation cycles, classifications (`conversation_cycle_repository`, `classification_repository`) | one row per ticket closure; message ownership; classification rows and links | open, close, claim, transition, save messages, wake, insert | one worker per cycle; terminal states stay; a message belongs to one cycle; first classification wins | TicketIntake, CycleFinalization |
| IA worker (`ia_worker`, `finalization`) | its copy of the claimed cycle | recover history, gate on media, summarize, classify, complete, record failure | no classification without its media; every cycle settles | CycleFinalization |
| Request operation (`acessorias_requests`, `acessorias_request_provider`) | one row per cycle: state, claim, POST evidence, SolID; operator's audit | ensure, claim, gate, mark, POST, finish, recover, reconcile, release | at most one Request per cycle although the provider has no idempotency key | RequestOperation |
| Identity resolution (`identity_resolution`) | links, keyed commands, the outcome of each cycle | discover, confirm, reject, resolve | one confirmed company per contact; a key takes effect once; an outcome is a confirmed link | IdentityLinks |
| Department mapping (`department_mapping`) | versions of rules, transitions by key, evaluations | configure, evaluate | one active rule per department; every version added or replaced is audited; an evaluation uses a rule in force and an available department | DepartmentRules |
| Request preparation (`acessorias_preparation`) | nothing of its own | resolve, then evaluate | every preparation of a cycle answers the same | RequestPreparation |
| Webhook ledger (`webhook_event_repository`) | event digests and their expiry | accept, replace, clean up, import | an event is accepted once an hour, whichever version serves | EventLedger |
| Ticket assignments (`ticket_assignment_repository`) | assignment history and event keys | record | a cycle gets the department it was closed in | TicketIntake |
| Contact hydration and backfill | contact rows, hydration queue | request, claim, mark, upsert | lease fence; newer data wins; every contact is hydrated | ContactHydration |
| Directory synchronisation and reconciliation (`acessorias_directory`, `digisac_acessorias_reconciliation`) | directory tables, execution rows | acquire, publish, plan, apply, match | one view at a time, all of it or nothing; truthful records | DirectorySync |
| Way out of Redis (`scripts/`) | lists, single keys, markers; reports | inventory, dry run, apply | nothing goes that is not in PostgreSQL or was not reviewed | LegacyRetirement, KeyRetirement, EventLedger |
| Rate limiter, retry arithmetic, model contract, UI, pool, migrations | see "Not modelled" | | | |

Hard behaviours: leases that expire while their worker still works, processes
that die between two transactions, redelivered and reordered webhooks, values
read in one statement or transaction and acted on in another, provider answers
that prove nothing, lists that move between two pages, retried administration
commands, old instances beside new ones, and polling that must eventually
conclude.  `PROJECT.json` lists each under "hazards" with its line and the
properties that watch it.

## Modules

```
TicketIntake         webhooks of a ticket -> cycles, message ownership, department
MediaOutcome         what media work promises, abstractly
  ^ implemented by   DurableMedia        (refinement KeepsPromise, checked and proved)
  ^ used by          CycleFinalization   (the media a closed cycle depends on)
RequestOperation     the Request of one completed cycle
IdentityLinks        contacts and companies
  ^ extended by      DepartmentRules     rules and evaluations, over those links
  ^ extended by      RequestPreparation  both stages of a preparation, with
                                         administrators and publications beside
ContactHydration     the contact whose identity a Request is prepared from
DirectorySync        refreshes, reconciliations and the backfill at their locks
LegacyRetirement, KeyRetirement, EventLedger
  ^ composed by      RedisExit           the three procedures that leave Redis
MC*                  instances for TLC
*Proofs              theorems: DurableMedia, CycleFinalization, RequestOperation,
                     ContactHydration, TicketIntake, RequestPreparation,
                     DirectorySync, RedisExit
```

Each module also defines a few mutated operators, marked "Mutant", just before
the definition they replace: every property is shown to fail under one of
them, as `PROJECT.json` lists.

**MediaOutcome** is the abstract specification: a message is admitted,
attempted, and concluded by the result of its last attempt; done is final.

**DurableMedia** has the rows and every SQL statement that writes them as one
action each.  `updated_at`, the fencing token, is the number of writes of the
row (`stamp`); time is reduced to the comparisons the SQL makes (`due`,
`lease`).  The text of a row is the number of the attempt that produced it, so
"the wrong worker's text" is visible.  `audio_worker` and `image_worker` run
one protocol on two tables and share the module.  `DeliverMessage` reserves
before the idempotency ledger, as `digisac_webhook` does; `ReadStates` and
`AdmitJob` are the two halves of `_ensure_media_jobs`.  `LegacyRecovery` turns
on `recover_stale_*` and `release_*_publication`, which no worker calls any
more but the repository still exports.

**CycleFinalization** follows `IAWorker._process_cycle` transaction by
transaction; `worker[w].at` is the next one and the record keeps what the
process holds in memory (snapshot, attempt count, media to reserve).
`transition_cycle` checks the expected status where the caller passes one and
nothing else; `LeaseOverrun` separates the runs in which a worker may work on
after its lease expired.  The media are the variables of MediaOutcome; the
operations of its instance are the media workers and redelivered webhooks.
Whether a context is summarized is a free choice; `completed` stands for both
completed states.  A history retrieval yields one of `Histories[c]`, and the
preparation of a cycle answers "ready" if it is in `Prepared`: what that
answer depends on is RequestPreparation.

**RequestOperation** has one row per completed cycle, callers of
`create_request_for_cycle` and `recover_mapping_missing_request`, the provider
(`remote` counts the Requests it created) and the operator.  A POST and the
outcome the adapter derives are one action; a lost process may leave its POST
to be served.  `posted` is `post_started_at`, which no statement clears.  The
operator's proof of absence is taken at its word: the query found nothing and
no POST was on its way.  A refresh of payload metadata changes no column the
properties see.

**IdentityLinks** has the links of every contact, the completed commands by
idempotency key, and the outcome that each cycle keeps.  A `task` is one
transaction: it takes its locks (the contact, the key, the cycle row), reads,
and writes at its commit, or fails and writes nothing.  `Evidence` says which
contacts and companies share a telephone or an e-mail.  Locks that only order
the commits of one row are the atomic step; locks that are held between a read
and a write are variables or guards.  Transition rows of links follow the
links and are left out.

**DepartmentRules** adds the rules (`rules[d]`, the versions in order), the
transitions by operation key, and evaluations.  A configuration locks, then
writes; an evaluation reads rule, target department, company and relation in
statements of their own, as the code does, and a publication of the directory
may come between any two.  A request without an operation key gets one derived
from its content, as in the code; the content includes a reason, which is one
value here.  A configuration that replaces a rule writes two transition rows,
its own and the `:deactivate` row of the old version; they are one record here,
whose field `replaced` is the old version.  Whether a department is `known`
changes by webhooks.

**RequestPreparation** runs the two stages with everything beside them:
administrators, other workers on the same cycle, publications, crashes.
A worker that finds the outcome or the evaluation on record takes it.  The
checks that precede both stages are left out: a cycle that is not terminal, a
contact that is missing, and a stored outcome of another contact
(`contact_provenance_mismatch`), which cannot occur because a cycle keeps the
first contact it was given (`conversation_cycle_repository.py:162` and `229`).

**ContactHydration** has the contact rows, the hydration queue and the loops of
the API processes, with the three publishers of snapshots: ticket webhooks, the
hydration loop and the backfill.  All provider fields follow one rule, so a row
has one nullable `field`, whose value is the provider time of the snapshot it
came from; `created` stands for the other evidence of metadata.  `lease_until`,
which fences both marks, is later with every claim, so the row names the loop
of its latest claim; `attempts` saturates at `Limit`, the configured maximum.
`Asked` is the order of the rows in the claim query.  `Rejected` are contacts
that DigiSac answers with an error that is not retried, `Repeated` lets the
pages of one backfill repeat a contact.

**TicketIntake** starts where the others end: the events of one ticket, as
DigiSac produces them (`log`), and the webhooks that deliver them late, twice or
out of order.  A handler is two transactions with other handlers in between:
`Deliver` writes the assignment, whose failure the code swallows, and `Finish`
opens or closes the cycle.  Each statement takes the advisory lock of the
conversation, so one conversation is all the module needs.  An event is its
time: times are distinct, and the hash that keys an event is that time.
`Recover` is the finalization worker fixing the start of a closed cycle and
taking its messages (CycleFinalization splits that into its transactions and
leaves out the times); `Evaluate` picks the department a Request is prepared
for.  DigiSac sends one closed update per closure, creates a ticket once, and
may leave the technical messages out of a history.  Updates that change only
the user are left out.  `straight` says that every event so far was handled
once and in order: properties about content are stated under it, and those
about the rows are not.

**DirectorySync** has the providers, whose list of companies changes while it
is read page by page, the published directory, the try-locks, and executions of
three kinds: the refresh of the directory, the dry run and the apply of a
reconciliation.  The row of an execution is committed before anything is read;
publication is a transaction that finds rows (`seen`) and then marks absent
what the view lacks; before it commits, a refresh looks for an earlier success
of its view (`Judge`) and writes what it concluded, which the unique index
`ux_acessorias_sync_success_snapshot` must allow or the execution fails;
matching comes after it, in transactions of its own.  A page is one company
with its relations.  `asked` remembers what the provider had when an
acquisition began, as long as nothing changed since.

**LegacyRetirement** is the coordinator of the three list scripts: a dry run
that writes a report of digests, an apply that reads it, takes a second
snapshot, compares, and removes one entry at a time, with the application of
either version running beside it.  A list is a bag of values.  Reading the two
lists of a family and looking up their rows are one step: rows never go.
**KeyRetirement** is the removal of `ia_status:*` and `ia_result:*` and of the
debounce orphans, key by key, again with a reviewed report; the removal of a
result compares it with its row in PostgreSQL.  **EventLedger** is the ledger of
events, its clean-up, and the handoff of the Redis markers.  An entry is the
time at which it expires; `CURRENT_TIMESTAMP` is that of the beginning of a
transaction, which may write later.  The operator follows the printed
instructions (stop the old API, apply, start the new one) and may go back.
The clock stands still while an apply runs: a tick is a share of an hour, an
apply takes milliseconds.  A slow apply after an aborted upgrade is outside the
model: `import_event` keeps a live row even when the marker lives longer
(`webhook_event_repository.py:206`).

**RedisExit** runs the three side by side.  They touch disjoint keys, tables and
reports, so a behaviour follows one of them.

## Runs

| run | instance | what it shows |
|---|---|---|
| media | 2 rows, 2 workers, 1 IA worker, 1 redelivery, 2 faults, legacy recovery | safety, the refinement of MediaOutcome, and that every admitted message is decided |
| cycle_overrun | 1 cycle, 2 media, 2 workers, 2 faults, overrun leases, two possible histories | the media gate, whatever leases do |
| cycle_orderly | 2 cycles that may share a message, 2 workers, 2 faults, no overrun, a history that may lose its message, fairness | exclusive processing, consistent evidence, one classification per message, a completed cycle's Request not refused, final states; every cycle settles, a blocked one recovers |
| request_safety | 1 operation, 3 callers, 2 operator keys, 5 faults | at most one Request, never replayed blindly, a refused POST created nothing |
| preparation | 1 cycle, 2 workers, 2 companies that share evidence with the contact, 2 targets, 1 key of each kind, any 3 operations, 1 publication, every combination of earlier link and rule | one confirmed company, keys applied once, one active rule, preparations agree, outcomes and evaluations are justified, changes are audited |
| hydration | 2 contacts, 2 loops, 3 snapshots (one undated), repeated pages, 2 faults, fairness | data never go back, the lease fence, every contact is hydrated |
| intake | every ticket history of 5 events in order, of 3 events in any order, 2 departments, 2 faults | cycles are the periods of the ticket, with their messages and department |
| directory | 2 executions of any kind, 2 companies, 1 department, page limit 2, 2 provider changes, crashes and failures anywhere | the directory is one view, a refresh's conclusion about its view still holds when it commits, truthful records, a quiet view is whole |
| redis_exit | lists: 2 families, 2 values, 1 late push; keys: a result, a status, an orphan, 3 payloads, 2 writes; events: 2 events, 2 racing deliveries, an hour of 2 ticks, 5 ticks | evidence is kept, only reviewed entries go, results are durable before they go, an event is accepted once an hour |
| cycle_regress, request_abandoned, mapping_replayed | smallest instance that shows it | disagreements between code and documents, see "Findings" |

Bounds.  Two workers are enough for every race over one row: a row remembers
only its latest claim, so a third worker behaves as a stale one.  Two faults
allow an expired lease and a second failure on top of it; the Request run
allows five, which is more than one full expire, crash, correct and release
round.  `MaxRetries` (2, or 1 where two cycles share the run) and `Limit = 2`
let a retry and an exhaustion happen.  `MaxStarts` bounds how often the
environment retries, and in `preparation` the operations begun: three are a
preparation beside a command or a configuration and its retry.  One
publication can change each fact that an evaluation reads, between any two of
its statements.  Three snapshots give every comparison of times (older, newer,
none).  Five events hold two periods of a ticket with something in between,
and `Skew = 2` lets a message fall into the windows of both; three events
(`MaxDisorder`) are enough for an opening that overtakes a closure and one that
comes again after it.  Two provider changes let a company go and come back, or
shift a page and then cut a relation, during one acquisition; `PageLimit = 2`
is met by the whole list.  `MaxKeys = 2`, `MaxItems = 2`, `MaxMarkers = 1` and
`BatchSize = 1` let every truncation happen; five ticks with `TTL = 2` let an
event lapse, come back and lapse again across a handoff.  Deadlock is not
checked: when everything is settled and the bounds are used up, the system
rests.

Fairness.  Worker loops catch every exception and poll again, every provider
call has a timeout, so a claimed step ends (weak fairness).  Time passes: due
times and leases expire.  `claim_next_cycle` orders by due time, so a cycle
that keeps coming back is claimed (strong fairness on `Claim` per cycle); the
hydration claim orders by age and gets no more than weak fairness per loop.
`request_abandoned` grants even more, repeated calls for the operation, and
the property still fails.  Crashes, failures and overruns are never fair and
are bounded by `MaxFaults`.  Preparation, directory and the way out of Redis
are driven by operators and have no fairness: nothing has to happen there.

What the passing runs leave out.  `EvidenceAgrees`, `CompletedIsEligible`,
`TerminalIsFinal` and `EveryCycleSettles` are claimed only where no worker
outlives its lease.  After an overrun the first may fail (a second analysis adds
its links to the first classification), and the others do: `cycle_regress`
reports the third, and what becomes of the Request and of blocked media is told
under "What the code does otherwise".
`FieldNeverOlder` is checked with repeated pages of snapshots that hold every
field, and proved for all snapshots when no backfill repeats a contact.  With
partial snapshots and repeated pages it fails: `_merge_duplicate_contacts`
fills a field that the newer copy lacks from the older one and dates the result
with the newer time.  `EveryNeedHydrated` is claimed for contacts that DigiSac
does not reject.  `RemovedWereReviewed` needs `~OldInstancesDuringApply`, and
`ErasedResultsDurable` and `ErasedWereReviewed` need `~ProducersDuringApply`:
the scripts tell the operator to stop the old producers, and check nothing
between their second snapshot and each removal that a producer would have to
respect.

## Findings

* `cycle_regress`: stale workers write `summarizing`, `classifying` and the
  failure states without an expected status, over a completed cycle.  It needs
  a worker that outlives its lease.
* `request_abandoned`: an `attempting` row whose caller died before its POST is
  never claimed again.
* `mapping_replayed`: a known operation key is compared by state, reason and
  target, not by the DigiSac department, so an operation on another department
  is answered with the first one's rule and configures nothing.

## What the code does otherwise

Behaviour met while modelling that no run above reports, most of it because a
module would need no more than one step to show it, or because it follows from
the writes that `cycle_regress` reports.

* A crash between the completion of a cycle and the admission of its Request
  (`ia_worker.py:621`) loses the Request: a completed cycle is never taken up
  again, although `ARCHITECTURE.md:544` has Requests follow completed cycles.
* The preparation of a Request and the insertion of its operation read the cycle
  in two transactions (`acessorias_requests.py:257`).  When a worker that
  outlived its lease reopens the completed cycle in between, the operation is
  stored as `cycle_not_eligible` and stays so after the cycle completes again,
  although spec 0011, line 150 calls a completed cycle eligible.  With the
  instance of `cycle_overrun`, TLC refutes `CompletedIsEligible`.
* A block on failed media is written from three statuses only
  (`ia_worker.py:412`).  A cycle whose snapshot is stored and which a stale
  worker has sent back to `recovering_messages` is in none of them: it keeps its
  lease until that expires, is claimed and left again, and never becomes
  `media_blocked` (spec 0003, line 176).  With overrun and three faults (an
  expired lease, a failure of its worker, a crash of the next one), TLC refutes
  `EveryCycleSettles`.
* A contact that DigiSac rejects with an error that is not retried is due again
  at once and stays ahead of every contact asked for later
  (`digisac_contact_repository.py:562`; issue 0051, line 107).  With such a
  contact in `Rejected`, `EveryNeedHydrated` fails for the others.
* An opening that found a cycle open leaves no event key
  (`conversation_cycle_repository.py:112`), so its redelivery after the closure
  opens another cycle (spec 0002, line 65).
* With old instances running during an apply, LegacyRetirement removes an entry
  that no review saw: each removal takes an inventory of its own, which shows
  what was pushed after the second snapshot was compared.
* An evaluation uses the company of the cycle's outcome, although the link may
  have been rejected since (spec 0010, lines 79-84).  `EvaluationUsesActiveRule`
  therefore speaks of the rule, its department and the relation of that to the
  company, not of the link.
* A rule that is activated, inactivated and activated again without operation
  keys derives the key of the first activation: the third request is answered
  as a replay and the rule stays inactive.
* A crash after the publication of an apply leaves a row `succeeded` without its
  matching (issue 0045, line 308; spec 0009, line 213); an error there rewrites
  the row as `failed` although both sources were published.
* A company that goes during an acquisition moves the ones behind it to earlier
  pages: the one that slips by is published as absent until the next refresh.
  An older acquisition that is published later takes the directory back.
* Each directory adapter has a rate window of its own
  (`acessorias_directory.py:291`); spec 0007 limits the integration to 100
  requests a minute.
* An evaluation reads target, company and relation in three statements, so the
  three may be of different publications.  The relation is read last and goes
  with its ends, so the department of a resolved mapping is there when the
  snapshot is written; a company may have been inactivated since it was read.

## Proofs

Each theorem holds for every value of the constants that satisfies the named
assumption of its module: null values are no members of the sets they stand
beside, bounds are naturals.  The inductive invariant of each module is called
`IInv` (in RedisExitProofs there is one per procedure, in IntakeProofs a second
one for the properties about order); initial states satisfy
it, every step keeps it, the others follow.

`DurableMediaProofs` proves the safety properties of DurableMedia and its
refinement of MediaOutcome.  None of the properties is inductive alone.  `IInv`
joins `TypeOK`, `TokenIsHolder`, `LeaseFollowsWork` and `ResultOfLastAttempt`:
a result is accepted only if its token equals the row's stamp, and then
`TokenIsHolder` says that the row is in processing for that worker and that
attempt, so the text written is that of the last attempt; the token argument
in turn needs that every write renews the stamp and that claims only hold
stamps that were written.  The action properties and the refinement step
follow from `IInv` action by action.

`CycleProofs` has two invariants.  `IInv` holds whatever leases do: beside the
types, the media gate and the verdict of completed cycles it says what a worker
carries from one transaction to the next (`Carries`): past the gate its snapshot
holds only messages that are done, and done stays done because the media only
take steps of MediaOutcome; before it completes the row it has seen a
classification.  `VerdictNeedsMedia` follows.  `OInv`
needs `~LeaseOverrun`, the assumption of the remaining theorems: `Held` (a
worker past its claim is the holder of a row that is in work, so no two work on
one cycle), `Informed` (what the worker knows of status and snapshot is what
the row says) and `Agree` (classification, links and messages of a cycle are
the same set once written).  `OneWorkerPerCycle`, `EvidenceAgrees`,
`MessageClassifiedOnce` and `TerminalIsFinal` follow.  With terminal states that
stay, `Eligible` is kept: the cycle of a worker that is about to store its
operation is still completed, so no Request is refused (`CompletedIsEligible`).
That the assumption is needed is what `cycle_regress` shows.

`RequestProofs` proves every safety property of RequestOperation for any number
of operations, callers, commands and faults.  That there is no second Request
depends on what a caller that lost its claim may still do.  `RowFits` says what
the state of a row promises about the provider (no Request behind a row that
may be attempted, none before `post_started_at`), `JobFits` what a caller may
rely on at each of its steps: at the POST the row still shows it (attempting
under its own claim, or awaiting reconciliation) and no Request exists; before
it, a claim that is still held means no Request.  Two callers at the POST would
both need the one claim, or need a row from which neither could have started.
`TransactionKeepsIInv` reduces each action to its own row and to what the
other callers of the row keep; the action properties follow from the invariant.

`PreparationProofs` proves every property of the `preparation` run.  `LinksInv`
says what a transaction relies on between its lock and its commit: the links it
has read are still those of the contact, the key it will complete is still
unused, the cycle it resolves is locked by it and unresolved (`Good`), and no
two such transactions hold the same contact or key (`Apart`).  `RulesInv` does
the same for configurations and evaluations of one department; `OneAtATime`
keeps a worker in one transaction; `AnswersInv` ties every answer to a record
that never changes, whence all preparations of a cycle agree.  A relation of the
directory has both ends, so an evaluation that finds it last finds the
department as well; `ConfiguredExplained` compares the versions of a rule before
and after a configuration with the rows it writes.

`HydrationProofs` proves every safety property of ContactHydration; the theorem
about `FieldNeverOlder` assumes `~Repeated`.  A field never goes back because it
is never newer than its row (`RowsOrdered`): a snapshot that passes the
comparison of times is then at least as new as the field it replaces.
`Carries` is what a loop relies on between its transactions: before it reports
success the row holds provider data.  The lemma `Evolution` lists the ways the
status of a row may change, and the three action properties about the queue
follow from it.  `OrderDoesNotMatter` says that complete dated snapshots may
arrive in any order.

`IntakeProofs` proves `TypeOK`, `OpenIsLast` and `ClosureOnce` of TicketIntake,
whatever the webhooks do.  `IInv` adds that no two cycles have one closure
(`ClosuresApart`) and that the cycle of an answered closure is there
(`ClosuresFound`): a row is inserted only when none is open and, for a closure,
when none has it (`AppendKeeps`), and otherwise the one open row, which is the
last, is closed (`CloseKeeps`).

The same module proves `CyclesArePeriods`, `MessagesKept` and `DepartmentRight`,
which speak of behaviours where every event was handled once and in order
(`straight`), by a second invariant, `FullInv`.  `InOrder` says that what is
answered follows everything answered before (`InTurn`), so the turn before an
event is the last one that was answered, and `OpenTurn` that a cycle is open
exactly when that turn is an opening: hence an opening begins a cycle only when
the ticket was not known to be open, and a closure that finds none is the first
turn of the ticket (`OpeningInTurn`, `ClosureInTurn`).  `OwnersInv`, which needs
no order, says that a message has a cycle that took it between the end of the
one before and the skew after its own end; with the periods in order, a message
of a period that another cycle has can only be in an earlier one
(`TakenEarlier`).  `Recorded` says that the assignments recorded up to an event
name its department, although an assignment to the same department is not
recorded; the department of any time behind an answered event can then be read
from the history (`DepartmentKnown`), and the last assignment within the cycle,
or their absence, tells what `DepartmentRight` says (`EvaluatedRight`).

The proof needed `MessagesKept` stated as it is.  Where the skew is longer than a
period, a message may have been taken not by the previous cycle but by one
before that: it is enough that each of them was closed at most the skew before
the message and that the earlier one was recovered first.

`DirectoryProofs` proves every property of the `directory` run.  `Stands` says
what the step of an execution tells about its row and its publication, `Writes`
that a transaction with its locks is alone between what it reads and what it
writes, `Judged` that what a refresh concluded about its view stays right while
it holds the lock, and the invariant of an acquisition that what it has is,
page by page, the part of the provider's facts that its pages hold, as long as
nothing changed: at the empty page that is all of them.

`RedisExitProofs` proves `AcceptedOnceAnHour` and `HandoffCovers` without
assumptions: the place where the serving version looks remembers each acceptance
until it lapses (`Remembers`), and before the new API serves a live row and its
marker expire together (`InStep`), so an import never shortens what is
remembered.  `ErasedResultsDurable` and `ErasedWereReviewed` assume
`~ProducersDuringApply`: what an apply has read of a key that is still there is
its value.  `EvidenceKept` needs nothing: what a command plans to remove names a
row (`Planned`), and a row never goes.  `RemovedWereReviewed` assumes
`~OldInstancesDuringApply`.  `Snapshot` says that a family which an apply has
read was seen as it is unless the inventory is marked truncated: what LRANGE
leaves out makes LLEN greater than the number of entries read (`WholeList`).
The comparison makes the list equal to the report, and from then on what is gone
from the list and what the apply removed are the same (`Accounted`), whatever
its own inventory plans.

Beside the properties of the runs, the theorems prove the type invariant of
every component, `TokenIsHolder`, `LeaseFollowsWork` and `CompletedIsFinal` of
media rows, `CompletedHasVerdict` of cycles, `CompletedNamesRequest` and
`CompletedIsFinal` of Requests, and `SucceededHasData`, `SucceededIsFinal` and
`BackoffKept` of contacts.

Every safety property that a passing run checks is a theorem.  Model-checked
only is liveness (`EveryMediaDecided`, `EveryCycleSettles`,
`BlockedCycleRecovers`, `EveryNeedHydrated`), since the prover handles neither
fairness nor ENABLED.  What a fold computes, such as the size of a list, is
induction over data and beyond it too: no proof uses more of `Size` than that
equal lists have equal sizes.

## Not modelled

* Rate limiter (`provider_coordination`): one comparison under one lock per
  process; it delays a request and decides nothing that a module keeps.
* Retry arithmetic: delays are due or not due everywhere; their values decide
  nothing else.
* Model contract, prompts and text handling: one answer in, one value or an
  error out, no state.
* Identity administration API, administration UI, OpenAPI: read projections,
  cursors, validation and static documents over the commands of IdentityLinks.
* Database pool, configuration, migrations: each SQL transaction is taken as
  atomic, as PostgreSQL runs it; the unique constraints that the migrations
  create are used by the modules.
* Disposal of the retained Redis storage: deletes volumes and containers after
  the last key is retired, with no state of its own.
* `claim_cycle`, `get_recoverable_cycles`, `release_cycle_publication`, the keyed
  re-evaluation of a mapping and the protocol update of old classifications
  have no caller at run time.
* `ProviderRetryWindowActive` inside a claimed cycle cannot happen in a worker
  that pauses before it polls and processes one cycle at a time.

## What could come next

The sliding window and the history window as pure algorithms against a
reference; abstract specifications of cycles and of Requests with their
refinements; the composition of intake, finalization and Request in one module.
