# A TLA+ model of ci-coordinator

ci-coordinator decides which parts of a CI run may be omitted. A workflow asks for
a plan; when everything needed to trust an omission is in place the answer is a
signed *selected* plan, and in every other case it is *Full CI*. The process is a
Python/FastAPI monolith over PostgreSQL that may run as several replicas. What makes
it hard is not a single algorithm but the number of actors that touch the same rows:
plan requests, operators, cutovers between production generations, configuration
changes, reconciliation and collection workers on every replica, webhook deliveries,
administrators' sessions, and a clock of its own in every process.

The modules here model those actors and the rows they share. TLC checks them on
small instances and TLAPS proves the central safety facts for every instance.
Paths below are relative to `src/backend/src/ci_coordinator/`. `PROJECT.json` lists
the components, the runs, the mutants of every property, the source lines of every
definition, the hazards and the theorems.

## 1. Inventory

`docs/architecture/modules/` describes 43 modules. This is what each holds, what it
does and what could go wrong, grouped by the state they share. Parts that are only
parsing, projection or I/O are in section 7.

| Part | State | Operations | What must hold |
|---|---|---|---|
| production cutover (`app/production_cutover.py`, `production_admission/cutover_*.py`, `persistence/production_cutover_repository.py`) | scope row: revision, generation, active and staged authority, revocation, latch | stage, begin, activate; replay of a repeated command | no live plan or open subject of a superseded generation; the latch holds omission off; the row stays readable |
| production admission (`production_admission/`, `persistence/production_evidence_repository.py`) | retained evidence bundles (capped) | retain, load, guard | a guard's answer is still true at the commit it protects |
| dynamic plan request (`app/dynamic_plan_service.py`) and plan issuance (`plan_issuance/`) | issued plans, idempotency keys | resolve override, load epoch, prepare, register, sign, save, replay | one selected plan per run attempt, covered by its subject and its receipt; a failure ends in Full CI |
| operator controls (`operator_controls/`) | omission controls, scoped forces | disable, enable, force | a disable takes effect and bounds what is still alive |
| configuration epochs (`config_epochs/`) | drafts, active epoch with revision | draft, activate, roll back | a plan is issued only under the active epoch |
| reconciliation (`reconciliation/`, `app/reconciliation_round.py`) | subjects with lease, attempts, deadline; observations; results | register, claim, poll, append, defer, record result | no stale owner writes; a success is witnessed; every subject settles |
| audit ledger (`audit_replay/`, `persistence/audit_repository.py`) | event rows, ledger head | append, replay by pages | one chain, one event per key; an intact ledger replays as valid |
| webhook ingestion (`persistence/runtime_delivery_repository.py`) | deliveries, observations, history inbox | claim, observe, expire | an acknowledged delivery is stored, audited and claimed once |
| JWKS provider (`identity_admission/jwks_provider.py`) | snapshot, shared refresh task | look up, refresh, close | withdrawn keys expire; one fetch at a time; a lookup returns |
| runtime (`runtime/resources.py` and its background services) | lifecycle, tasks, open resources | start, serve, close, retry a close | resources outlive the work that uses them; a close is answered |
| unit of work (`persistence/unit_of_work.py`) | connection, commit outcome | commit, roll back, clean up | an unknown outcome is neither assumed stored nor lost |
| attempt collection (`ci_economics/collection.py`, `persistence/ci_economics_*`, `persistence/ci_measurement_report_repository.py`) | one row per source with status, lease and attempts; snapshots, reports, budget signals, policy | register, claim, defer, snapshot, reject, report, configure, expire, purge | evidence exists exactly while its row says so; a report carries the policy of its commit; everything is purged in the end |
| history collection (`ci_economics/history_*`, `persistence/ci_history_*`) | dataset and quota, two scans with windows and pages, recheck queue, delivery inbox, archive with facts, gaps, details and usage | configure, claim, read a page, complete, hand over, recheck, repair, transfer, expire, erase | no run or attempt is lost; usage is what the rows add up to; the archive forgets nothing |
| sessions and activity (`persistence/control_plane_session_repository.py`, `persistence/activity_*`, `control_plane_identity/browser.py`) | browser sessions (capped), activity journal, logout replay rows | log in, expire, log out, back-channel logout, deny, clean up, read pages | each start and end is journaled once; a logout token takes effect once; pages skip nothing |
| proposal review, governance | proposals, reviews, baseline pointer | register, review, approve | an approval is of the revision that was read |
| planning, verification, orchestration, shard optimizer, agent risk advice | none (pure) | plan, verify, pack, advise | the plan covers what the closure requires; advice removes nothing |

How they interact: a plan request reads the controls and the epoch, takes its
authority from the scope row, registers a reconciliation subject and saves a plan;
the cutover can install a successor only when those plans have expired and those
subjects are settled; the reconciliation worker settles them; every one of these
commits appends to the audit ledger. A webhook delivery stores an observation and an
inbox row; history collection moves the inbox row to its queue, and a settled subject
becomes a source of attempt collection. The per-repository advisory *scope lock*
(`pg_advisory_xact_lock`) is what the transactions of the first five rows share, and
the reconciliation worker does not take it.

The behaviours a test hardly reaches, listed at their lines under `hazards` in
`PROJECT.json`: state checked in one transaction and used in another (requests,
activation); statements under READ COMMITTED that read a snapshot and then a locked
row; commits whose outcome is unknown; leases that expire while the owner polls;
process clocks that differ from the database clock; redelivered and duplicated
webhooks; replay of a ledger that grows; waiters that share one refresh; shutdown
during startup; a close that fails or hangs; scan windows that are split, truncated or
restarted under a worker; quotas that refuse half of a completion; sequence numbers
that are drawn long before their commit.

## 2. Modules

| Module | Models | Key state |
|---|---|---|
| `ProductionStore` | the tables of one repository scope, the scope lock, the clocks, the admission guard and the local drain query | `clock lock scope retained controls forces epoch subjects plans` |
| `ScopeControls` | operator controls, forces, epoch activation and rollback | |
| `ProductionCutover` | stage, begin, activate | `activation` of each operator |
| `PlanIssuance` | a dynamic-plan request to the durable plan | `request` |
| `ProductionSystem` | the three above composed, with the clock and the worker | |
| `GenerationHandover` | abstract specification: what a cutover promises | `generation serving open` |
| `SignalVerdict` | `classify_observed_state` as a pure operator | |
| `Reconciliation` | subjects, leases and rounds of several replicas | `clock row` and each worker's round |
| `WebhookLedger` | deliveries, the audit chain, observation cleanup, paged replay | transactions, rows, replay |
| `JwksCache` | `CachingJwksProvider` with waiters and close | snapshot, tasks, callers |
| `RuntimeLifecycle` | startup and shutdown of the process | lifecycle, tasks, close attempts |
| `AttemptCollection` | collection of one repository's workflow attempts, reports and budget signals | `row task snapshots reports signals policy` |
| `HistoryCursor` | windows, pages and attempts of a history scan, as functions of the scan row | |
| `HistoryRechecks` | the recheck queue, as functions of its rows | |
| `HistoryArchive` | facts, gaps, details and usage, as functions of the archive | |
| `HistoryCollection` | the three above driven by workers, deliveries, operators and the provider | `dataset scan recheck inbox archive` and the workers |
| `ControlPlaneSessions` | sessions, back-channel logout, the activity journal and its reader | `sessions events replays` and each open transaction |
| `ProductionSystemProofs`, `PlanProofs` | theorems about `ProductionSystem`: types and generations; plans, guards and the refinement | |
| `ReconciliationProofs` | theorems about `SignalVerdict` and `Reconciliation` | |
| `WebhookLedgerProofs`, `JwksCacheProofs`, `RuntimeLifecycleProofs`, `AttemptCollectionProofs`, `ControlPlaneSessionsProofs` | theorems about the module they are named for | |
| `MC*` | constants of the runs | |

### Production admission (`ProductionStore`, `ScopeControls`, `ProductionCutover`, `PlanIssuance`)

`scope` is the row of `ProductionScopeState`, `controls` the sequence of omission
controls with their stamps, `epoch` the active configuration, `subjects` the
reconciliation rows as far as production reads them (origin, generation, plan,
and their progress: without a result, settled, claimed again, reopened), `plans` the selected plans. `lock` is the scope lock and
names its holder. Receipts, bundles and signatures are reduced to what the guard
compares: an authority has a generation, an epoch and an end of validity.

A locked transaction whose checks and writes are separated by reads of the database
clock is two actions, *Validate* and *Commit*: between them time passes and every
transaction that does not wait for the lock may run. A locked transaction that reads
everything at one instant is one action. Provider calls lie outside transactions, so
their answers are as old as the step that starts them (`PrepareAuthority`,
`ObserveStaged`). Time read by the process rather than the database is any value of
`ProcessTimes`, within `Skew` of `clock`. The stamp of an operator's command is read
before the command waits for its authorization and for the scope lock, so it is any
earlier reading (`EarlierTimes`).

Four actions are what rounds of `Reconciliation` do to a row, none under the scope
lock. `SettleSubject` records a terminal result and releases the lease. The other
three are the race of section 5: a late claim sets the lease columns of a settled row
(`ReclaimSettled`), and its round defers, which clears them (`DeferReclaimed`), or
appends an observation, after which the subject needs another result
(`ReopenReclaimed`), or does neither and leaves the columns set. The drain reads the
selected rows `FOR UPDATE`, so no round changes one before the activation ends
(`RowLocked`).
Rows of origin `legacy` predate the cutover tables and the runtime no longer writes
them; the drain treats them like selected ones and the model leaves them out.

### Reconciliation

Each store call is one transaction on the subject's row. The claim is two steps
because the statement is two reads: a snapshot that filters due and unresolved rows,
and the lock on one of them, after which only the locked row is read again. Recording
a result is two steps because the row lock is held while the audit event and the
shadow evidence are written. A replica may crash at any point of its round, and its
clock is within `Skew` of the database's. The provider answers with any observation or
with none. An observation is its signal, job and conclusion; since its id is a hash of
these, the retained rows are a set and the revision is its size.

### Webhook ledger

A delivery claims its row by `INSERT ... ON CONFLICT`, which waits for an uncommitted
row of the same id or body (`MustWait`), appends its event under the head lock,
stores its observation if the cleanup does not hold it (a try-lock), and commits. A
commit may succeed and its outcome be lost. The hash of an event is modelled as the
sequence of keys it covers, so two events have equal hashes exactly when the chains
below them are equal. The unique constraints on sequence and key are a second defence
that the model leaves out: the checked facts rest on the head lock alone.

### JWKS provider and runtime

Both are coroutines of one event loop: an action is what a coroutine does between two
awaits. `JwksCache` keeps ages in place of times (how old the snapshot, each task and
each failure are), so the state space is finite without a bound on time: an age past
the largest window compares like that window, and that of a running fetch is bounded
by its timeout.
`RuntimeLifecycle` lets every timeout fire whenever the coroutine it guards waits, and
lets rounds, probes and close calls of libraries last for ever. A probe whose
connection could not be closed is remembered (`leaked`): draining the readiness checks
then raises, and the close attempt fails before it stops the background services. The branch of
`resources.py` for a cancelled finalizer is left out: no code cancels that task.

### Attempt collection

A source is due, leased, deferred, captured, unavailable or expired; `at` is
`next_attempt_at` or `lease_expires_at`, whichever the status has, and a claim is told
from later ones by its attempt and expiry. The two transactions in which the clock
matters between the lock and the commit, storing a snapshot and writing a report, are
two steps: a lease that lapses in between makes the guarded update match no row, and
the snapshot already inserted is rolled back. The others are one step. A batch of
provider sources is registered one at a time, which the advisory lock makes
equivalent. Jitter and terminal reasons are choices; the creation time the provider
reports for a source does not change. Expiry of observations is in `WebhookLedger`.

### History collection

Every store call is one transaction under the advisory lock of the repository and one
step; provider reads lie between the claim and the completion of a worker. The
configured population is fixed by whole seconds: both ends of a window are included,
a window with more runs than the provider lists is halved, and at one second it is
truncated and leaves a gap. A lease is the worker it belongs to, `lost` (a new
configuration or a merged hint changed the row under it), `lapsed` or `none`, which
is what comparing revisions decides. Retry delays are left out: a row may be claimed
as soon as its lease allows. A finished discovery cycle is claimed again when the clock
has passed its end, or at once when a reconfiguration has made it `due`. The archive is bytes, facts and gaps against a quota;
statistics are sets of jobs, which give all four outcomes of a comparison. The
default detail policy of the service, and fields of an archived attempt that
contradict each other, are left out. States `erasing` and `erased` of a dataset are
declared by the code and never set, so they do not occur.

### Sessions and the activity journal

Every transaction that changes sessions or the journal holds the lock of
`lock_activity` to its end, so it is two steps: its statements, which draw sequence
numbers that a rollback does not return, and its commit or rollback. A login is three
because `replace` reads the clock again for its guarded insert. The journal is read
without the lock, a page at a time, up to the watermark of its first page. An expired
session is found without the lock and deleted under it. A handle stands for one
completed exchange with the identity provider, its number for the order of handle
digests. Left out: reasons of ends, undecodable rows, the batch limits of the
cleanups, the hourly buckets of denied requests, the pages of business events and the
encryption of cursors. The identity lock is always taken after the activity lock and
adds nothing to it. A logout reaches the sessions stored when it commits; a login that
commits later is a new session.

## 3. Runs

Each run has its cfg; the module is the `MC` module that the cfg's constants belong to.

| Run | Asks | Shows |
|---|---|---|
| `handover` | can anything of generation 1 be alive under generation 2? | `LivePlansAreCurrent`, `SupersededSubjectsSettled`, `LatchKeepsOmissionDisabled`, `ScopeRowReadable`, `PlansAreRegistered`, the refinement `ImplementsHandover`, and `DrainCompletes`: only a late claim can keep a begun cutover from draining |
| `issuance` | do two requests of one run attempt agree, and does a plan commit under a guard that no longer holds, or for longer than its lifetime? | `OneSelectedPlanPerSubject`, `PlanCommitsAuthorised` |
| `reconciliation` | do two replicas corrupt or abandon a subject? | `RowsReadable`, `SuccessIsWitnessed`, `StaleOwnersFenced`, `EverySubjectSettles` |
| `reclaim` | is a claimed subject unresolved, as documented? | violated: the finding of section 5 |
| `jwks` | are keys fresh, fetches bounded, and does every lookup return? | `SingleFlight`, `WithdrawnKeysExpire`, `FetchesAreSpaced`, `SnapshotNeverRollsBack`, `ClosedServesNothing`, `CallsReturn` |
| `lifecycle` | is anything used after it was closed, and is every close answered? | `ResourcesOutliveWork`, `ReportedLifeIsTrue`, `ClosesAreFenced`, `ShutdownSettles` |
| `ledger` | do deliveries, writers, cleanup and replay agree, and can their waits form a cycle? | `LedgerIsOneChain`, `DeliveriesAudited`, `ReplayStaysValid`, `AcknowledgedIsStored`, `TransactionsEnd` |
| `history_scan` | do windows, splits, restarts and overlapping cycles lose a run? | `NothingLost`, `HistoryRowsReadable` |
| `history_queue` | do two workers, failing reads, repairs and deliveries lose an attempt, or leave a row that cannot be read? | `NothingLost`, `HistoryRowsReadable` |
| `history_archive` | do refinements, conflicts, retention and quotas corrupt the archive? | `AccountingExact`, `ArchiveNeverForgets` |
| `collection` | does evidence follow its row through lost leases, dead tasks and retention? | `EvidenceFollowsRow`, `SignalsMatchPolicy`, `EvidenceDrains` |
| `sessions` | do logins, expiry, logouts and the journal's reader agree? | `SessionsAccounted`, `LogoutsTakeEffectOnce`, `PagesSkipNothing` |

Every property has a mutant: a definition of the model
changed the way a plausible bug would change the code (a dropped check, a missing
lock, a swapped order), under which TLC finds the property violated. The mutated forms
are the definitions marked *faulty variant* in the modules; nothing else uses them.

### Bounds, and why they are enough

Every bound is a constant named in its module and `\* bound:` in its declaration.

- *Production.* Two authorities are one handover, and the next one starts from a
  state of the same form; the proofs of section 4 remove the bound for the properties
  they cover. `MaxTime` exceeds every window by one, so that evidence, drain
  statements, plans and the first receipt all expire within a run. `MaxRevision = 5`
  is stage, begin, activate, stage, begin (activation itself is not bounded), so
  both generations are installed. `LateClaims` bounds which subjects may be claimed
  after they have settled: one of the two in `handover`, so that both kinds meet a
  drain, and none in `issuance`, whose questions do not read the progress. In
  `issuance` two candidates are enough for two requests to disagree, two epochs for an
  activation between validation and commit, and three controls (disable, enable,
  disable) under a skew of 1 for a plan that outlives a control; receipts outlive the
  run, so that only the plan lifetime bounds a plan. Two operators that cut over
  concurrently are left to the theorems `LatchHolds` and `RowReadable`.
- *Reconciliation.* One subject, since the transactions touch one row and subjects
  share nothing else; two workers, since a race is between an owner and its
  successor; two attempts are a first and a last one; `Deadline = 3 > Lease = 1` lets
  a lease be lost and retaken before the deadline. One expected signal and two jobs
  let a signal be missing, ambiguous, failed or successful; several signals and omitted
  ones are covered by the theorems about `SignalVerdict`.
- *JWKS.* Two callers and the probe share a task, and a third can only repeat what
  the second does; two keys are one rotation; with every window 1,
  an age is fresh, at the limit or past it.
- *Lifecycle.* Two callers of `aclose` besides the lifespan, three close attempts:
  first, joined, retried.
- *Ledger.* Three deliveries give both collisions (one body under two ids, two bodies
  under one id); one further writer with two inputs gives an idempotent repetition and
  a conflict; a page of 2 puts a page boundary inside the chain.
- *History.* One module, three instances, since a full product is out of reach. In
  `history_scan` two runs, a page of one run and windows of up to two listed runs give
  splits, truncated seconds and a restart under a worker. In `history_queue` two
  workers, two attempts of one run and every kind of failed read meet deliveries and
  repairs. In `history_archive` one attempt meets every configuration, quota and
  contradictory observation. A second page of one window (`next_page`) does not occur
  in these instances: it needs `MaxPages = 2` and three runs.
- *Attempt collection.* Three sources of both kinds, two tasks, two attempts and one
  report; `MaxTime = 7` lets a source pass its window, its evidence and its tombstone.
- *Sessions.* Two logins at a cap of one, one further client, two deliveries of one
  token (which are symmetric). Three sequence numbers are two events and one drawn by
  a transaction that is not yet visible.

`CHECK_DEADLOCK FALSE` appears where the system may come to rest: every subject
settled (`reconciliation`, `reclaim`), the process closed (`lifecycle`), every source
purged (`collection`), every login and delivery handled (`sessions`). Everywhere else
TLC also checks that some step is always possible.

### Fairness

| Specification | Assumed | Why the code gives it |
|---|---|---|
| `ProductionSystem!FairSpec` | the clock advances; a subject without a result at its revision gets one | time passes; `EverySubjectSettles` shows the second. Nothing is assumed of a settled subject that was claimed again |
| `Reconciliation!FairSpec` | time passes and rounds keep being scheduled and take their next step | `PeriodicReconciliationService._run` starts a round at every interval; each await of a round has a timeout or is a database call |
| `JwksCache!FairSpec` | a fetch ends; a caller whose task is done is resumed | the fetch is under a timeout; the event loop resumes what is ready |
| `RuntimeLifecycle!FairSpec` | the current close attempt ends; callers that can return do | `_close_with_deadline` waits with a timeout; nothing is assumed of rounds, probes or library closes |
| `WebhookLedger!FairSpec` | strong fairness of each transaction's next statement (append, observe or commit) | a transaction goes on unless it waits; PostgreSQL queues the waiters for a row lock, so a waiter is not overtaken for ever |
| `AttemptCollection!FairSpec` | time passes; the collection (claiming or ending a claim), the writing of reports and the retention (expiring or purging) go on, whichever task does it | the worker and the retention round run at every interval, and each provider read has a timeout |

History and sessions have safety properties only. A full quota may stop history
collection for as long as an operator leaves it, and no session needs to end before
somebody asks for it.

## 4. Proofs

`tlapm` checks every proof of these modules. The theorems hold for every value of the
constants that the named assumptions admit: any sets of requests, operators, subjects,
workers, callers, tasks, sources and signals, any windows, lifetimes and skew, any
value of the bounds.

| Theorem | States |
|---|---|
| `ProductionSystemProofs!TypeCorrect` | `Spec => []TypeOK` |
| `ProductionSystemProofs!GenerationIsolation` | `Spec => []LivePlansAreCurrent` |
| `ProductionSystemProofs!SupersededSettled` | `Spec => SupersededSubjectsSettled` |
| `ProductionSystemProofs!LatchHolds` | `Spec => []LatchKeepsOmissionDisabled` |
| `ProductionSystemProofs!RowReadable` | `Spec => []ScopeRowReadable` |
| `PlanProofs!PlansRegistered` | `Spec => []PlansAreRegistered` |
| `PlanProofs!OneSelected` | `Spec => []OneSelectedPlanPerSubject` |
| `PlanProofs!RevocationFinal` | `Spec => RevocationIsFinal` |
| `PlanProofs!CommitsAuthorised` | `Spec => PlanCommitsAuthorised` |
| `PlanProofs!HandoverImplemented` | `Spec => ImplementsHandover` |
| `ReconciliationProofs!SuccessIffWitnessed` | the verdict is success exactly when the evidence witnesses it |
| `ReconciliationProofs!VerdictNeverRelaxes` | once the verdict is failure or conflict, no further observation makes it pending or success |
| `ReconciliationProofs!SuccessWitnessed` | `Spec => []SuccessIsWitnessed` |
| `ReconciliationProofs!RowsReadBack` | `Spec => []RowsReadable` |
| `ReconciliationProofs!StaleOwnersStopped` | `Spec => StaleOwnersFenced` |
| `WebhookLedgerProofs!OneChain` | `Spec => []LedgerIsOneChain` |
| `WebhookLedgerProofs!DeliveriesPaired` | `Spec => []DeliveriesAudited` |
| `WebhookLedgerProofs!AcknowledgementsStored` | `Spec => AcknowledgedIsStored` |
| `WebhookLedgerProofs!ReplayValid` | `Spec => []ReplayStaysValid` |
| `JwksCacheProofs!FetchesAreSingle` | `Spec => []SingleFlight` |
| `JwksCacheProofs!CloseIsTerminal` | `Spec => ClosedServesNothing` |
| `JwksCacheProofs!KeysExpire` | `Spec => WithdrawnKeysExpire` |
| `JwksCacheProofs!FetchesSpaced` | `Spec => FetchesAreSpaced` |
| `JwksCacheProofs!CacheAdvances` | `Spec => SnapshotNeverRollsBack` |
| `RuntimeLifecycleProofs!ResourcesLast` | `Spec => []ResourcesOutliveWork` |
| `RuntimeLifecycleProofs!ReportedLife` | `Spec => []ReportedLifeIsTrue` |
| `RuntimeLifecycleProofs!ClosesFenced` | `Spec => ClosesAreFenced` |
| `AttemptCollectionProofs!EvidenceFollows` | `Spec => []EvidenceFollowsRow` |
| `AttemptCollectionProofs!SignalsFollow` | `Spec => SignalsMatchPolicy` |
| `ControlPlaneSessionsProofs!WalksComplete` | `Spec => []PagesSkipNothing` |
| `ControlPlaneSessionsProofs!Accounted` | `Spec => SessionsAccounted` |
| `ControlPlaneSessionsProofs!LogoutsOnce` | `Spec => LogoutsTakeEffectOnce` |

The statement of each is the property that the run of section 3 checks on its small
instance.

Assumptions of the production modules: `StoreAssumption`, `ControlsAssumption`, `CutoverAssumption`,
`IssuanceAssumption`, each in the module that declares the constants. They say that
bounds and times are naturals, that windows and lifetimes are positive, that a
generation is a positive natural, that requests and operators are different processes,
that `None` is no identifier, and that each request belongs to a subject. TLC evaluates them in every production run.

**Types.** `TypeOK` is not inductive: signing reads the end of validity of the
request's authority, which is a number only if the request has one. `TypeInv` adds
`BoundToAuthority`: a request between preparation and save, and an activation in
flight, hold an authority.

**Generations.** None of the safety facts is inductive alone. A plan saved by
`CommitSave` is current only because the authority validated by `ValidateSave` still
serves; an activation leaves nothing behind only because the drain found by
`ValidateActivation` is still complete at `CommitActivation`. `GenerationInv` is the
conjunction of the invariants with

- `PendingAreCurrent`: a selected subject without any result is of the current
  generation;
- `LockHeld`: a transaction between its validation and its commit holds the scope lock;
- `ValidatedUnderLock`: what it validated is still true: the authority serves, or the
  predecessor has drained.

Then each action is one of three cases. It waits for the lock, so no other
transaction is between validation and commit (`FreeLock`). It is the holder's own
commit, so nobody else is (`OneHolder`). Or it takes no lock: the clock and a request outside a transaction can only let plans
expire or end what is in flight (`Withdrawal`), and a round cannot touch a selected row
while an operator holds the lock (`RowLocked`), so a complete drain stays complete.
`SupersededSettled` is the step form of this: at the commit the drain still holds, and
afterwards a late claim can reopen a subject but never make it one without a result. The latch facts are needed together with the others: activation clears the
latch and appends its enable in one step, and `TransitionAdmitted` refuses an
operator's enable while the latch is set.

**Plans.** A saved plan belongs to a registered subject because the request that saves
it has registered: `RequestsRegistered` ties a request past registration to the row of
its subject, and `SubjectsKeepBinding` says that no step rebinds a row. Two selected
plans of a subject then carry the one bound candidate. `RevocationIsFinal` follows from
`GenerationInv`: the generation that registers a subject or saves a plan was validated
under the scope lock, so it is not revoked when the step is taken.

`GuardInv` adds what the guard of a save checks besides the scope row. `GuardHeld`:
between guard and commit the epoch stays active and nothing forces Full CI, because
every writer of an epoch, a force or a control waits for the lock and a force that is
absent does not appear by the passing of time. `LifetimesBounded`: a plan ends at most
one lifetime and one clock difference after the present. `CommitsAuthorised` reads both
at the commit.

**The refinement.** `HandoverImplemented` shows that every step is a step of
`GenerationHandover` or a stutter, under the mapping of `ProductionSystem` (the
generation of the scope row; whether it serves; the live plans and the
selected subjects without a result as open executions). One lemma for each kind of step: registrations and saves open,
the clock and the worker close, `Begin` revokes, `CommitActivation` installs. The
invariants supply the guards of the abstract steps: what opens is of the serving
generation, and nothing is open when the successor is installed.

**Verdicts and reconciliation** (`VerdictAssumption`, `ConvergenceAssumption`). The two
verdict theorems are about the operators alone. For the composed system, `IInv` says
that the row is sound (`RowSound`), that what a round carries is sound for the row it
was read from (`RoundSound`), and that a stored result is supported by the evidence of
its revision (`Supported`). It mentions neither the row lock nor the lease: a success
is witnessed whoever writes it. `ConvInv` does: a claim whose generation is still the
row's knows the row's attempts (`ClaimFine`), since a change of attempts is a new
generation (`Advances`); and a round that is recording holds the row lock, so its lease
is still the row's (`RoundFine`). Hence no write makes a row that cannot be read back,
and every write is that of the latest claim. The assumption says besides the types that
`None` is neither a worker nor a terminal reason.

**The ledger** (`LedgerAssumption`). `LedgerIsOneChain` needs that the owner of the head
lock is the only transaction with an uncommitted event (`HeadHeld`), that this event
extends the committed head (`PendingExtends`), and the shape of transactions (`TxShape`,
`Counted`). The pairing of deliveries and events needs what each open transaction has
found (`RecordInv`): a row it inserts is in nobody's way, by `MustWait` (`ClaimSound`,
`Exclusive`), and a key it found absent under the head lock stays absent (`AppendSound`).
For the replay, `ReplaySound` says that its frozen head and its verified prefix are
points of the chain; appends only extend the chain, a page contains every event
between two points, and each of them extends the one before it. The assumption says
that requests and writers are different processes and that the idempotency key of a
claim, which has a prefix of its own, is the key of no other event.

**The key cache** (`JwksAssumption`). `OneUnfinished`: the task the provider refers to
is the only one that may be unfinished; `ClosedIsEmpty`: a closed provider holds no
snapshot and starts no task. The facts about ages need `CallInv` (a task is unfinished,
the shared one or some waiter's, so there is always a free one to start) and `AgeInv`:
the endpoint served the keys of a response at most its age ago, and those of a
published one at most its age and one fetch timeout ago (`TaskFine`, `SnapshotFine`); an
unpublished result is younger than the snapshot it will replace; and the remaining wait
and the time since the last fetch add up to the smaller interval (`Spacing`).

**The lifecycle** (`LifecycleAssumption`). `WorkInv` ties the loop, the worker and the
startup to each other. `CloseInv` says what each stage of `_close_all` has established:
startup joined, then the probes, then the background, and everything quiet before the
first release (`JoinedInOrder`). `Quiet` is stable because whatever starts work needs a
runtime on which no close has begun (`BegunForGood`). `ClosedInOrder`: an attempt goes
through what is not closed yet, so nothing is closed twice.

**Attempt collection** (`CollectionAssumption`). `WritersHold`: a transaction between
its two steps holds the row it has read, so the row is still what it read;
`PurgedIsPast`: the eligibility window of a purged source is over, which is what keeps
the same attempt from being registered again.

**Sessions and the journal** (`SessionsAssumption`). `SInv` rests on `LockHeld`: from its
statements to its end a transaction is the only one between the two. What its
statements computed is then still true of the tables at the commit (`ChangeFine`): the
sessions it ends are there, its journal rows balance the sessions it starts and ends,
and its logout selects all of its targets. Counting the rows is a bijection between
ends and sessions (`EndRowsCount`), because sessions are numbered by the rank of their
handle. `JournalAhead` carries the walk: the rows of an open transaction have numbers
above every watermark taken before it commits. `AppliedLast`: an applied token has its
replay row until the guarded insert would refuse the token anyway.

**Model-checked only.** Liveness (`DrainCompletes`, `EverySubjectSettles`,
`CallsReturn`, `ShutdownSettles`, `TransactionsEnd`, `EvidenceDrains`), because
fairness and `ENABLED` are beyond this prover; what a recursive definition computes for
every input, because that needs induction over data; and history collection
(`NothingLost`, `HistoryRowsReadable`, `AccountingExact`, `ArchiveNeverForgets`), whose
four modules have no proofs yet.

## 5. Finding

`reclaim` (`ClaimsAreUnresolved`, a divergence of documentation and code). The
docstring of the claim query (`persistence/reconciliation_queries.py:12`) says "Select
one unresolved due row under a skip-locked write lock", and
`docs/architecture/modules/persistence.md` makes "no result exists for
CurrentRevision(s)" a condition of eligibility. The anti-join with the results is
evaluated on the statement's snapshot; after the lock, READ COMMITTED reads only the
locked subject row again. When another replica commits the terminal result, which
also clears the lease, between the two, the second replica claims a resolved subject.
Either the result transaction straddles the expiry of its lease, so that the second
replica finds the row due, or the second statement is delayed between its snapshot and
its lock for as long as a round takes.

The properties of `reconciliation` hold all the same: no stale owner writes, a recorded
success is witnessed, and the subject ends resolved. But the second claim has effects of
its own:

- If its owner crashes, or records a duplicate of the stored result, nothing clears the
  lease: `record_result` releases it only for a new result, and the claim query never
  returns a resolved row again. `production_local_drain_complete`
  (`persistence/production_cutover_drain.py:84`) refuses a subject whose lease columns
  are set, expired or not, so every later activation in that repository is refused.
- If it appends a new observation, the revision moves past the stored result and the
  subject is open again until a result for the new revision is recorded.

With a claim that reads the result again after it has locked the row, TLC finds
neither on this instance. `ProductionSystem` has the late claim and both its effects,
so the results about cutovers already account for it:

- `DrainCompletes` names the first effect as the only way a begun cutover stays
  undrained for ever; plans, requests and controls cannot.
- `SupersededSubjectsSettled` says that at the commit of an activation no selected
  subject is claimed or open: the drain's row locks exclude a late claim between its
  answer and the commit. After the commit a late claim can still reopen a subject of
  the superseded generation, and the property excludes only subjects that never had a
  result.
- `ImplementsHandover` counts a subject as an open execution until its first result,
  so that a reopened one, which is further evidence about an execution that has ended,
  opens nothing.

## 6. How to check

    tlc -workers 2 -config MCHandover.cfg MCProductionSystem
    tlapm ProductionSystemProofs.tla

`PROJECT.json` names the module and the cfg of every run.

## 7. Not modelled

- Parsing, canonical encoding, hashing, signatures and token verification: their
  results are model values; equality of values stands for equality of digests.
- HTTP handlers, clients, metrics, settings and read models: decoding and mapping
  around the operations that are modelled. What a client answers is a choice.
- Row codecs, the schema and migrations: definitions of data.
- Workflow discovery, repository context, provider inventory, target authority,
  capacity qualification, governance comparison, shadow comparison: pure projections
  of documents without state of their own.
- Planning, plan verification, advice and shards: pure functions over documents whose
  interesting part is the documents. A plan is a candidate here, verified or not.
- CI observation scanning: its two lanes, with their leases, windows, pages and gaps,
  repeat the scan of `HistoryCollection`. What a recorded page does to the collection
  rows is `RegisterProviderSource` of `AttemptCollection`.
- Proposal review and governance baselines: each command is one transaction under the
  scope lock, of the shape of an epoch activation, so nothing interleaves inside it.
  The activation itself, which other components depend on, is in `ScopeControls`; the
  attestation that proposal review requires of it is left out. Configuration drafts
  are read by nothing before an activation names one.
- Cleanup of a unit of work's connection: in-process handling of one connection; its
  visible outcomes (committed, rolled back, unknown) are choices wherever they matter.
- Browser identity: the exchange with the identity provider is cryptography and HTTP;
  the session it ends in is in `ControlPlaneSessions`.
- The consumer contract lab and the frontend: programs of their own that hold no
  durable state of the coordinator.

`PROJECT.json` gives each component its status and the reason.
