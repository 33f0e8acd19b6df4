------------------------- MODULE HistoryCollection --------------------------
(***************************************************************************)
(* Collection of CI history for one repository scope.  A backfill scan     *)
(* reads the attempts of the runs created before the configuration, a      *)
(* discovery scan finds newer runs in overlapping cycles and queues them   *)
(* for rechecks, webhook deliveries queue runs too, and operators          *)
(* configure the dataset, repair gaps and remove details.                  *)
(*                                                                         *)
(* Every store call is one transaction under the advisory lock of the      *)
(* scope and is one step here.  Provider reads happen between the claim    *)
(* and the completion of a worker: a page read is a step of its own, the   *)
(* outcome of an attempt read is chosen by the completion.  Retry delays   *)
(* are left out, so a row may be claimed as soon as its lease allows.      *)
(***************************************************************************)
EXTENDS HistoryRechecks, HistoryArchive

CONSTANTS
    RunCount,         \* workflow runs the provider will ever have
    MaxAttempt,       \* bound: attempts of a run
    WorkflowOf,       \* the workflow of each run
    Bounds,           \* earliest creation times an operator may configure
    Configurations,   \* configurations an operator may choose
    Observations,     \* statistics the provider may return
    Served,           \* scan lanes the workers serve
    Failures,         \* how a provider read may fail
    Delivered,        \* bound: run attempts that are ever delivered
    Overlap,          \* HISTORY_DISCOVERY_OVERLAP_SECONDS
    MaxTime,          \* bound: the clock stops here
    MaxRevision       \* bound: configuration revisions

Runs == 1 .. RunCount
Attempts == 1 .. MaxAttempt
Lanes == {"backfill", "discovery"}
NoTime == -1

ASSUME HistoryAssumption ==
    /\ Keys = Runs \X Attempts
    /\ {RunCount, MaxAttempt, Overlap, MaxTime, MaxRevision} \subseteq Nat
    /\ Bounds \subseteq Nat /\ Delivered \subseteq Keys /\ Served \subseteq Lanes
    /\ NoFact \notin Facts({o.jobs : o \in Observations})
    /\ \A c \in Configurations :
          c \in [enabled : BOOLEAN, selection : SUBSET c.selection,
                 quota : [attempts : Nat, jobs : Nat, gaps : Nat, bytes : Nat],
                 policy : {"finite", "unlimited", "disabled"}]
    /\ \A o \in Observations :
          /\ o \in [jobs : SUBSET o.jobs, population : {"complete", "partial", "conflict"}]
          /\ IsFiniteSet(o.jobs)

VARIABLES
    clock,     \* seconds of the database clock
    created,   \* second in which each run was created, NoTime before that
    latest,    \* number of attempts of each run at the provider
    inbox,     \* run attempts whose delivery waits for its transfer
    dataset,   \* the configured dataset
    scan,      \* the scan row of each lane
    recheck,   \* the recheck row of each run
    archive,   \* facts, gaps and usage
    held,      \* the claim each worker works on
    known      \* history: latest attempt reported of each run while selected

provider == <<clock, created, latest>>
vars == <<clock, created, latest, inbox, dataset, scan, recheck, archive, held, known>>

----------------------------------------------------------------------------
(* Rows and claims *)

NoDataset == [rev |-> 0, config |-> [enabled |-> FALSE, selection |-> {},
                                     quota |-> Usage(0, 0, 0, 0), policy |-> "disabled"]]

NoScan == StartCursor(0, 0, 0, NoTime, NoTime)

NoPage == [runs |-> {}, total |-> -1, termination |-> "unread"]

Idle == [task |-> "idle", run |-> 0, page |-> NoPage]

Configured == dataset.rev > 0

(* The dataset is active or paused. *)
Active == dataset.config.enabled

Quota == dataset.config.quota
Policy == dataset.config.policy

Selects(run) == WorkflowOf[run] \in dataset.config.selection

(* current_history_claim and current_history_recheck *)
HoldsScan(w, lane) == held[w].task = lane /\ Active /\ scan[lane].lease = w

HoldsRecheck(w, r) ==
    /\ held[w].task = "recheck" /\ held[w].run = r
    /\ Active /\ Selects(r)
    /\ recheck[r] # NoRow /\ recheck[r].lease = w

Gap(reason, run, attempt, s) ==
    [rev |-> dataset.rev, reason |-> reason, run |-> run, attempt |-> attempt,
     cycle |-> s.cycle, from |-> s.wfrom, to |-> s.wto, page |-> s.page, kind |-> "scan"]

RecheckGap(reason, run, attempt) ==
    [rev |-> dataset.rev, reason |-> reason, run |-> run, attempt |-> attempt,
     cycle |-> 0, from |-> NoTime, to |-> NoTime, page |-> 0, kind |-> "recheck"]

CurrentRun(s) == Current(s).run

ScanGap(reason, s) == Gap(reason, CurrentRun(s), s.next, s)

(* The interval of attempts the pending run still needs. *)
PendingHint(s, last, source) == Hint(s.next, last, source)

Reported(rs, base) ==
    [r \in Runs |-> IF Selects(r) /\ \E x \in rs : x.run = r
                    THEN HigherOf(base[r], (CHOOSE x \in rs : x.run = r).latest)
                    ELSE base[r]]

FreeWorker(w) == held' = [held EXCEPT ![w] = Idle]

(* _finish of a scan completion: its checkpoint or, out of room, the prior one. *)
FinishScan(w, lane, s) ==
    /\ scan' = [scan EXCEPT ![lane] = FinishClaim(s, lane)]
    /\ FreeWorker(w)

----------------------------------------------------------------------------
(* The provider and its deliveries *)

Tick ==
    /\ clock < MaxTime
    /\ clock' = clock + 1
    /\ UNCHANGED <<created, latest, inbox, dataset, scan, recheck, archive, held, known>>

CreateRun ==
    \E r \in Runs :
        /\ created[r] = NoTime /\ \A q \in 1 .. r - 1 : created[q] # NoTime
        /\ created' = [created EXCEPT ![r] = clock]
        /\ latest' = [latest EXCEPT ![r] = 1]
        /\ UNCHANGED <<clock, inbox, dataset, scan, recheck, archive, held, known>>

Rerun(r) ==
    /\ latest[r] \in 1 .. MaxAttempt - 1
    /\ latest' = [latest EXCEPT ![r] = @ + 1]
    /\ UNCHANGED <<clock, created, inbox, dataset, scan, recheck, archive, held, known>>

(* A completed attempt is delivered, again once its observation expired. *)
Deliver(r, a) ==
    /\ a <= latest[r]
    /\ inbox' = inbox \cup {<<r, a>>}
    /\ UNCHANGED <<provider, dataset, scan, recheck, archive, held, known>>

(* delete_expired_observations: the inbox row goes with its observation. *)
ExpireDelivery(r, a) ==
    /\ <<r, a>> \in inbox
    /\ inbox' = inbox \ {<<r, a>>}
    /\ UNCHANGED <<provider, dataset, scan, recheck, archive, held, known>>

(* transfer_history_deliveries, one delivery of a batch. *)
TransferDelivery(r, a) ==
    /\ Active /\ <<r, a>> \in inbox /\ Selects(r)
    /\ Admissible(recheck, r, Hint(1, a, "recent"))
    /\ recheck' = Admit(recheck, r, Hint(1, a, "recent"), FALSE)
    /\ inbox' = inbox \ {<<r, a>>}
    /\ known' = [known EXCEPT ![r] = HigherOf(@, a)]
    /\ UNCHANGED <<provider, dataset, scan, archive, held>>

----------------------------------------------------------------------------
(* Configuration *)

InitialConfigure(from, configuration) ==
    /\ ~Configured /\ from <= clock
    /\ dataset' = [rev |-> 1, config |-> configuration]
    /\ scan' = [backfill |-> StartCursor(from, clock, -1, NoTime, NoTime),
                discovery |-> StartCursor(clock, clock, -1, clock, NoTime)]
    /\ UNCHANGED <<provider, inbox, recheck, archive, held, known>>

(* configure_history on an existing dataset: leases of both scans end, a    *)
(* new selection, a rescan or an earlier bound restarts the backfill, and   *)
(* rechecks of workflows no longer selected are deleted.                    *)
Reconfigure(from, rescan, configuration) ==
    LET b == scan.backfill
        selection == configuration.selection
        expand == from < b.from
        restart == rescan \/ expand \/ selection # dataset.config.selection
    IN /\ Configured /\ dataset.rev < MaxRevision
       /\ from <= b.from
       /\ expand => configuration = dataset.config /\ ~rescan /\ ~Pending(b)
       /\ dataset' = [rev |-> dataset.rev + 1, config |-> configuration]
       /\ scan' = [backfill |-> IF restart
                                THEN StartCursor(from, clock, -dataset.rev - 1, NoTime, NoTime)
                                ELSE [b EXCEPT !.lease = "none"],
                   discovery |-> [scan.discovery EXCEPT
                                     !.lease = "none", !.due = @ \/ scan.discovery.complete]]
       /\ recheck' = [r \in Runs |->
                        IF recheck[r] = NoRow \/ WorkflowOf[r] \notin selection THEN NoRow
                        ELSE [recheck[r] EXCEPT !.lease = Superseded(@)]]
       /\ known' = [r \in Runs |-> IF WorkflowOf[r] \in selection THEN known[r] ELSE 0]
       /\ UNCHANGED <<provider, inbox, archive, held>>

----------------------------------------------------------------------------
(* Scans *)

(* claim_history: a finished discovery scan starts its next cycle after its *)
(* interval, or at once when a reconfiguration made it due.                 *)
ClaimScan(w, lane) ==
    LET s == scan[lane]
        prepared == IF lane = "discovery" /\ s.complete
                    THEN NextCycle(s, Overlap, clock) ELSE s
    IN /\ held[w] = Idle /\ Active
       /\ s.lease = "none"
       /\ s.complete => lane = "discovery" /\ (clock > s.through \/ s.due)
       /\ scan' = [scan EXCEPT ![lane] = [prepared EXCEPT !.lease = w]]
       /\ held' = [held EXCEPT ![w] = [Idle EXCEPT !.task = lane]]
       /\ UNCHANGED <<provider, inbox, dataset, recheck, archive, known>>

Listed(from, to) ==
    {r \in Runs : created[r] # NoTime /\ from <= created[r] /\ created[r] <= to}

(* The provider read of a worker whose scan awaits a page. *)
ReadPage(w, lane) ==
    /\ HoldsScan(w, lane) /\ ~Pending(scan[lane]) /\ held[w].page = NoPage
    /\ held' = [held EXCEPT ![w].page =
                  ProviderPage(Listed(scan[lane].wfrom, scan[lane].wto), latest,
                               scan[lane].page)]
    /\ UNCHANGED <<provider, inbox, dataset, scan, recheck, archive, known>>

(* complete_history_page *)
CompletePage(w, lane) ==
    LET s == scan[lane]
        page == held[w].page
        gapped == IF Truncates(s, page)
                  THEN StoreGap(archive, Quota, Gap("provider_truncated", 0, 0, s))
                  ELSE [archive |-> archive, outcome |-> "none"]
        accepted == gapped.outcome # "capacity_reached"
    IN /\ HoldsScan(w, lane) /\ page # NoPage
       /\ archive' = gapped.archive
       /\ FinishScan(w, lane, IF accepted THEN AcceptPage(s, page) ELSE s)
       /\ known' = IF accepted /\ ~Subdivides(s, page) THEN Reported(page.runs, known) ELSE known
       /\ UNCHANGED <<provider, inbox, dataset, recheck>>

(* complete_history_statistics: only the backfill reads attempts itself. *)
CompleteStatistics(w, statistics, detail) ==
    LET s == scan.backfill
        result == Contribute(archive, Quota, Policy, <<CurrentRun(s), s.next>>,
                             statistics, detail,
                             [reason \in {"incomparable", "job_population_incomplete"} |->
                                ScanGap(reason, s)])
    IN /\ HoldsScan(w, "backfill") /\ Pending(s) /\ Selects(CurrentRun(s))
       /\ archive' = result.archive
       /\ FinishScan(w, "backfill", IF result.capacity THEN s ELSE CompleteAttempt(s))
       /\ UNCHANGED <<provider, inbox, dataset, recheck, known>>

(* complete_unavailable_history_attempt *)
CompleteUnavailable(w) ==
    LET s == scan.backfill
        gapped == StoreGap(archive, Quota, ScanGap("provider_not_found", s))
    IN /\ "missing" \in Failures
       /\ HoldsScan(w, "backfill") /\ Pending(s) /\ Selects(CurrentRun(s))
       /\ archive' = gapped.archive
       /\ FinishScan(w, "backfill",
                     IF gapped.outcome = "capacity_reached" THEN s ELSE CompleteAttempt(s))
       /\ UNCHANGED <<provider, inbox, dataset, recheck, known>>

(* complete_unselected_history_run *)
SkipUnselected(w, lane) ==
    LET s == scan[lane]
    IN /\ HoldsScan(w, lane) /\ Pending(s) /\ ~Selects(CurrentRun(s))
       /\ FinishScan(w, lane, AdvanceRun(s))
       /\ UNCHANGED <<provider, inbox, dataset, recheck, archive, known>>

(* _can_replay_discovered_fact *)
CanReplay(s) ==
    LET r == CurrentRun(s)
        fact == archive.facts[<<r, s.next>>]
    IN /\ s.next = Current(s).latest
       /\ recheck[r] = NoRow
       /\ fact # NoFact
       /\ ~fact.conflict /\ fact.population = "complete"

(* handoff_discovered_history_run *)
Handoff(w) ==
    LET s == scan.discovery
        r == CurrentRun(s)
        hint == PendingHint(s, Current(s).latest, "recent")
        room == Admissible(recheck, r, hint)
    IN /\ HoldsScan(w, "discovery") /\ Pending(s) /\ Selects(r)
       /\ \/ /\ CanReplay(s)
             /\ UNCHANGED recheck
             /\ FinishScan(w, "discovery", AdvanceRun(s))
          \/ /\ ~CanReplay(s)
             /\ recheck' = IF room THEN Admit(recheck, r, hint, FALSE) ELSE recheck
             /\ FinishScan(w, "discovery", IF room THEN AdvanceRun(s) ELSE s)
       /\ UNCHANGED <<provider, inbox, dataset, archive, known>>

(* defer_history_claim: a page is read again later; an attempt of the       *)
(* backfill leaves a gap and a repair row in one savepoint, and the scan    *)
(* moves on.                                                                *)
DeferScan(w, lane) ==
    LET s == scan[lane]
        gapped == StoreGap(archive, Quota, ScanGap("provider_deferred", s))
        hint == PendingHint(s, s.next, "repair")
        room == /\ gapped.outcome # "capacity_reached"
                /\ Admissible(recheck, CurrentRun(s), hint)
    IN /\ "deferred" \in Failures
       /\ HoldsScan(w, lane)
       /\ \/ /\ ~Pending(s)
             /\ FinishScan(w, lane, s)
             /\ UNCHANGED <<recheck, archive>>
          \/ /\ Pending(s) /\ lane = "backfill" /\ Selects(CurrentRun(s))
             /\ archive' = IF room THEN gapped.archive ELSE archive
             /\ recheck' = IF room THEN Admit(recheck, CurrentRun(s), hint, TRUE) ELSE recheck
             /\ FinishScan(w, lane, IF room THEN CompleteAttempt(s) ELSE s)
       /\ UNCHANGED <<provider, inbox, dataset, known>>

----------------------------------------------------------------------------
(* Rechecks *)

Claimable(r) == Active /\ recheck[r] # NoRow /\ Selects(r) /\ ~Live(recheck[r].lease)

(* claim_history_recheck *)
ClaimRecheck(w, r) ==
    /\ held[w] = Idle /\ Claimable(r) /\ ~Exhausted(recheck[r])
    /\ recheck' = [recheck EXCEPT ![r] = Acquire(@, w)]
    /\ held' = [held EXCEPT ![w] = [Idle EXCEPT !.task = "recheck", !.run = r]]
    /\ UNCHANGED <<provider, inbox, dataset, scan, archive, known>>

(* Faulty variant, for sensitivity checks only: an exhausted attempt is passed over without a gap. *)
RecoverExhaustedSilently(r) ==
    /\ Claimable(r) /\ Exhausted(recheck[r])
    /\ recheck' = [recheck EXCEPT ![r] = AdvanceRecheck(@)]
    /\ UNCHANGED <<provider, inbox, dataset, scan, archive, held, known>>

(* recover_recheck_exhaustion, by a claim that meets an exhausted row. *)
RecoverExhausted(r) ==
    LET gapped == StoreGap(archive, Quota,
                           RecheckGap("retry_exhausted", r, recheck[r].next))
    IN /\ Claimable(r) /\ Exhausted(recheck[r])
       /\ gapped.outcome # "capacity_reached"
       /\ archive' = gapped.archive
       /\ recheck' = [recheck EXCEPT ![r] = AdvanceRecheck(@)]
       /\ UNCHANGED <<provider, inbox, dataset, scan, held, known>>

(* complete_recheck_statistics *)
RecheckStatistics(w, r, statistics, detail) ==
    LET row == recheck[r]
        result == Contribute(archive, Quota, Policy, <<r, row.next>>,
                             statistics, detail,
                             [reason \in {"incomparable", "job_population_incomplete"} |->
                                RecheckGap(reason, r, row.next)])
    IN /\ HoldsRecheck(w, r)
       /\ archive' = result.archive
       /\ recheck' = [recheck EXCEPT ![r] = IF result.capacity THEN Postpone(@)
                                            ELSE AdvanceRecheck(@)]
       /\ FreeWorker(w)
       /\ UNCHANGED <<provider, inbox, dataset, scan, known>>

(* complete_recheck_failure: the attempt is missing or could not be read. *)
RecheckFailure(w, r, failure) ==
    LET row == recheck[r]
        missing == failure = "missing"
        gives == missing \/ Exhausted(row)
        reason == IF missing THEN "provider_not_found" ELSE "retry_exhausted"
        gapped == IF gives
                  THEN StoreGap(archive, Quota, RecheckGap(reason, r, row.next))
                  ELSE [archive |-> archive, outcome |-> "none"]
    IN /\ failure \in Failures
       /\ HoldsRecheck(w, r)
       /\ archive' = gapped.archive
       /\ recheck' = [recheck EXCEPT
                        ![r] = IF gapped.outcome = "capacity_reached" THEN Postpone(@)
                               ELSE IF missing THEN AdvanceRecheck(@) ELSE FinishDeferred(@)]
       /\ FreeWorker(w)
       /\ UNCHANGED <<provider, inbox, dataset, scan, known>>

(* wait_for_history_attempt: the run has not ended. *)
WaitForAttempt(w, r) ==
    /\ "not_terminal" \in Failures
    /\ HoldsRecheck(w, r)
    /\ recheck' = [recheck EXCEPT ![r] = Postpone(@)]
    /\ FreeWorker(w)
    /\ UNCHANGED <<provider, inbox, dataset, scan, archive, known>>

(* repair_history_gaps, for one selected gap of a recheck. *)
RepairGap(gap) ==
    LET hint == Hint(gap.attempt, gap.attempt, "repair")
    IN /\ Active /\ gap.kind = "recheck" /\ Selects(gap.run)
       /\ Admissible(recheck, gap.run, hint)
       /\ recheck' = Admit(recheck, gap.run, hint, TRUE)
       /\ UNCHANGED <<provider, inbox, dataset, scan, archive, held, known>>

----------------------------------------------------------------------------
(* Details, leases and workers *)

(* expire_history_details_in_scope: a finite retention period is over. *)
ExpireDetail(key) ==
    /\ Configured
    /\ Retained(archive.facts[key]) /\ archive.facts[key].detail = "finite"
    /\ archive' = RemoveDetails(archive, {key})
    /\ UNCHANGED <<provider, inbox, dataset, scan, recheck, held, known>>

(* apply_history_retention with erase_details, and with apply_policy. *)
EraseDetails(keys) ==
    /\ Configured
    /\ archive' = RemoveDetails(archive, {k \in keys : Retained(archive.facts[k])})
    /\ UNCHANGED <<provider, inbox, dataset, scan, recheck, held, known>>

ApplyPolicy(keys) ==
    LET retained == {k \in keys : Retained(archive.facts[k])}
    IN /\ Configured
       /\ archive' = IF Policy = "disabled" THEN RemoveDetails(archive, retained)
                     ELSE [archive EXCEPT
                             !.facts = [k \in Keys |-> IF k \in retained
                                          THEN [@[k] EXCEPT !.detail = Policy]
                                          ELSE @[k]]]
       /\ UNCHANGED <<provider, inbox, dataset, scan, recheck, held, known>>

(* An expired scan lease admits the same calls as none. *)
ScanLeaseExpires(lane) ==
    /\ scan[lane].lease # "none"
    /\ scan' = [scan EXCEPT ![lane].lease = "none"]
    /\ UNCHANGED <<provider, inbox, dataset, recheck, archive, held, known>>

RecheckLeaseExpires(r) ==
    /\ recheck[r] # NoRow /\ Live(recheck[r].lease)
    /\ recheck' = [recheck EXCEPT ![r].lease = "lapsed"]
    /\ UNCHANGED <<provider, inbox, dataset, scan, archive, held, known>>

(* The worker stops: aborted, crashed, or told that its claim was lost. *)
Abandon(w) ==
    /\ held[w] # Idle
    /\ FreeWorker(w)
    /\ UNCHANGED <<provider, inbox, dataset, scan, recheck, archive, known>>

----------------------------------------------------------------------------
Init ==
    /\ clock = 0
    /\ created = [r \in Runs |-> NoTime]
    /\ latest = [r \in Runs |-> 0]
    /\ inbox = {}
    /\ dataset = NoDataset
    /\ scan = [lane \in Lanes |-> NoScan]
    /\ recheck = [r \in Runs |-> NoRow]
    /\ archive = EmptyArchive
    /\ held = [w \in Workers |-> Idle]
    /\ known = [r \in Runs |-> 0]

ProviderStep ==
    \/ Tick
    \/ CreateRun
    \/ \E r \in Runs : Rerun(r)

DeliveryStep ==
    \E key \in Delivered :
        LET r == key[1]
            a == key[2]
        IN Deliver(r, a) \/ ExpireDelivery(r, a) \/ TransferDelivery(r, a)

Configuration ==
    \E configuration \in Configurations, from \in Bounds :
        \/ InitialConfigure(from, configuration)
        \/ \E rescan \in BOOLEAN : Reconfigure(from, rescan, configuration)

ScanStep ==
    \E w \in Workers :
        \/ \E lane \in Served :
              \/ ClaimScan(w, lane) \/ ReadPage(w, lane) \/ CompletePage(w, lane)
              \/ SkipUnselected(w, lane) \/ DeferScan(w, lane)
        \/ \E statistics \in Observations, detail \in BOOLEAN :
              CompleteStatistics(w, statistics, detail)
        \/ CompleteUnavailable(w)
        \/ Handoff(w)

RecheckStep ==
    \E r \in Runs :
        \/ \E w \in Workers :
              \/ ClaimRecheck(w, r) \/ WaitForAttempt(w, r)
              \/ \E statistics \in Observations, detail \in BOOLEAN :
                    RecheckStatistics(w, r, statistics, detail)
              \/ \E failure \in {"missing", "deferred"} : RecheckFailure(w, r, failure)
        \/ RecoverExhausted(r)

DetailStep ==
    \E keys \in SUBSET {k \in Keys : Retained(archive.facts[k])} :
        \/ EraseDetails(keys) \/ ApplyPolicy(keys)
        \/ \E k \in keys : ExpireDetail(k)

Next ==
    \/ ProviderStep \/ DeliveryStep \/ Configuration \/ ScanStep \/ RecheckStep \/ DetailStep
    \/ \E gap \in archive.gaps : RepairGap(gap)
    \/ \E lane \in Lanes : ScanLeaseExpires(lane)
    \/ \E r \in Runs : RecheckLeaseExpires(r)
    \/ \E w \in Workers : Abandon(w)

Spec == Init /\ [][Next]_vars

----------------------------------------------------------------------------
(* Properties *)

(* The backfill answers for runs created between its bounds, the discovery  *)
(* scan for those created later; a run is behind a scan once no window that *)
(* is still to be read contains its creation.                               *)
BehindBackfill(r) ==
    LET s == scan.backfill
    IN s.from <= created[r] /\ created[r] < s.through /\ (s.complete \/ created[r] < s.wfrom)

AheadOfBackfill(r) ==
    LET s == scan.backfill
    IN s.wfrom <= created[r] /\ created[r] <= s.through /\ ~s.complete

BehindDiscovery(r) ==
    LET s == scan.discovery
    IN created[r] >= scan.backfill.through /\ created[r] < HigherOf(s.done, s.wfrom)

WindowGap(r) ==
    \E g \in archive.gaps : g.reason = "provider_truncated"
                            /\ g.from <= created[r] /\ created[r] <= g.to

(* Where the work on an attempt of a run is recorded. *)
InPendingPage(r, a) ==
    \E lane \in Lanes : \E x \in scan[lane].runs :
        x.run = r /\ a <= x.latest /\ (x = Current(scan[lane]) => scan[lane].next <= a)

InQueue(r, a) == recheck[r] # NoRow /\ recheck[r].next <= a /\ a <= recheck[r].latest

Answered(r, a) ==
    \/ archive.facts[<<r, a>>] # NoFact
    \/ \E g \in archive.gaps : g.run = r /\ g.attempt = a

(* No selected run is lost: one that both scans have passed was reported or *)
(* lies in a window whose truncation is recorded, and every attempt that    *)
(* was reported is archived, has a gap, is queued, or is still to be read   *)
(* by a scan.  Holds across lost claims, expired leases, restarts of the    *)
(* backfill, full quotas and queues, and deliveries that come twice.        *)
NothingLost ==
    \A r \in Runs :
        Configured /\ Selects(r) /\ created[r] # NoTime =>
            /\ BehindBackfill(r) \/ BehindDiscovery(r) => known[r] > 0 \/ WindowGap(r)
            /\ \A a \in 1 .. known[r] :
                  \/ Answered(r, a) \/ InQueue(r, a) \/ InPendingPage(r, a)
                  \/ AheadOfBackfill(r) \/ WindowGap(r)

(* The usage of the dataset is what its stored facts, details and gaps add  *)
(* up to, whatever savepoint was rolled back, statistics were refined or    *)
(* details expired: reserve and release never drift from the rows.  And a   *)
(* detail is stored exactly while its fact says it is retained, or          *)
(* _validate_existing_detail would refuse the next statistics of the fact.  *)
AccountingExact ==
    /\ archive.usage = StoredUsage(archive)
    /\ DetailRows(archive) = {k \in Keys : Retained(archive.facts[k])}

(* Rows can be decoded: the invariants that HistoryCursor, HistoryScanState,*)
(* HistoryCheckpoint and HistoryRecheckState raise on hold of every stored  *)
(* row, and the queue respects its bounds.                                  *)
HistoryRowsReadable ==
    /\ \A lane \in Lanes :
          LET s == scan[lane]
          IN /\ s.from <= s.wfrom /\ s.wfrom <= s.wto /\ s.wto <= s.through /\ s.through <= clock
             /\ s.wfrom = s.wto => s.from = s.through
             /\ s.page \in 1 .. MaxPages
             /\ s.complete => ~Pending(s) /\ s.wto = s.through /\ s.lease = "none"
             /\ Pending(s) => s.next <= Current(s).latest
             /\ lane = "discovery" =>
                  /\ s.from >= s.floor /\ s.done <= s.through /\ s.next = 1
                  /\ s.complete => s.done = s.through
    /\ \A r \in Queued(recheck) : RecheckReadable(recheck[r]) /\ Selects(r)
    /\ Cardinality(Queued(recheck)) <= MaxRecheckRuns
    /\ Cardinality({r \in Queued(recheck) : recheck[r].source = "repair"}) <= MaxRepairRuns

(* The archive never forgets: a fact stays, its jobs and its completeness   *)
(* only grow, a conflict stays a conflict, a gap stays, and a detail that   *)
(* expired or was erased is never imported again.                           *)
ArchiveNeverForgets ==
    [][/\ archive.gaps \subseteq archive'.gaps
       /\ \A k \in Keys :
            LET f == archive.facts[k]
                g == archive'.facts[k]
            IN f # NoFact =>
                 /\ g # NoFact /\ f.jobs \subseteq g.jobs
                 /\ f.population = "complete" => g.population = "complete"
                 /\ f.conflict => g.conflict
                 /\ f.detail = "expired" => g.detail = "expired"]_vars

=============================================================================
