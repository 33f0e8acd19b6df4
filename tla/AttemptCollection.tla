------------------------- MODULE AttemptCollection --------------------------
(***************************************************************************)
(* Collection of the evidence of workflow attempts in one repository: a    *)
(* source is registered inside its eligibility window, tasks claim the     *)
(* rows that are due, read the provider and store a snapshot or defer,     *)
(* reports of measurements arrive with the signals of the budget policy,   *)
(* and retention expires the evidence and later purges the row itself.     *)
(*                                                                         *)
(* Store calls are transactions.  The two in which a row stays locked      *)
(* while the clock and other transactions move on to some effect, storing  *)
(* a snapshot and writing a report, take two steps; the others take one.   *)
(* `at' is next_attempt_at or lease_expires_at, whichever the status has.  *)
(* A claim is told from later ones by its attempt and its expiry: tasks of *)
(* one process share the worker id, and the token adds nothing to these.   *)
(***************************************************************************)
EXTENDS Integers, FiniteSets

CONSTANTS
    Sources,            \* [id, kind, run, head, created] of every attempt
    Tasks,              \* concurrent _collect_one calls
    Reports,            \* reports a job may post
    SourceOf,           \* the source each report is about
    Window, Lease, InitialBackoff, MaxBackoff, MaxAttempts,
    EvidenceTime, Grace,               \* CollectionPolicy
    MaxTerminalizations,               \* maximum_terminalizations_per_claim
    BatchSize,                         \* limit of registration and retention
    MaxSources, MaxReports,            \* quotas of a repository, of an attempt
    MaxTime, MaxRevision               \* bounds: clock, budget revisions

ASSUME CollectionAssumption ==
    /\ {Window, Lease, InitialBackoff, MaxBackoff, MaxAttempts, EvidenceTime, Grace}
          \subseteq Nat \ {0}
    /\ {MaxTerminalizations, BatchSize, MaxSources, MaxReports, MaxTime, MaxRevision}
          \subseteq Nat
    /\ InitialBackoff <= MaxBackoff /\ MaxBackoff < Window /\ Lease < Window
    /\ Window < EvidenceTime
    /\ \A s \in Sources : /\ s.id \in Nat /\ s.created \in Nat
                          /\ s.kind \in {"reconciliation", "provider_run"}
    /\ SourceOf \in [Reports -> {s \in Sources : s.kind = "provider_run"}]

VARIABLES
    now,         \* the database clock
    row,         \* the collection row of each source, status "absent" before and after
    task,        \* what each task is doing, and under which claim
    snapshots,   \* sources whose snapshot is stored
    reports,     \* reports stored
    policy,      \* revision of the budget policy, 0 before the first
    writing,     \* revision each report being written has read, NoRevision if none
    signals,     \* <<report, revision>> of the stored signals
    purged       \* history: sources whose row was purged

evidence == <<snapshots, reports, signals>>
budgets == <<policy, writing>>
vars == <<now, row, task, snapshots, reports, policy, writing, signals, purged>>

NoRevision == -1
Absent == [status |-> "absent", attempts |-> 0, backoff |-> InitialBackoff, at |-> 0]
Idle == [pc |-> "idle"]

Open == {"pending", "deferred", "leased"}
Final == {"captured", "terminal_unavailable"}

Deadline(s) == s.created + Window
EvidenceUntil(s) == s.created + EvidenceTime
TombstoneUntil(s) == EvidenceUntil(s) + Grace

(* Rows some transaction holds FOR UPDATE between two of its steps. *)
Locked(s) ==
    \/ \E t \in Tasks : task[t].pc = "storing" /\ task[t].source = s
    \/ \E r \in Reports : writing[r] # NoRevision /\ SourceOf[r] = s

Init ==
    /\ now = 0
    /\ row = [s \in Sources |-> Absent]
    /\ task = [t \in Tasks |-> Idle]
    /\ snapshots = {} /\ reports = {} /\ signals = {} /\ purged = {}
    /\ policy = 0
    /\ writing = [r \in Reports |-> NoRevision]

Tick == now < MaxTime /\ now' = now + 1 /\ UNCHANGED <<row, task, evidence, budgets, purged>>

-----------------------------------------------------------------------------
(* Registration.  The window is anchored at the creation of the source.     *)

InWindow(s) == s.created <= now /\ now < Deadline(s)

Registered(S) ==
    row' = [s \in Sources |->
              IF s \in S THEN [Absent EXCEPT !.status = "pending", !.at = now] ELSE row[s]]

(* At most BatchSize of the candidates, those with the least key first. *)
Batch(S, candidates, key(_)) ==
    /\ S \subseteq candidates
    /\ Cardinality(S) <= BatchSize
    /\ S # candidates => Cardinality(S) = BatchSize
    /\ \A s \in S, c \in candidates \ S : key(s) <= key(c)

(* Subjects whose reconciliation has a terminal result: any of them may. *)
RegisterEligible ==
    /\ \E concluded \in SUBSET {s \in Sources : s.kind = "reconciliation"} :
         LET eligible == {s \in concluded : row[s].status = "absent" /\ InWindow(s)}
         IN  \E S \in SUBSET eligible :
               Batch(S, eligible, LAMBDA s : s.created) /\ Registered(S)
    /\ UNCHANGED <<now, task, evidence, budgets, purged>>

ProviderRows == {s \in Sources : s.kind = "provider_run" /\ row[s].status # "absent"}

(* One source of a batch.  A row of the same run attempt is a replay or a   *)
(* conflict; tombstones count against the quota.                            *)
RegisterProviderSource(s) ==
    /\ s.kind = "provider_run"
    /\ InWindow(s)
    /\ row[s].status = "absent"
    /\ \A o \in ProviderRows : o.run # s.run
    /\ Cardinality(ProviderRows) < MaxSources
    /\ Registered({s})
    /\ UNCHANGED <<now, task, evidence, budgets, purged>>

-----------------------------------------------------------------------------
(* Claims.                                                                  *)

Terminal(r) == [r EXCEPT !.status = "terminal_unavailable", !.at = 0]

(* Faulty variant, for sensitivity checks only: a lapsed lease is not taken *)
(* back.                                                                    *)
DueUnlessLeased ==
    {s \in Sources : row[s].status \in Open \ {"leased"} /\ row[s].at <= now /\ ~Locked(s)}

Due == {s \in Sources : row[s].status \in Open /\ row[s].at <= now /\ ~Locked(s)}

Earlier(s, u) ==
    \/ row[s].at < row[u].at
    \/ row[s].at = row[u].at /\ s.created < u.created
    \/ row[s].at = row[u].at /\ s.created = u.created /\ s.id < u.id

Acquire(s) ==
    IF now + Lease >= Deadline(s) \/ row[s].attempts >= MaxAttempts
    THEN Terminal(row[s])
    ELSE [row[s] EXCEPT !.status = "leased", !.attempts = @ + 1, !.at = now + Lease]

(* claim_next looks at the due rows in order, at most MaxTerminalizations   *)
(* of them, and goes on past a row only when it has terminalised it.        *)
Examined ==
    {s \in Due :
       LET ahead == {u \in Due : Earlier(u, s)}
       IN  /\ Cardinality(ahead) < MaxTerminalizations
           /\ \A u \in ahead : Acquire(u).status = "terminal_unavailable"}

ClaimNext(t) ==
    /\ task[t].pc = "idle"
    /\ Examined # {}
    /\ row' = [s \in Sources |-> IF s \in Examined THEN Acquire(s) ELSE row[s]]
    /\ \E s \in Examined :
         IF row'[s].status = "leased"
         THEN task' = [task EXCEPT ![t] = [pc |-> "claimed", source |-> s,
                                           attempt |-> row'[s].attempts, expires |-> row'[s].at]]
         ELSE (\A u \in Examined : row'[u].status # "leased") /\ UNCHANGED task
    /\ UNCHANGED <<now, evidence, budgets, purged>>

(* The task still holds the claim: nobody has changed the row since, and    *)
(* the lease has not run out.                                               *)
Active(t) ==
    LET r == row[task[t].source]
    IN  /\ r.status = "leased" /\ r.attempts = task[t].attempt /\ r.at = task[t].expires
        /\ now < task[t].expires

RetryDelays(backoff) == (backoff + 1) \div 2 .. backoff

Deferred(r, s, delay) ==
    IF r.attempts >= MaxAttempts \/ now + delay + Lease >= Deadline(s)
    THEN Terminal(r)
    ELSE [r EXCEPT !.status = "deferred", !.at = now + delay,
                   !.backoff = IF 2 * @ < MaxBackoff THEN 2 * @ ELSE MaxBackoff]

(* The provider failed or had no stable evidence.  A lost claim changes     *)
(* nothing, and neither does one whose row has disappeared.                 *)
DeferClaim(t) ==
    /\ task[t].pc = "claimed"
    /\ ~Locked(task[t].source)
    /\ LET s == task[t].source
       IN  IF Active(t)
           THEN \E d \in RetryDelays(row[s].backoff) :
                   row' = [row EXCEPT ![s] = Deferred(@, s, d)]
           ELSE UNCHANGED row
    /\ task' = [task EXCEPT ![t] = Idle]
    /\ UNCHANGED <<now, evidence, budgets, purged>>

(* record_snapshot locks the row and checks the claim, ...                  *)
LockClaim(t) ==
    /\ task[t].pc = "claimed"
    /\ ~Locked(task[t].source)
    /\ task' = [task EXCEPT ![t] = IF Active(t) THEN [@ EXCEPT !.pc = "storing"] ELSE Idle]
    /\ UNCHANGED <<now, row, evidence, budgets, purged>>

(* Another source of the same attempt has the one snapshot it may have. *)
SnapshotTaken(s) == \E o \in snapshots : o # s /\ o.run = s.run /\ o.head = s.head

(* Faulty variant, for sensitivity checks only: a claim lost to the clock   *)
(* leaves the snapshot of its transaction behind.                           *)
RecordSnapshotWithoutRollback(t) ==
    /\ task[t].pc = "storing"
    /\ LET s == task[t].source
       IN  IF SnapshotTaken(s)
           THEN task' = [task EXCEPT ![t].pc = "rejecting"] /\ UNCHANGED <<row, snapshots>>
           ELSE /\ snapshots' = snapshots \cup {s}
                /\ row' = IF Active(t) THEN [row EXCEPT ![s].status = "captured", ![s].at = 0]
                                       ELSE row
                /\ task' = [task EXCEPT ![t] = Idle]
    /\ UNCHANGED <<now, reports, signals, budgets, purged>>

(* ... inserts the snapshot, and releases the claim if its lease still has  *)
(* not run out.  A conflict and a lost claim roll the transaction back.     *)
RecordSnapshot(t) ==
    /\ task[t].pc = "storing"
    /\ LET s == task[t].source
       IN  IF SnapshotTaken(s)
           THEN task' = [task EXCEPT ![t].pc = "rejecting"] /\ UNCHANGED <<row, snapshots>>
           ELSE /\ IF Active(t)
                   THEN /\ snapshots' = snapshots \cup {s}
                        /\ row' = [row EXCEPT ![s].status = "captured", ![s].at = 0]
                   ELSE UNCHANGED <<row, snapshots>>
                /\ task' = [task EXCEPT ![t] = Idle]
    /\ UNCHANGED <<now, reports, signals, budgets, purged>>

(* The conflict ends the claim in a transaction of its own. *)
RejectClaim(t) ==
    /\ task[t].pc = "rejecting"
    /\ ~Locked(task[t].source)
    /\ row' = IF Active(t) THEN [row EXCEPT ![task[t].source] = Terminal(@)] ELSE row
    /\ task' = [task EXCEPT ![t] = Idle]
    /\ UNCHANGED <<now, evidence, budgets, purged>>

(* The process ends or the task is cancelled: its transaction rolls back,   *)
(* its claim stays in the row.                                              *)
Abandon(t) ==
    /\ task[t].pc # "idle"
    /\ task' = [task EXCEPT ![t] = Idle]
    /\ UNCHANGED <<now, row, evidence, budgets, purged>>

-----------------------------------------------------------------------------
(* Measurement reports and the signals of the budget policy.                *)

(* The writer locks the source row, then the budget scope in shared mode,   *)
(* and reads the policy.                                                    *)
BeginReport(r) ==
    LET s == SourceOf[r]
    IN  /\ writing[r] = NoRevision
        /\ row[s].status \notin {"absent", "expired"} /\ now < EvidenceUntil(s)
        /\ ~Locked(s)
        /\ r \notin reports
        /\ Cardinality({q \in reports : SourceOf[q] = s}) < MaxReports
        /\ writing' = [writing EXCEPT ![r] = policy]
        /\ UNCHANGED <<now, row, task, evidence, policy, purged>>

(* Nothing is stored once the retention of the source is over. *)
RecordReport(r) ==
    /\ writing[r] # NoRevision
    /\ IF now < EvidenceUntil(SourceOf[r])
       THEN /\ reports' = reports \cup {r}
            /\ signals' = signals \cup ({<<r, writing[r]>>} \ {<<r, 0>>})
       ELSE UNCHANGED <<reports, signals>>
    /\ writing' = [writing EXCEPT ![r] = NoRevision]
    /\ UNCHANGED <<now, row, task, snapshots, policy, purged>>

AbandonReport(r) ==
    /\ writing[r] # NoRevision
    /\ writing' = [writing EXCEPT ![r] = NoRevision]
    /\ UNCHANGED <<now, row, task, evidence, policy, purged>>

(* Faulty variant, for sensitivity checks only: the budget scope is not     *)
(* locked.                                                                  *)
ConfigurePolicyUnlocked ==
    /\ policy < MaxRevision
    /\ policy' = policy + 1
    /\ UNCHANGED <<now, row, task, evidence, writing, purged>>

(* A command that expects the current revision; others change nothing. *)
ConfigurePolicy ==
    /\ policy < MaxRevision
    /\ \A r \in Reports : writing[r] = NoRevision
    /\ policy' = policy + 1
    /\ UNCHANGED <<now, row, task, evidence, writing, purged>>

-----------------------------------------------------------------------------
(* Retention.                                                               *)

(* A batch with a row whose snapshot does not match its outcome fails. *)
ExpireEvidence ==
    LET candidates == {s \in Sources : /\ row[s].status \in Final
                                       /\ EvidenceUntil(s) <= now /\ ~Locked(s)}
    IN  \E S \in SUBSET candidates \ {{}} :
          /\ Batch(S, candidates, EvidenceUntil)
          /\ \A s \in S : (s \in snapshots) <=> (row[s].status = "captured")
          /\ row' = [s \in Sources |->
                       IF s \in S THEN [row[s] EXCEPT !.status = "expired"] ELSE row[s]]
          /\ snapshots' = snapshots \ S
          /\ reports' = {r \in reports : SourceOf[r] \notin S}
          /\ signals' = {g \in signals : SourceOf[g[1]] \notin S}
          /\ UNCHANGED <<now, task, budgets, purged>>

(* The foreign keys of snapshots and reports restrict the deletion. *)
PurgeTombstones ==
    LET candidates == {s \in Sources : /\ row[s].status = "expired"
                                       /\ TombstoneUntil(s) <= now /\ Deadline(s) <= now
                                       /\ ~Locked(s)}
    IN  \E S \in SUBSET candidates \ {{}} :
          /\ Batch(S, candidates, TombstoneUntil)
          /\ S \cap snapshots = {} /\ \A r \in reports : SourceOf[r] \notin S
          /\ row' = [s \in Sources |-> IF s \in S THEN Absent ELSE row[s]]
          /\ purged' = purged \cup S
          /\ UNCHANGED <<now, task, evidence, budgets>>

-----------------------------------------------------------------------------
Settle(t) == DeferClaim(t) \/ LockClaim(t) \/ RecordSnapshot(t) \/ RejectClaim(t)

Next ==
    \/ Tick
    \/ RegisterEligible \/ \E s \in Sources : RegisterProviderSource(s)
    \/ \E t \in Tasks : ClaimNext(t) \/ Settle(t) \/ Abandon(t)
    \/ \E r \in Reports : BeginReport(r) \/ RecordReport(r) \/ AbandonReport(r)
    \/ ConfigurePolicy
    \/ ExpireEvidence \/ PurgeTombstones

Spec == Init /\ [][Next]_vars

(* The clock runs, the collection goes on (a round claims, and a task that  *)
(* holds a claim comes to an end: provider reads and transactions have      *)
(* timeouts), a report is written or refused, and the retention goes on.    *)
Fairness ==
    /\ WF_vars(Tick)
    /\ WF_vars(\E t \in Tasks : ClaimNext(t) \/ Settle(t))
    /\ WF_vars(\E r \in Reports : RecordReport(r))
    /\ WF_vars(ExpireEvidence \/ PurgeTombstones)

FairSpec == Spec /\ Fairness

-----------------------------------------------------------------------------
(* The evidence of a source follows its row whatever tasks, the clock and   *)
(* retention do: a snapshot is stored exactly while the row is captured,    *)
(* reports and their signals only while the row is there and not expired,   *)
(* and a purged source never has a row again, since the window its          *)
(* registration needs ended long before.                                    *)
EvidenceFollowsRow ==
    /\ \A s \in Sources : s \in snapshots <=> row[s].status = "captured"
    /\ \A r \in reports : row[SourceOf[r]].status \notin {"absent", "expired"}
    /\ \A g \in signals : g[1] \in reports
    /\ \A s \in purged : row[s].status = "absent"

(* A report is stored together with the signal of the policy revision that  *)
(* is current at its commit, and it keeps that signal, whatever revisions   *)
(* follow.                                                                  *)
SignalsMatchPolicy ==
    [][/\ \A r \in reports' \ reports :
             {g \in signals' : g[1] = r} = {<<r, policy'>>} \ {<<r, 0>>}
       /\ \A r \in reports' \cap reports :
             {g \in signals' : g[1] = r} = {g \in signals : g[1] = r}]_vars

(* Nothing is kept for ever: whatever fails, however tasks die, every row   *)
(* is settled, expired and purged in the end, with all of its evidence.     *)
EvidenceDrains ==
    <>[](/\ \A s \in Sources : row[s].status = "absent"
         /\ snapshots = {} /\ reports = {} /\ signals = {})

=============================================================================
