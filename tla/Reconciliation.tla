--------------------------- MODULE Reconciliation --------------------------
(***************************************************************************)
(* Convergence of reconciliation subjects.  Replicas run rounds that claim *)
(* a due subject under a lease, poll the provider outside any transaction, *)
(* append what they observed and record a terminal result or defer.        *)
(*                                                                         *)
(* Each store call is one transaction on the subject row.  Two of them     *)
(* take two steps here: the claim statement first reads a snapshot and     *)
(* then locks a row (ScanDue, ClaimLocked), and the terminal result holds  *)
(* the row lock from its checks until its commit (LockResult,              *)
(* CommitResult), since audit and shadow evidence are written between.     *)
(* The revision of a row is the number of observations retained for it.    *)
(***************************************************************************)
EXTENDS SignalVerdict

CONSTANTS
    Subjects,         \* registered run attempts
    Workers,          \* replicas, one round each
    None,             \* an absent value
    Deadline,         \* deadline_seconds of the convergence policy
    Lease,            \* lease_seconds
    InitialBackoff,   \* initial_backoff_seconds
    MaxBackoff,       \* max_backoff_seconds
    MaxAttempts,      \* max_attempts
    Skew,             \* largest difference of a process clock and the database clock
    MaxTime,          \* bound: the clock stops here
    LastCreation      \* bound: subjects are created no later

(* ReconciliationConvergencePolicy.__post_init__, and a bound on time that  *)
(* leaves room for a lease taken at the deadline to expire.                 *)
ASSUME ConvergenceAssumption ==
    /\ None \notin Workers \cup {"timed_out", "exhausted"}
    /\ IsFiniteSet(Expected)
    /\ {Deadline, Lease, InitialBackoff, MaxBackoff, MaxAttempts} \subseteq Nat \ {0}
    /\ InitialBackoff <= MaxBackoff /\ MaxBackoff <= Deadline /\ Lease <= Deadline
    /\ {Skew, MaxTime, LastCreation} \subseteq Nat

VARIABLES
    clock,    \* the database clock
    row,      \* reconciliation_subjects with observations and results
    locked,   \* the worker that holds each row's lock, None when free
    worker    \* the round of each worker

vars == <<clock, row, locked, worker>>

LowerOf(x, y) == IF x <= y THEN x ELSE y

ProcessTimes == {t \in 0 .. MaxTime + Skew : clock - Skew <= t /\ t <= clock + Skew}

----------------------------------------------------------------------------
(* Rows *)

NoLease == [holder |-> None, at |-> 0, expires |-> 0]

Leases == [holder : Workers \cup {None}, at : Nat, expires : Nat]

Verdicts == {"success", "failure", "conflict", "ambiguous", "timed_out", "exhausted"}

Results == [revision : Nat, verdict : Verdicts]

NoRow ==
    [registered |-> FALSE, created |-> 0, nextAt |-> 0, attempts |-> 0,
     backoff |-> InitialBackoff, generation |-> 0, lease |-> NoLease,
     observed |-> {}, results |-> {}]

Rows ==
    [registered : BOOLEAN, created : Nat, nextAt : Nat, attempts : 0 .. MaxAttempts,
     backoff : 1 .. MaxBackoff, generation : Nat, lease : Leases,
     observed : SUBSET Observations, results : SUBSET Results]

(* initial_convergence_state, stamped by the registering process. *)
InitialRow(now) == [NoRow EXCEPT !.registered = TRUE, !.created = now, !.nextAt = now]

DeadlineAt(r) == r.created + Deadline

Revision(r) == Cardinality(r.observed)

ResultAt(r, revision) == {x \in r.results : x.revision = revision}

Resolved(r) == ResultAt(r, Revision(r)) # {}

----------------------------------------------------------------------------
(* Rounds *)

NoClaim ==
    [subject |-> None, generation |-> 0, at |-> 0, attempts |-> 0, deadline |-> 0,
     terminal |-> None, revision |-> 0]

Idle ==
    [pc |-> "idle", seen |-> {}, seenAt |-> 0, claim |-> NoClaim, toAppend |-> {},
     snapshot |-> {}, result |-> None]

EndRound(w) == worker' = [worker EXCEPT ![w] = Idle]

(* reconciliation_claim_is_active *)
ActiveClaim(w, now) ==
    LET claim == worker[w].claim
        r == row[claim.subject]
    IN  /\ r.generation = claim.generation
        /\ r.lease.holder = w
        /\ r.lease.at = claim.at
        /\ claim.at <= now
        /\ now < r.lease.expires

----------------------------------------------------------------------------
Tick ==
    /\ clock < MaxTime
    /\ clock' = clock + 1
    /\ UNCHANGED <<row, locked, worker>>

(* register_subject of a new subject; a duplicate changes nothing. *)
Register(s) ==
    /\ ~row[s].registered
    /\ \E now \in ProcessTimes :
          now <= LastCreation /\ row' = [row EXCEPT ![s] = InitialRow(now)]
    /\ UNCHANGED <<clock, locked, worker>>

----------------------------------------------------------------------------
(* Faulty variant, for sensitivity checks only: an exhausted subject is not claimed again. *)
DueWithAttemptsLeft(r, now) ==
    /\ r.registered
    /\ r.nextAt <= now
    /\ r.lease.holder = None \/ r.lease.expires <= now
    /\ r.attempts < MaxAttempts

(* The claim.  The row's own part of the statement's condition ... *)
Due(r, now) ==
    /\ r.registered
    /\ r.nextAt <= now
    /\ r.lease.holder = None \/ r.lease.expires <= now

(* ... and the scan, whose anti-join with the results is read from the      *)
(* statement's snapshot.                                                    *)
ScanDue(w) ==
    LET due == {s \in Subjects : Due(row[s], clock) /\ ~Resolved(row[s])}
    IN  /\ worker[w].pc = "idle"
        /\ due # {}
        /\ worker' = [worker EXCEPT ![w] =
              [Idle EXCEPT !.pc = "scanned", !.seenAt = clock,
                           !.seen = {[subject |-> s, nextAt |-> row[s].nextAt] : s \in due}]]
        /\ UNCHANGED <<clock, row, locked>>

(* A scanned row is skipped when it is locked, or when the newest version   *)
(* of the row itself no longer satisfies the condition.                     *)
Lockable(c, seenAt) == locked[c.subject] = None /\ Due(row[c.subject], seenAt)

(* acquire_reconciliation_claim *)
TerminalReason(r, now) ==
    IF now >= DeadlineAt(r) THEN "timed_out"
    ELSE IF r.attempts >= MaxAttempts THEN "exhausted"
    ELSE None

Acquired(r, w, now) ==
    [r EXCEPT !.attempts = IF TerminalReason(r, now) = None THEN @ + 1 ELSE @,
              !.generation = @ + 1,
              !.lease = [holder |-> w, at |-> now, expires |-> now + Lease]]

ClaimOn(s, r, reason) ==
    [subject |-> s, generation |-> r.generation, at |-> r.lease.at, attempts |-> r.attempts,
     deadline |-> DeadlineAt(r), terminal |-> reason, revision |-> Revision(r)]

(* The first scanned row in due order that can be locked; then the lease    *)
(* and generation are written and committed.                                *)
ClaimLocked(w) ==
    LET me == worker[w]
        lockable == {c \in me.seen : Lockable(c, me.seenAt)}
    IN  /\ me.pc = "scanned"
        /\ IF lockable = {}
           THEN EndRound(w) /\ UNCHANGED row
           ELSE \E c \in lockable :
                  LET r == row[c.subject]
                      acquired == Acquired(r, w, clock)
                  IN  /\ \A d \in lockable : c.nextAt <= d.nextAt
                      /\ row' = [row EXCEPT ![c.subject] = acquired]
                      /\ worker' = [worker EXCEPT ![w] =
                            [Idle EXCEPT !.pc = "claimed",
                                         !.claim = ClaimOn(c.subject, acquired,
                                                           TerminalReason(r, clock))]]
        /\ UNCHANGED <<clock, locked>>

----------------------------------------------------------------------------
(* ReconciliationRoundService._reconcile.  A terminal result is recorded at *)
(* a revision the round has read.                                           *)
GoRecord(w, revision, verdict) ==
    worker' = [worker EXCEPT ![w] =
        [@ EXCEPT !.pc = "record", !.toAppend = {}, !.snapshot = {},
                  !.result = [revision |-> revision, verdict |-> verdict]]]

GoDefer(w) ==
    worker' = [worker EXCEPT ![w] = [@ EXCEPT !.pc = "defer", !.toAppend = {}, !.snapshot = {}]]

(* A claim past its bounds is not polled. *)
FailTerminalClaim(w) ==
    LET claim == worker[w].claim
    IN  /\ worker[w].pc = "claimed"
        /\ claim.terminal # None
        /\ GoRecord(w, claim.revision, claim.terminal)
        /\ UNCHANGED <<clock, row, locked>>

(* The poll timed out or the provider is unavailable: _defer_or_fail. *)
PollUnavailable(w) ==
    LET claim == worker[w].claim
    IN  /\ worker[w].pc = "claimed"
        /\ claim.terminal = None
        /\ \E now \in ProcessTimes :
              IF now >= claim.deadline THEN GoRecord(w, claim.revision, "timed_out")
              ELSE IF claim.attempts >= MaxAttempts THEN GoRecord(w, claim.revision, "exhausted")
              ELSE GoDefer(w)
        /\ UNCHANGED <<clock, row, locked>>

(* Two jobs of one name in one provider view. *)
PollAmbiguous(w) ==
    LET claim == worker[w].claim
    IN  /\ worker[w].pc = "claimed"
        /\ claim.terminal = None
        /\ \E now \in ProcessTimes :
              GoRecord(w, claim.revision,
                       IF now >= claim.deadline THEN "timed_out" ELSE "ambiguous")
        /\ UNCHANGED <<clock, row, locked>>

(* A complete provider view has at most one job per expected signal. *)
ProviderViews ==
    {O \in SUBSET {o \in Observations : o.signal \in Expected} :
        \A o, q \in O : o.signal = q.signal => o = q}

PollObserves(w) ==
    /\ worker[w].pc = "claimed"
    /\ worker[w].claim.terminal = None
    /\ \E view \in ProviderViews :
          worker' = [worker EXCEPT ![w] = [@ EXCEPT !.pc = "load", !.toAppend = view]]
    /\ UNCHANGED <<clock, row, locked>>

(* load_snapshot *)
LoadSnapshot(w) ==
    LET s == worker[w].claim.subject
    IN  /\ worker[w].pc = "load"
        /\ locked[s] = None
        /\ IF ActiveClaim(w, clock)
           THEN worker' = [worker EXCEPT ![w] =
                              [@ EXCEPT !.pc = "append", !.snapshot = row[s].observed]]
           ELSE EndRound(w)
        /\ UNCHANGED <<clock, row, locked>>

(* Faulty variant, for sensitivity checks only: the revision alone admits a new observation. *)
AppendObservationUnclaimed(w, o) ==
    LET me == worker[w]
        s == me.claim.subject
        r == row[s]
        next == [me EXCEPT !.toAppend = @ \ {o}, !.snapshot = r.observed \cup {o}]
    IN  /\ me.pc = "append"
        /\ o \in me.toAppend
        /\ locked[s] = None
        /\ IF o \in r.observed \/ Cardinality(me.snapshot) = Revision(r)
           THEN /\ row' = [row EXCEPT ![s].observed = @ \cup {o}]
                /\ worker' = [worker EXCEPT ![w] = next]
           ELSE EndRound(w) /\ UNCHANGED row
        /\ UNCHANGED <<clock, locked>>

(* append_observation: a retained observation is a duplicate whoever asks;  *)
(* a new one needs the exact revision and an active claim.                  *)
AppendObservation(w, o) ==
    LET me == worker[w]
        s == me.claim.subject
        r == row[s]
    IN  /\ me.pc = "append"
        /\ o \in me.toAppend
        /\ locked[s] = None
        /\ IF o \in r.observed
           THEN /\ worker' = [worker EXCEPT ![w] = [@ EXCEPT !.toAppend = me.toAppend \ {o},
                                                           !.snapshot = r.observed]]
                /\ UNCHANGED row
           ELSE IF Cardinality(me.snapshot) = Revision(r) /\ ActiveClaim(w, clock)
           THEN /\ row' = [row EXCEPT ![s].observed = @ \cup {o}]
                /\ worker' = [worker EXCEPT ![w] = [@ EXCEPT !.toAppend = me.toAppend \ {o},
                                                           !.snapshot = r.observed \cup {o}]]
           ELSE EndRound(w) /\ UNCHANGED row
        /\ UNCHANGED <<clock, locked>>

(* Faulty variant, for sensitivity checks only: the last attempt is deferred like any other. *)
ConcludeIgnoringAttempts(w) ==
    LET me == worker[w]
        verdict == Verdict(me.snapshot)
    IN  /\ me.pc = "append"
        /\ me.toAppend = {}
        /\ \E now \in ProcessTimes :
              IF now >= me.claim.deadline THEN GoRecord(w, Cardinality(me.snapshot), "timed_out")
              ELSE IF verdict # "pending" THEN GoRecord(w, Cardinality(me.snapshot), verdict)
              ELSE GoDefer(w)
        /\ UNCHANGED <<clock, row, locked>>

(* Classify the snapshot; the deadline dominates, then the attempt bound.   *)
Conclude(w) ==
    LET me == worker[w]
        verdict == Verdict(me.snapshot)
    IN  /\ me.pc = "append"
        /\ me.toAppend = {}
        /\ \E now \in ProcessTimes :
              IF now >= me.claim.deadline THEN GoRecord(w, Cardinality(me.snapshot), "timed_out")
              ELSE IF verdict # "pending" THEN GoRecord(w, Cardinality(me.snapshot), verdict)
              ELSE IF me.claim.attempts >= MaxAttempts
              THEN GoRecord(w, Cardinality(me.snapshot), "exhausted")
              ELSE GoDefer(w)
        /\ UNCHANGED <<clock, row, locked>>

----------------------------------------------------------------------------
Deferred(r, now, delay) ==
    [r EXCEPT !.nextAt = LowerOf(DeadlineAt(r), now + delay),
              !.backoff = LowerOf(2 * @, MaxBackoff), !.lease = NoLease]

(* _subject_stable_retry_delay: equal jitter, an unknown hash of subject    *)
(* and attempt.                                                             *)
RetryDelays(backoff) == ((backoff + 1) \div 2) .. backoff

(* defer_claim.  At the deadline the round must record instead; deferring   *)
(* the last attempt raises.                                                 *)
Defer(w) ==
    LET s == worker[w].claim.subject
        r == row[s]
    IN  /\ worker[w].pc = "defer"
        /\ locked[s] = None
        /\ IF ActiveClaim(w, clock) /\ clock >= DeadlineAt(r)
           THEN GoRecord(w, Revision(r), "timed_out") /\ UNCHANGED row
           ELSE IF ActiveClaim(w, clock) /\ r.attempts < MaxAttempts
           THEN /\ \E delay \in RetryDelays(r.backoff) :
                      row' = [row EXCEPT ![s] = Deferred(r, clock, delay)]
                /\ EndRound(w)
           ELSE EndRound(w) /\ UNCHANGED row
        /\ UNCHANGED <<clock, locked>>

(* record_result up to its update: an existing result at the revision is a  *)
(* duplicate or a conflict, another revision conflicts, a lost claim ends   *)
(* the round; none of them writes.                                          *)
LockResult(w) ==
    LET me == worker[w]
        s == me.claim.subject
        r == row[s]
    IN  /\ me.pc = "record"
        /\ locked[s] = None
        /\ IF /\ ResultAt(r, me.result.revision) = {}
              /\ me.result.revision = Revision(r)
              /\ ActiveClaim(w, clock)
           THEN /\ locked' = [locked EXCEPT ![s] = w]
                /\ worker' = [worker EXCEPT ![w].pc = "recording"]
           ELSE EndRound(w) /\ UNCHANGED locked
        /\ UNCHANGED <<clock, row>>

(* Result, lease release, audit and shadow evidence commit together. *)
CommitResult(w) ==
    LET me == worker[w]
        s == me.claim.subject
    IN  /\ me.pc = "recording"
        /\ row' = [row EXCEPT ![s].lease = NoLease, ![s].results = @ \cup {me.result}]
        /\ locked' = [locked EXCEPT ![s] = None]
        /\ EndRound(w)
        /\ UNCHANGED clock

(* The process stops, the round is cancelled or a statement fails: the open *)
(* transaction rolls back and the lease stays.  Bounded so that the lease   *)
(* can still expire.                                                        *)
Crash(w) ==
    /\ worker[w].pc # "idle"
    /\ clock + Lease <= MaxTime
    /\ locked' = [s \in Subjects |-> IF locked[s] = w THEN None ELSE locked[s]]
    /\ EndRound(w)
    /\ UNCHANGED <<clock, row>>

Init ==
    /\ clock = 0
    /\ row = [s \in Subjects |-> NoRow]
    /\ locked = [s \in Subjects |-> None]
    /\ worker = [w \in Workers |-> Idle]

Round(w) ==
    \/ ScanDue(w)
    \/ ClaimLocked(w)
    \/ FailTerminalClaim(w)
    \/ PollUnavailable(w)
    \/ PollAmbiguous(w)
    \/ PollObserves(w)
    \/ LoadSnapshot(w)
    \/ \E o \in Observations : AppendObservation(w, o)
    \/ Conclude(w)
    \/ Defer(w)
    \/ LockResult(w)
    \/ CommitResult(w)

Next ==
    \/ Tick
    \/ \E s \in Subjects : Register(s)
    \/ \E w \in Workers : Round(w) \/ Crash(w)

Spec == Init /\ [][Next]_vars

(* The clock advances; a replica runs rounds periodically and every store   *)
(* call and poll of a round returns (the poll has a timeout).               *)
FairSpec == Spec /\ WF_vars(Tick) /\ \A w \in Workers : WF_vars(Round(w))

----------------------------------------------------------------------------
(* A stored row always passes ReconciliationConvergenceState.__post_init__  *)
(* when it is read back, whatever the clocks of the registering and the     *)
(* claiming processes: a row that did not would fail every later claim.     *)
(* Nor does defer_reconciliation_claim raise: a round that defers with its  *)
(* claim active has attempts left, since the round recorded exhaustion or   *)
(* the claim was terminal.                                                  *)
RowsReadable ==
    /\ \A s \in Subjects :
          LET r == row[s]
          IN  /\ r \in Rows
              /\ r.registered =>
                 /\ r.created <= r.nextAt /\ r.nextAt <= DeadlineAt(r)
                 /\ r.attempts <= r.generation
                 /\ r.lease # NoLease => r.created <= r.lease.at /\ r.lease.at < r.lease.expires
    /\ \A w \in Workers :
          worker[w].pc = "defer" /\ ActiveClaim(w, clock)
             => row[worker[w].claim.subject].attempts < MaxAttempts

(* A retained success is one the retained observations witness: the verdict *)
(* of the round's snapshot cannot be recorded over other evidence.          *)
SuccessIsWitnessed ==
    \A s \in Subjects :
        \A x \in ResultAt(row[s], Revision(row[s])) :
            x.verdict = "success" => Witnessed(row[s].observed)

(* Stale owners are fenced: evidence, schedule and results of a subject     *)
(* change only by the round that made the latest claim, until the next one. *)
StaleOwnersFenced ==
    [][\A s \in Subjects :
          LET r == row[s]
              q == row'[s]
          IN  (q.observed # r.observed \/ q.results # r.results \/ q.nextAt # r.nextAt)
                 /\ r.registered
              => \E w \in Workers :
                    /\ worker[w].claim.subject = s
                    /\ worker[w].claim.generation = r.generation
                    /\ r.lease.holder = w
                    /\ worker'[w] # worker[w]]_vars

(* Every registered subject gets a terminal result at its current revision, *)
(* whatever crashes and lost leases, within its attempts and deadline.      *)
EverySubjectSettles ==
    \A s \in Subjects : row[s].registered ~> Resolved(row[s])

(* Only an unresolved subject is claimed. *)
ClaimsAreUnresolved ==
    [][\A s \in Subjects :
          row'[s].generation # row[s].generation => ~Resolved(row[s])]_vars

============================================================================
