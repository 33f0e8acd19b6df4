-------------------------- MODULE ProductionStore --------------------------
(***************************************************************************)
(* The tables of one repository scope that production admission shares,    *)
(* and the predicates its transactions evaluate over them: the scope state *)
(* (production_scope_states), retained authorities, omission controls and  *)
(* force-FullCI overrides (operator_overrides), the active configuration   *)
(* epoch, reconciliation subjects and issued selected plans.               *)
(*                                                                         *)
(* A transaction that writes any of them first takes the repository scope  *)
(* lock, a PostgreSQL advisory lock that is held until commit or rollback. *)
(* `clock' is the database clock; a process clock differs from it by at    *)
(* most Skew.                                                              *)
(***************************************************************************)
EXTENDS Integers, Sequences, FiniteSets

CONSTANTS
    Authorities,      \* signed production admission receipts for this scope
    Epochs,           \* registered configuration epoch drafts
    Candidates,       \* verified plans the planner may build for one run attempt
    Subjects,         \* reconciliation subjects: one workflow run attempt each
    Requests,         \* concurrent plan requests
    Operators,        \* concurrent cutover activations
    None,             \* an absent value
    GenerationOf,     \* generation named by each receipt's scope grant
    EpochOf,          \* configuration epoch named by each receipt's scope grant
    NotAfterOf,       \* expiry of each receipt
    EvidenceWindow,   \* CURRENT_PRODUCTION_OBSERVATION_SECONDS
    Skew,             \* largest difference of a process clock and the database clock
    MaxBundles,       \* MAX_RETAINED_PRODUCTION_BUNDLES
    MaxTime           \* bound: the clock stops here

ASSUME StoreAssumption ==
    /\ None \notin Authorities \cup Epochs \cup Candidates \cup Requests \cup Operators
    /\ Requests \cap Operators = {}
    /\ GenerationOf \in [Authorities -> Nat \ {0}]
    /\ EpochOf \in [Authorities -> Epochs]
    /\ NotAfterOf \in [Authorities -> Nat]
    /\ EvidenceWindow \in Nat \ {0}
    /\ Skew \in Nat
    /\ MaxBundles \in Nat
    /\ MaxTime \in Nat
    /\ IsFiniteSet(Authorities)

VARIABLES
    clock,      \* the database clock
    lock,       \* owner of the repository scope lock, None when free
    scope,      \* the production_scope_states row
    retained,   \* authorities whose evidence and registration are retained
    controls,   \* disable/enable omission overrides, in audit-sequence order
    forces,     \* force_full_ci overrides
    epoch,      \* the active configuration epoch pointer
    subjects,   \* reconciliation_subjects with their current result
    plans       \* issued_plan_envelopes that name a production authority

LowerOf(x, y) == IF x <= y THEN x ELSE y

tables == <<scope, retained, controls, forces, epoch, subjects, plans>>

----------------------------------------------------------------------------
(* production_scope_states *)

NoLatch == 0

(* No row yet: commands name it with expected revision 0. *)
NoScope ==
    [revision |-> 0, generation |-> 0, revoked |-> 0, active |-> None,
     staged |-> None, latch |-> NoLatch, latchAt |-> 0]

ScopeStates ==
    [revision : Nat, generation : Nat, revoked : Nat,
     active : Authorities \cup {None}, staged : Authorities \cup {None},
     latch : Nat, latchAt : Nat]

(* The checks of ProductionScopeState.__post_init__ that relate the columns *)
(* of a stored row; a latch time is absent (0) without a latch.             *)
WellFormedScope(s) ==
    /\ s = NoScope \/ s.revision >= 1
    /\ s.revoked <= s.generation
    /\ (s.generation = 0) = (s.active = None)
    /\ s.latch = NoLatch => s.latchAt = 0
    /\ s.latch # NoLatch => s.revoked = s.generation

(* 0 <= now - startedAt < CURRENT_PRODUCTION_OBSERVATION_SECONDS *)
EvidenceCurrent(startedAt, now) ==
    startedAt <= now /\ now < startedAt + EvidenceWindow

(* The row admits evidence observed for authority a at a scope revision. *)
AdmitsCurrent(s, a, revision, startedAt, now) ==
    /\ s.generation > s.revoked
    /\ s.latch = NoLatch
    /\ s.active = a
    /\ s.revision = revision
    /\ s.generation = GenerationOf[a]
    /\ EvidenceCurrent(startedAt, now)

----------------------------------------------------------------------------
(* operator_overrides: the override id of a control is its position. *)

Controls == [kind : {"disable_omission", "enable_omission"}, target : Nat, at : Nat]

Forces == [subject : Subjects, at : Nat, expires : Nat]

Disable(at) == [kind |-> "disable_omission", target |-> 0, at |-> at]

Enable(target, at) == [kind |-> "enable_omission", target |-> target, at |-> at]

LatestControl == controls[Len(controls)]

OmissionDisabled ==
    Len(controls) > 0 /\ LatestControl.kind = "disable_omission"

(* A control stamped in the future leaves the lookup unavailable. *)
ControlUnavailable(now) ==
    Len(controls) > 0 /\ LatestControl.at > now

(* force_full_ci of the resolution: a force for the subject that has not    *)
(* expired (one stamped in the future is unavailable), a disable, or an     *)
(* unavailable lookup.                                                      *)
ForcesFullCi(subject, now) ==
    \/ \E f \in forces : f.subject = subject /\ f.expires > now
    \/ OmissionDisabled
    \/ ControlUnavailable(now)

(* Faulty variant, for sensitivity checks only: an enable does not look at the latch. *)
TransitionAdmittedDespiteLatch(c, latch) ==
    /\ Len(controls) > 0 => LatestControl.at <= c.at
    /\ IF c.kind = "disable_omission"
       THEN ~OmissionDisabled
       ELSE OmissionDisabled /\ c.target = Len(controls)

(* Whether a control may follow the latest one; latch is the latch column   *)
(* as the transaction sees it.                                              *)
TransitionAdmitted(c, latch) ==
    /\ Len(controls) > 0 => LatestControl.at <= c.at
    /\ IF c.kind = "disable_omission"
       THEN ~OmissionDisabled
       ELSE latch = NoLatch /\ OmissionDisabled /\ c.target = Len(controls)

----------------------------------------------------------------------------
(* reconciliation_subjects and issued_plan_envelopes *)

(* What the subject's results and lease columns say:                        *)
(*   pending    no result is retained at any revision                       *)
(*   settled    a result at the current revision, the lease columns null    *)
(*   reclaimed  a result at the current revision, and lease columns set by  *)
(*              a claim that came too late to see it                        *)
(*   reopened   results of earlier revisions only                           *)
(* The lease columns of a pending or reopened subject tell nothing more.    *)
Progress == {"pending", "settled", "reclaimed", "reopened"}

Unregistered ==
    [origin |-> "none", authority |-> None, generation |-> 0, plan |-> None,
     progress |-> "pending"]

SubjectRows ==
    [origin : {"none", "full_ci", "selected"}, authority : Authorities \cup {None},
     generation : Nat, plan : Candidates \cup {None}, progress : Progress]

FullCiRow(plan) == [Unregistered EXCEPT !.origin = "full_ci", !.plan = plan]

SelectedRow(a, plan) ==
    [origin |-> "selected", authority |-> a, generation |-> GenerationOf[a],
     plan |-> plan, progress |-> "pending"]

(* The row's origin columns are those of a selected registration under a. *)
SelectedUnder(row, a) ==
    /\ row.origin = "selected"
    /\ row.authority = a
    /\ row.generation = GenerationOf[a]

Plans == [subject : Subjects, authority : Authorities, plan : Candidates, expires : Nat]

LivePlans(now) == {p \in plans : p.expires > now}

(* The selected subjects the drain refuses: no result at the current        *)
(* revision, or a lease column set.                                         *)
UnsettledSubjects ==
    {s \in Subjects : subjects[s].origin = "selected" /\ subjects[s].progress # "settled"}

PendingSubjects ==
    {s \in Subjects : subjects[s].origin = "selected" /\ subjects[s].progress = "pending"}

(* Faulty variant, for sensitivity checks only: live plans do not hold up the drain. *)
DrainIgnoringPlans(now) == UnsettledSubjects = {}

(* production_local_drain_complete *)
LocalDrainComplete(now) == LivePlans(now) = {} /\ UnsettledSubjects = {}

PolicyCurrent(e) == epoch.revision > 0 /\ epoch.id = e

----------------------------------------------------------------------------
(* production_guard_rejection returns no rejection. *)
GuardAdmits(subject, e, a, revision, startedAt, now) ==
    /\ now < NotAfterOf[a]
    /\ AdmitsCurrent(scope, a, revision, startedAt, now)
    /\ a \in retained /\ EpochOf[a] = e
    /\ PolicyCurrent(e)
    /\ ~ForcesFullCi(subject, now)

(* A process clock reading while the database clock reads `clock' ... *)
ProcessTimes == {t \in 0 .. MaxTime + Skew : clock - Skew <= t /\ t <= clock + Skew}

(* ... and one taken any time before. *)
EarlierTimes == 0 .. clock + Skew

StoreTypeOK ==
    /\ clock \in 0 .. MaxTime
    /\ lock \in Requests \cup Operators \cup {None}
    /\ scope \in ScopeStates
    /\ retained \subseteq Authorities
    /\ controls \in Seq(Controls)
    /\ forces \subseteq Forces
    /\ epoch \in [revision : Nat, id : Epochs \cup {None}]
    /\ subjects \in [Subjects -> SubjectRows]
    /\ plans \subseteq Plans

StoreInit ==
    /\ clock = 0
    /\ lock = None
    /\ scope = NoScope
    /\ retained = {}
    /\ controls = << >>
    /\ forces = {}
    /\ epoch = [revision |-> 0, id |-> None]
    /\ subjects = [s \in Subjects |-> Unregistered]
    /\ plans = {}

Tick ==
    /\ clock < MaxTime
    /\ clock' = clock + 1

============================================================================
