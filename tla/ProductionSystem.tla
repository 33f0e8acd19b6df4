-------------------------- MODULE ProductionSystem -------------------------
(***************************************************************************)
(* Production admission of one repository scope as a whole: operators and  *)
(* configuration changes (ScopeControls), cutovers (ProductionCutover) and *)
(* plan requests (PlanIssuance) over the same tables, with the database    *)
(* clock and what reconciliation rounds do to subjects.                    *)
(***************************************************************************)
EXTENDS ScopeControls, ProductionCutover, PlanIssuance

CONSTANT
    LateClaims   \* bound: the subjects that may be claimed after they have settled

vars == <<clock, lock, scope, retained, controls, forces, epoch, subjects, plans,
          activation, request>>

Init == StoreInit /\ CutoverInit /\ IssuanceInit

AdvanceClock == Tick /\ UNCHANGED <<lock, tables, activation, request>>

----------------------------------------------------------------------------
(* What reconciliation rounds do to a subject row, each in a transaction    *)
(* that takes no scope lock.  Reconciliation has the rounds themselves.     *)

(* Faulty variant, for sensitivity checks only: the drain does not lock the rows it reads. *)
RowNeverLocked(s) == FALSE

(* The drain reads the selected subjects FOR UPDATE: their rows stay locked *)
(* until the activation ends, and it holds the scope lock as long.          *)
RowLocked(s) == subjects[s].origin = "selected" /\ lock \in Operators

MoveSubject(s, from, to) ==
    /\ subjects[s].origin # "none"
    /\ subjects[s].progress \in from
    /\ ~RowLocked(s)
    /\ subjects' = [subjects EXCEPT ![s].progress = to]
    /\ UNCHANGED <<clock, lock, scope, retained, controls, forces, epoch, plans,
                   activation, request>>

(* Faulty variant, for sensitivity checks only: subjects of a revoked generation are skipped. *)
SettleUnrevokedSubject(s) ==
    /\ subjects[s].generation > scope.revoked
    /\ MoveSubject(s, {"pending", "reopened"}, "settled")

(* record_result: the terminal result and the release of the lease commit   *)
(* together.                                                                *)
SettleSubject(s) == MoveSubject(s, {"pending", "reopened"}, "settled")

(* A claim whose scan saw the subject before its result (Reconciliation     *)
(* shows how) sets the lease columns of a settled row.                      *)
ReclaimSettled(s) ==
    /\ s \in LateClaims
    /\ MoveSubject(s, {"settled"}, "reclaimed")

(* The round of such a claim defers, which clears the lease.  Recording its *)
(* result finds the one that is there and leaves the columns set.           *)
DeferReclaimed(s) == MoveSubject(s, {"reclaimed"}, "settled")

(* The round appends an observation: the new revision has no result.        *)
ReopenReclaimed(s) == MoveSubject(s, {"reclaimed"}, "reopened")

RoundsNext ==
    \E s \in Subjects :
        \/ SettleSubject(s)
        \/ ReclaimSettled(s)
        \/ DeferReclaimed(s)
        \/ ReopenReclaimed(s)

----------------------------------------------------------------------------
Next ==
    \/ AdvanceClock
    \/ ControlsNext /\ UNCHANGED <<activation, request>>
    \/ CutoverNext /\ UNCHANGED request
    \/ IssuanceNext /\ UNCHANGED activation
    \/ RoundsNext

Spec == Init /\ [][Next]_vars

(* The clock advances, and a subject without a result at its revision gets  *)
(* one: Reconciliation shows it from the attempt bound and the deadline.    *)
(* Nothing is assumed of a settled subject that was claimed again.          *)
Fairness ==
    /\ WF_vars(AdvanceClock)
    /\ \A s \in Subjects : WF_vars(SettleSubject(s))

FairSpec == Spec /\ Fairness

----------------------------------------------------------------------------
(* Every table row, activation and request has its declared shape. *)
TypeOK ==
    /\ StoreTypeOK
    /\ activation \in [Operators -> Activations]
    /\ request \in [Requests -> RequestStates]

(* Generation isolation: a selected plan that has not expired belongs to    *)
(* the generation in the scope row.  _activate installs a successor only    *)
(* after production_local_drain_complete, and save validates and inserts    *)
(* under one hold of the scope lock.                                        *)
LivePlansAreCurrent ==
    \A p \in LivePlans(clock) : GenerationOf[p.authority] = scope.generation

(* When _activate commits the next generation, every selected subject has   *)
(* its terminal result at its current revision and no lease column set: the *)
(* rows the drain read cannot be claimed between its answer and the commit. *)
(* Nor is a subject of a superseded generation ever without a result: none  *)
(* is registered late, and a late claim reopens only one that had settled.  *)
SupersededSubjectsSettled ==
    [][/\ scope'.generation # scope.generation => UnsettledSubjects = {}
       /\ \A s \in PendingSubjects' : subjects'[s].generation = scope'.generation]_vars

(* While a cutover holds its latch, the latest omission control is the very *)
(* disable the latch names: _transition_is_admitted lets no operator enable *)
(* omission, whatever races with begin and activate.                        *)
LatchKeepsOmissionDisabled ==
    scope.latch # NoLatch => OmissionDisabled /\ Len(controls) = scope.latch

(* The stored scope row always passes ProductionScopeState.__post_init__,   *)
(* so no committed transition makes the row unreadable, and a staged        *)
(* authority is always the successor of the current generation.             *)
ScopeRowReadable ==
    /\ WellFormedScope(scope)
    /\ scope.staged # None => GenerationOf[scope.staged] = scope.generation + 1

(* One run attempt holds at most one selected plan, whatever retries,       *)
(* cutovers and concurrent requests: registration binds the subject to one  *)
(* authority and one verified plan for good.                                *)
OneSelectedPlanPerSubject ==
    \A p, q \in plans : p.subject = q.subject => p = q

(* A stored selected plan is covered by the reconciliation subject its      *)
(* request registered, under the same authority and verified plan, and      *)
(* never outlives its receipt.                                              *)
PlansAreRegistered ==
    \A p \in plans :
        /\ SelectedUnder(subjects[p.subject], p.authority)
        /\ subjects[p.subject].plan = p.plan
        /\ p.expires <= NotAfterOf[p.authority]

(* A selected plan becomes visible only while everything its guard checked  *)
(* still holds at the commit: the authority serves, its epoch is active, no *)
(* override forces Full CI.  The checks are made at ValidateSave; the scope *)
(* lock has to keep them true until CommitSave.  However long before it was *)
(* signed, the plan ends within one lifetime (and the clock difference) of  *)
(* the commit: a disable committed later is not outlived by more than that. *)
PlanCommitsAuthorised ==
    [][\A p \in plans' \ plans :
          /\ scope.active = p.authority
          /\ scope.latch = NoLatch
          /\ scope.revoked < scope.generation
          /\ PolicyCurrent(EpochOf[p.authority])
          /\ ~ForcesFullCi(p.subject, clock)
          /\ clock < p.expires
          /\ p.expires <= clock + Skew + PlanTtl]_vars

(* A revoked generation never serves again: revocation only moves forward,  *)
(* and a plan or selected subject of a revoked generation is never added.   *)
RevocationIsFinal ==
    [][/\ scope'.revoked >= scope.revoked
       /\ \A p \in plans' \ plans : GenerationOf[p.authority] > scope.revoked
       /\ \A s \in Subjects :
             subjects'[s].origin = "selected" /\ subjects[s].origin # "selected"
                => subjects'[s].generation > scope.revoked]_vars

(* A begun cutover drains: once the latch is set, the local drain that      *)
(* activation requires is eventually complete (or the cutover is over).     *)
(* One thing alone can hold it up for ever: a settled subject that was      *)
(* claimed again and keeps its lease columns.                               *)
DrainCompletes ==
    scope.latch # NoLatch ~>
        \/ LocalDrainComplete(clock)
        \/ scope.latch = NoLatch
        \/ \E s \in UnsettledSubjects : subjects[s].progress = "reclaimed"

----------------------------------------------------------------------------
(* The system implements the handover: its executions are live plans and    *)
(* selected subjects that have no result yet.  An observation that reopens  *)
(* a subject is more evidence about an execution that has ended.            *)
Handover == INSTANCE GenerationHandover WITH
    Executions <- {"plan", "subject"} \X Subjects,
    generation <- scope.generation,
    serving    <- scope.latch = NoLatch /\ scope.revoked < scope.generation,
    open       <- {<<"plan", p.subject>> : p \in LivePlans(clock)}
                     \cup {<<"subject", s>> : s \in PendingSubjects}

(* Cutovers, requests, overrides, the clock and the rounds together behave  *)
(* as GenerationHandover promises.                                          *)
ImplementsHandover == Handover!Spec

============================================================================
