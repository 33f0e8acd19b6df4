---------------------------- MODULE PlanIssuance ---------------------------
(***************************************************************************)
(* A dynamic-plan request, from the override lookup to the durable signed  *)
(* plan.  DynamicPlanService.request_dynamic_plan reads the override state *)
(* and the active epoch in transactions of their own, prepares production  *)
(* authority against providers outside any transaction, registers the      *)
(* reconciliation subject in one locked transaction, signs, and saves the  *)
(* plan in another.  Whatever fails on the way, the request ends with a    *)
(* Full CI plan, which no table of this model records.                     *)
(*                                                                         *)
(* Each locked transaction is two steps, Validate and Commit, so that the  *)
(* clock and every transaction that does not wait for the lock may move    *)
(* between the guard's reads and the write.                                *)
(***************************************************************************)
EXTENDS ProductionStore

CONSTANTS
    SubjectOf,   \* the subject of each request: two requests of one run share it
    PlanTtl      \* lifetime of a signed plan

ASSUME IssuanceAssumption ==
    SubjectOf \in [Requests -> Subjects] /\ PlanTtl \in Nat \ {0}

VARIABLE
    request      \* the progress of each request

NewRequest ==
    [pc |-> "resolve", epoch |-> None, plan |-> None, authority |-> None,
     revision |-> 0, startedAt |-> 0, expires |-> 0]

RequestPcs ==
    {"resolve", "epoch", "prepare", "register", "registering", "sign", "save", "saving",
     "selected", "full_ci", "failed"}

RequestStates ==
    [pc : RequestPcs, epoch : Epochs \cup {None}, plan : Candidates \cup {None},
     authority : Authorities \cup {None}, revision : Nat, startedAt : Nat, expires : Nat]

Goto(r, pc) == request' = [request EXCEPT ![r].pc = pc]

(* The request keeps nothing of what it prepared once it has a result. *)
Finish(r, result) == request' = [request EXCEPT ![r] = [NewRequest EXCEPT !.pc = result]]

----------------------------------------------------------------------------
(* _resolve_override: an unlocked read at the process clock; an exception   *)
(* counts as forced.                                                        *)
ResolveOverride(r) ==
    /\ request[r].pc = "resolve"
    /\ \E now \in ProcessTimes :
          IF ForcesFullCi(SubjectOf[r], now) THEN Finish(r, "full_ci") ELSE Goto(r, "epoch")
    /\ UNCHANGED <<clock, lock, tables>>

(* _load_active_epoch and the candidate built from it. *)
LoadActiveEpoch(r) ==
    /\ request[r].pc = "epoch"
    /\ IF epoch.revision = 0
       THEN Finish(r, "full_ci")
       ELSE \E plan \in Candidates :
              request' = [request EXCEPT ![r] =
                             [@ EXCEPT !.pc = "prepare", !.epoch = epoch.id, !.plan = plan]]
    /\ UNCHANGED <<clock, lock, tables>>

(* load_retained_production_authority, purpose "active", and the receipt's  *)
(* preauthorization of the candidate.                                       *)
Preauthorizes(e, now) ==
    /\ scope.active # None
    /\ scope.latch = NoLatch
    /\ scope.revoked < scope.generation
    /\ EpochOf[scope.active] = e
    /\ now < NotAfterOf[scope.active]

(* _prepare_authority: the evidence is bound to the revision and database   *)
(* time of the locked read; providers are read after the lock is released.  *)
PrepareAuthority(r) ==
    /\ lock = None
    /\ request[r].pc = "prepare"
    /\ \E now \in ProcessTimes :
          /\ Preauthorizes(request[r].epoch, now)
          /\ request' = [request EXCEPT ![r] =
                            [@ EXCEPT !.pc = "register", !.authority = scope.active,
                                      !.revision = scope.revision, !.startedAt = clock]]
    /\ UNCHANGED <<clock, lock, tables>>

(* Any stage may yield nothing: an unavailable provider or capacity, a      *)
(* receipt that is no longer valid, a rejected subject, an exception.       *)
FallBack(r) ==
    /\ request[r].pc \in {"epoch", "prepare", "register", "sign", "save"}
    /\ Finish(r, "full_ci")
    /\ UNCHANGED <<clock, lock, tables>>

(* Without authority, omitted obligations are registered as Full CI shadow  *)
(* evidence; the outcome of the registration is ignored.                    *)
RegisterFullCi(r) ==
    /\ lock = None
    /\ request[r].pc \in {"prepare", "register"}
    /\ subjects' = IF subjects[SubjectOf[r]].origin = "none"
                   THEN [subjects EXCEPT ![SubjectOf[r]] = FullCiRow(request[r].plan)]
                   ELSE subjects
    /\ Finish(r, "full_ci")
    /\ UNCHANGED <<clock, lock, scope, retained, controls, forces, epoch, plans>>

----------------------------------------------------------------------------
(* The time predicates of an insert under the guard and of the recheck that *)
(* follows it.                                                              *)
StillAuthorised(req, now) ==
    /\ now < NotAfterOf[req.authority]
    /\ EvidenceCurrent(req.startedAt, now)

RequestGuardAdmits(r, now) ==
    GuardAdmits(SubjectOf[r], request[r].epoch, request[r].authority,
                request[r].revision, request[r].startedAt, now)

(* Take the scope lock and evaluate the guard under it. *)
ValidateRegistration(r) ==
    /\ lock = None
    /\ request[r].pc = "register"
    /\ IF RequestGuardAdmits(r, clock)
       THEN lock' = r /\ Goto(r, "registering")
       ELSE lock' = None /\ Finish(r, "full_ci")
    /\ UNCHANGED <<clock, tables>>

(* Faulty variant, for sensitivity checks only: a retained contract is not compared. *)
RegistrableAnyContract(row, a, plan) ==
    row.origin = "none" \/ SelectedUnder(row, a)

(* The subject row is new, or was registered before with the same origin    *)
(* and contract; another origin or contract conflicts.                      *)
Registrable(row, a, plan) ==
    row.origin = "none" \/ (SelectedUnder(row, a) /\ row.plan = plan)

(* Insert, recheck the time and commit.  The outcome of a commit may be     *)
(* lost: the row is stored and the request falls back all the same.         *)
CommitRegistration(r) ==
    LET req == request[r]
        s == SubjectOf[r]
    IN  /\ req.pc = "registering"
        /\ IF StillAuthorised(req, clock) /\ Registrable(subjects[s], req.authority, req.plan)
           THEN /\ subjects' = IF subjects[s].origin = "none"
                               THEN [subjects EXCEPT ![s] = SelectedRow(req.authority, req.plan)]
                               ELSE subjects
                /\ Goto(r, "sign") \/ Finish(r, "full_ci")
           ELSE Finish(r, "full_ci") /\ UNCHANGED subjects
        /\ lock' = None
        /\ UNCHANGED <<clock, scope, retained, controls, forces, epoch, plans>>

(* Faulty variant, for sensitivity checks only: the lifetime is not capped by the receipt. *)
SignUncapped(r) ==
    /\ request[r].pc = "sign"
    /\ \E now \in ProcessTimes :
          /\ now < NotAfterOf[request[r].authority]
          /\ request' = [request EXCEPT ![r] =
                            [@ EXCEPT !.pc = "save", !.expires = now + PlanTtl]]
    /\ UNCHANGED <<clock, lock, tables>>

(* _reauthorize and SignedPlanSigner.sign at the process clock. *)
Sign(r) ==
    /\ request[r].pc = "sign"
    /\ \E now \in ProcessTimes :
          /\ now < NotAfterOf[request[r].authority]
          /\ request' = [request EXCEPT ![r] =
                            [@ EXCEPT !.pc = "save",
                                      !.expires = LowerOf(now + PlanTtl,
                                                          NotAfterOf[request[r].authority])]]
    /\ UNCHANGED <<clock, lock, tables>>

(* Take the scope lock; _validate_guard. *)
ValidateSave(r) ==
    /\ lock = None
    /\ request[r].pc = "save"
    /\ IF /\ clock < request[r].expires
          /\ RequestGuardAdmits(r, clock)
          /\ SelectedUnder(subjects[SubjectOf[r]], request[r].authority)
       THEN lock' = r /\ Goto(r, "saving")
       ELSE lock' = None /\ Finish(r, "full_ci")
    /\ UNCHANGED <<clock, tables>>

(* The plan stored under the request's idempotency key. *)
StoredPlans(s, a, plan) ==
    {p \in plans : p.subject = s /\ p.authority = a /\ p.plan = plan}

(* Insert or find the stored plan, recheck the time and commit; a lost      *)
(* commit outcome fails the request with the plan stored.                   *)
CommitSave(r) ==
    LET req == request[r]
        s == SubjectOf[r]
        plan == [subject |-> s, authority |-> req.authority, plan |-> req.plan,
                 expires |-> req.expires]
    IN  /\ req.pc = "saving"
        /\ IF clock < req.expires /\ StillAuthorised(req, clock)
           THEN /\ plans' = IF StoredPlans(s, req.authority, req.plan) = {}
                            THEN plans \cup {plan}
                            ELSE plans
                /\ Finish(r, "selected") \/ Finish(r, "failed")
           ELSE Finish(r, "full_ci") /\ UNCHANGED plans
        /\ lock' = None
        /\ UNCHANGED <<clock, scope, retained, controls, forces, epoch, subjects>>

(* Cancellation or a database error: the transaction rolls back and its     *)
(* lock is released.  A failed registration still ends in Full CI.          *)
Cancel(r) ==
    /\ request[r].pc \notin {"selected", "full_ci", "failed"}
    /\ lock' = IF lock = r THEN None ELSE lock
    /\ Finish(r, "failed")
    /\ UNCHANGED <<clock, tables>>

(* The run asks again: a retry after a lost answer, or a redelivery. *)
Retry(r) ==
    /\ request[r].pc \in {"selected", "full_ci", "failed"}
    /\ request' = [request EXCEPT ![r] = NewRequest]
    /\ UNCHANGED <<clock, lock, tables>>

IssuanceInit == request = [r \in Requests |-> NewRequest]

IssuanceNext ==
    \E r \in Requests :
        \/ ResolveOverride(r)
        \/ LoadActiveEpoch(r)
        \/ PrepareAuthority(r)
        \/ FallBack(r)
        \/ RegisterFullCi(r)
        \/ ValidateRegistration(r)
        \/ CommitRegistration(r)
        \/ Sign(r)
        \/ ValidateSave(r)
        \/ CommitSave(r)
        \/ Cancel(r)
        \/ Retry(r)

============================================================================
