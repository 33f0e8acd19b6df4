----------------------------- MODULE PlanProofs ----------------------------
(***************************************************************************)
(* What a run attempt is issued, for every value of the constants: its     *)
(* stored plan is the registered one and the only one, none is added under *)
(* a revoked generation, and each commits only while its guard holds and   *)
(* ends within one lifetime of that.  The last section shows that the      *)
(* production system implements GenerationHandover.                        *)
(*                                                                         *)
(* The first two rest on the subject row, which no step rebinds: a request *)
(* past its registration agrees with the row, so what it saves does.  The  *)
(* others rest on GenerationInv, the authority that a save validated still *)
(* serves at its commit, and on GuardInv: so do its epoch and the absence  *)
(* of an override, because their writers wait for the scope lock.          *)
(***************************************************************************)
EXTENDS ProductionSystemProofs


Committed == {"sign", "save", "saving"}

RequestsRegistered ==
    \A r \in Requests :
        request[r].pc \in Committed =>
            /\ SelectedUnder(subjects[SubjectOf[r]], request[r].authority)
            /\ subjects[SubjectOf[r]].plan = request[r].plan
            /\ request[r].pc # "sign" => request[r].expires <= NotAfterOf[request[r].authority]

PlanInv == RequestsRegistered /\ PlansAreRegistered /\ OneSelectedPlanPerSubject

(* A registered subject stays bound to its origin, authority and plan. *)
SubjectsKeepBinding ==
    \A s \in Subjects : subjects[s].origin # "none" =>
        /\ subjects'[s].origin = subjects[s].origin
        /\ subjects'[s].authority = subjects[s].authority
        /\ subjects'[s].generation = subjects[s].generation
        /\ subjects'[s].plan = subjects[s].plan

USE StoreAssumption, IssuanceAssumption

LEMMA PlanInit == Init => PlanInv
  BY DEF Init, StoreInit, IssuanceInit, PlanInv, RequestsRegistered, Committed, NewRequest,
         PlansAreRegistered, OneSelectedPlanPerSubject

LEMMA PlansStayRegistered ==
    ASSUME TypeInv, PlansAreRegistered, SubjectsKeepBinding, UNCHANGED plans
    PROVE  PlansAreRegistered'
<1> SUFFICES ASSUME NEW p \in plans
             PROVE  /\ SelectedUnder(subjects'[p.subject], p.authority)
                    /\ subjects'[p.subject].plan = p.plan
                    /\ p.expires <= NotAfterOf[p.authority]
  BY DEF PlansAreRegistered
<1>1. p.subject \in Subjects
  BY DEF TypeInv, TypeOK, StoreTypeOK, Plans
<1>2. /\ SelectedUnder(subjects[p.subject], p.authority)
      /\ subjects[p.subject].plan = p.plan
      /\ p.expires <= NotAfterOf[p.authority]
  BY DEF PlansAreRegistered
<1> QED
  BY <1>1, <1>2 DEF SubjectsKeepBinding, SelectedUnder

(* Steps that add no plan and take no request past its registration. *)
LEMMA PlanKept ==
    ASSUME TypeInv, PlanInv, SubjectsKeepBinding, UNCHANGED plans,
           \A r \in Requests : request'[r].pc \in Committed => request'[r] = request[r]
    PROVE  PlanInv'
<1>1. RequestsRegistered'
  BY DEF PlanInv, RequestsRegistered, SubjectsKeepBinding, SelectedUnder
<1>2. PlansAreRegistered'
  BY PlansStayRegistered DEF PlanInv
<1>3. OneSelectedPlanPerSubject'
  BY DEF PlanInv, OneSelectedPlanPerSubject
<1> QED  BY <1>1, <1>2, <1>3 DEF PlanInv

(* One request goes on past its registration. *)
LEMMA PlanGoesOn ==
    ASSUME TypeInv, PlanInv, SubjectsKeepBinding, UNCHANGED plans, NEW r \in Requests,
           \A q \in Requests \ {r} : request'[q] = request[q],
           SelectedUnder(subjects'[SubjectOf[r]], request'[r].authority),
           subjects'[SubjectOf[r]].plan = request'[r].plan,
           request'[r].pc # "sign" => request'[r].expires <= NotAfterOf[request'[r].authority]
    PROVE  PlanInv'
<1>1. \A q \in Requests \ {r} : request'[q].pc \in Committed =>
         /\ SelectedUnder(subjects'[SubjectOf[q]], request'[q].authority)
         /\ subjects'[SubjectOf[q]].plan = request'[q].plan
         /\ request'[q].pc # "sign" => request'[q].expires <= NotAfterOf[request'[q].authority]
  BY DEF PlanInv, RequestsRegistered, SubjectsKeepBinding, SelectedUnder
<1>2. RequestsRegistered'
  BY <1>1 DEF RequestsRegistered
<1>3. PlansAreRegistered'
  BY PlansStayRegistered DEF PlanInv
<1>4. OneSelectedPlanPerSubject'
  BY DEF PlanInv, OneSelectedPlanPerSubject
<1> QED  BY <1>2, <1>3, <1>4 DEF PlanInv

(* A request that moves keeps what it prepared; one that ends keeps nothing. *)
LEMMA MovedRequest ==
    ASSUME TypeInv, NEW r \in Requests, NEW pc, Goto(r, pc)
    PROVE  /\ request'[r].pc = pc
           /\ request'[r].authority = request[r].authority
           /\ request'[r].plan = request[r].plan
           /\ request'[r].expires = request[r].expires
           /\ \A q \in Requests \ {r} : request'[q] = request[q]
  BY DEF Goto, TypeInv, TypeOK, RequestStates

LEMMA EndedRequest ==
    ASSUME TypeInv, NEW r \in Requests, NEW pc, Finish(r, pc)
    PROVE  request'[r].pc = pc /\ \A q \in Requests \ {r} : request'[q] = request[q]
  BY DEF Finish, TypeInv, TypeOK, NewRequest

(* Ending a request, whatever happens to its subject. *)
LEMMA PlanEnds ==
    ASSUME TypeInv, PlanInv, SubjectsKeepBinding, UNCHANGED plans, NEW r \in Requests,
           NEW result \in {"selected", "full_ci", "failed"}, Finish(r, result)
    PROVE  PlanInv'
  BY EndedRequest, PlanKept DEF Committed

LEMMA SameSubjects == UNCHANGED subjects => SubjectsKeepBinding
  BY DEF SubjectsKeepBinding

(* A new row for a subject that has none rebinds nothing. *)
LEMMA NewSubject ==
    ASSUME TypeInv, NEW s \in Subjects, NEW row, subjects[s].origin = "none",
           subjects' = [subjects EXCEPT ![s] = row]
    PROVE  SubjectsKeepBinding /\ subjects'[s] = row
  BY DEF SubjectsKeepBinding, TypeInv, TypeOK, StoreTypeOK

LEMMA PlanIssuanceStep ==
    TypeInv /\ PlanInv /\ IssuanceNext => PlanInv'
<1> SUFFICES ASSUME TypeInv, PlanInv, NEW r \in Requests,
                    \/ ResolveOverride(r) \/ LoadActiveEpoch(r) \/ PrepareAuthority(r)
                    \/ FallBack(r) \/ RegisterFullCi(r) \/ ValidateRegistration(r)
                    \/ CommitRegistration(r) \/ Sign(r) \/ ValidateSave(r)
                    \/ CommitSave(r) \/ Cancel(r) \/ Retry(r)
             PROVE  PlanInv'
  BY DEF IssuanceNext
<1> DEFINE s == SubjectOf[r]
           a == request[r].authority
<1>s. s \in Subjects
  OBVIOUS
<1>f. request \in [Requests -> RequestStates]
  BY DEF TypeInv, TypeOK
<1>1. CASE ResolveOverride(r)
  BY <1>1, MovedRequest, EndedRequest, PlanKept, SameSubjects
     DEF ResolveOverride, Committed, tables
<1>2. CASE LoadActiveEpoch(r)
  <2>1. CASE Finish(r, "full_ci")
    BY <1>2, <2>1, PlanEnds, SameSubjects, Zenon DEF LoadActiveEpoch, tables
  <2>2. ASSUME NEW plan \in Candidates,
               request' = [request EXCEPT ![r] =
                              [@ EXCEPT !.pc = "prepare", !.epoch = epoch.id, !.plan = plan]]
        PROVE  PlanInv'
    <3>1. request'[r].pc = "prepare" /\ \A q \in Requests \ {r} : request'[q] = request[q]
      BY <1>f, <2>2 DEF RequestStates
    <3> QED
      BY <1>2, <3>1, PlanKept, SameSubjects, Zenon DEF LoadActiveEpoch, Committed, tables
  <2> QED
    BY <1>2, <2>1, <2>2, Zenon DEF LoadActiveEpoch
<1>3. CASE PrepareAuthority(r)
  <2>1. request'[r].pc = "register" /\ \A q \in Requests \ {r} : request'[q] = request[q]
    BY <1>3, <1>f DEF PrepareAuthority, RequestStates
  <2> QED
    BY <1>3, <2>1, PlanKept, SameSubjects DEF PrepareAuthority, Committed, tables
<1>4. CASE FallBack(r)
  BY <1>4, PlanEnds, SameSubjects DEF FallBack, tables
<1>5. CASE RegisterFullCi(r)
  <2>1. SubjectsKeepBinding
    BY <1>5, NewSubject, SameSubjects DEF RegisterFullCi
  <2> QED
    BY <1>5, <2>1, PlanEnds DEF RegisterFullCi
<1>6. CASE ValidateRegistration(r)
  <2>1. UNCHANGED <<subjects, plans>>
    BY <1>6 DEF ValidateRegistration, tables
  <2>2. CASE Goto(r, "registering")
    BY <2>1, <2>2, MovedRequest, PlanKept, SameSubjects DEF Committed
  <2>3. CASE Finish(r, "full_ci")
    BY <2>1, <2>3, PlanEnds, SameSubjects
  <2> QED
    BY <1>6, <2>2, <2>3 DEF ValidateRegistration
<1>7. CASE CommitRegistration(r)
  <2>1. SubjectsKeepBinding
    BY <1>7, NewSubject, SameSubjects DEF CommitRegistration
  <2>2. CASE Finish(r, "full_ci")
    BY <1>7, <2>1, <2>2, PlanEnds DEF CommitRegistration
  <2>3. CASE Goto(r, "sign") /\ ~Finish(r, "full_ci")
    <3>1. SelectedUnder(subjects'[s], a) /\ subjects'[s].plan = request[r].plan
      <4>1. /\ Registrable(subjects[s], a, request[r].plan)
            /\ subjects' = IF subjects[s].origin = "none"
                           THEN [subjects EXCEPT ![s] = SelectedRow(a, request[r].plan)]
                           ELSE subjects
        BY <1>7, <2>3 DEF CommitRegistration
      <4>2. CASE subjects[s].origin = "none"
        <5>1. subjects' = [subjects EXCEPT ![s] = SelectedRow(a, request[r].plan)]
          BY <4>1, <4>2
        <5>2. subjects'[s] = SelectedRow(a, request[r].plan)
          BY <1>s, <4>2, <5>1, NewSubject, ZenonT(30)
        <5>3. /\ SelectedRow(a, request[r].plan).origin = "selected"
              /\ SelectedRow(a, request[r].plan).authority = a
              /\ SelectedRow(a, request[r].plan).generation = GenerationOf[a]
              /\ SelectedRow(a, request[r].plan).plan = request[r].plan
          BY Zenon DEF SelectedRow
        <5> QED
          BY <5>2, <5>3, Zenon DEF SelectedUnder
      <4>3. CASE subjects[s].origin # "none"
        BY <4>1, <4>3 DEF Registrable
      <4> QED
        BY <4>2, <4>3
    <3>2. /\ request'[r].pc = "sign" /\ request'[r].authority = a
          /\ request'[r].plan = request[r].plan
          /\ \A q \in Requests \ {r} : request'[q] = request[q]
      BY <2>3, MovedRequest
    <3>3. UNCHANGED plans
      BY <1>7 DEF CommitRegistration
    <3> QED
      BY <2>1, <3>1, <3>2, <3>3, PlanGoesOn
  <2> QED
    BY <1>7, <2>2, <2>3 DEF CommitRegistration
<1>8. CASE Sign(r)
  <2>1. PICK now \in ProcessTimes :
           request' = [request EXCEPT ![r] =
                         [@ EXCEPT !.pc = "save",
                                   !.expires = LowerOf(now + PlanTtl, NotAfterOf[a])]]
    BY <1>8, Zenon DEF Sign
  <2>2. /\ request'[r].authority = a
        /\ request'[r].plan = request[r].plan
        /\ request'[r].expires = LowerOf(now + PlanTtl, NotAfterOf[a])
        /\ \A q \in Requests \ {r} : request'[q] = request[q]
    BY <1>f, <2>1 DEF RequestStates
  <2>3. a \in Authorities
    BY <1>8, Zenon DEF Sign, TypeInv, BoundToAuthority
  <2>4. LowerOf(now + PlanTtl, NotAfterOf[a]) <= NotAfterOf[a]
    BY <2>3, ClockFields, SignedExpiry, Zenon
  <2>5. /\ UNCHANGED <<subjects, plans>>
        /\ SelectedUnder(subjects[s], a) /\ subjects[s].plan = request[r].plan
    BY <1>8, Zenon DEF Sign, tables, PlanInv, RequestsRegistered, Committed
  <2> QED
    BY <2>2, <2>4, <2>5, PlanGoesOn, SameSubjects
<1>9. CASE ValidateSave(r)
  <2>1. CASE Finish(r, "full_ci")
    BY <1>9, <2>1, PlanEnds, SameSubjects DEF ValidateSave, tables
  <2>2. CASE Goto(r, "saving")
    <3>1. /\ UNCHANGED <<subjects, plans>>
          /\ SelectedUnder(subjects[s], a) /\ subjects[s].plan = request[r].plan
          /\ request[r].expires <= NotAfterOf[a]
      BY <1>9 DEF ValidateSave, tables, PlanInv, RequestsRegistered, Committed
    <3> QED
      BY <2>2, <3>1, MovedRequest, PlanGoesOn, SameSubjects
  <2> QED
    BY <1>9, <2>1, <2>2 DEF ValidateSave
<1>10. CASE CommitSave(r)
  <2> DEFINE new == [subject |-> s, authority |-> a, plan |-> request[r].plan,
                     expires |-> request[r].expires]
  <2>1. UNCHANGED subjects /\ \E result \in {"selected", "full_ci", "failed"} : Finish(r, result)
    BY <1>10 DEF CommitSave
  <2>2. CASE UNCHANGED plans
    BY <2>1, <2>2, PlanEnds, SameSubjects
  <2>3. CASE ~UNCHANGED plans
    <3>1. plans' = plans \cup {new} /\ StoredPlans(s, a, request[r].plan) = {}
      BY <1>10, <2>3 DEF CommitSave
    <3>2. /\ SelectedUnder(subjects[s], a) /\ subjects[s].plan = request[r].plan
          /\ request[r].expires <= NotAfterOf[a]
      BY <1>10 DEF CommitSave, PlanInv, RequestsRegistered, Committed
    <3>3. \A p \in plans : p.subject # s
      <4>1. ASSUME NEW p \in plans, p.subject = s
            PROVE  p.authority = a /\ p.plan = request[r].plan
        BY <3>2, <4>1 DEF PlanInv, PlansAreRegistered, SelectedUnder
      <4> QED
        BY <3>1, <4>1 DEF StoredPlans
    <3>4. PlansAreRegistered'
      <4>1. ASSUME NEW p \in plans' PROVE p \in plans \/ p = new
        BY <3>1, <4>1
      <4>2. /\ new.subject = s /\ new.authority = a /\ new.plan = request[r].plan
            /\ new.expires = request[r].expires
        OBVIOUS
      <4> HIDE DEF new
      <4> QED
        BY <2>1, <3>2, <4>1, <4>2, Zenon DEF PlanInv, PlansAreRegistered
    <3>5. OneSelectedPlanPerSubject'
      BY <3>1, <3>3 DEF PlanInv, OneSelectedPlanPerSubject
    <3>6. RequestsRegistered'
      <4>1. request'[r].pc \in {"selected", "full_ci", "failed"}
        BY <2>1, EndedRequest
      <4>2. \A q \in Requests \ {r} : request'[q] = request[q]
        BY <2>1, EndedRequest
      <4>3. request'[r].pc \notin Committed
        BY <4>1 DEF Committed
      <4> QED
        BY <2>1, <4>2, <4>3 DEF PlanInv, RequestsRegistered
    <3> QED
      BY <3>4, <3>5, <3>6 DEF PlanInv
  <2> QED
    BY <2>2, <2>3
<1>11. CASE Cancel(r)
  BY <1>11, PlanEnds, SameSubjects DEF Cancel, tables
<1>12. CASE Retry(r)
  <2>1. request'[r].pc = "resolve" /\ \A q \in Requests \ {r} : request'[q] = request[q]
    BY <1>12, <1>f DEF Retry, NewRequest
  <2> QED
    BY <1>12, <2>1, PlanKept, SameSubjects DEF Retry, Committed, tables
<1> QED
  BY <1>1, <1>2, <1>3, <1>4, <1>5, <1>6, <1>7, <1>8, <1>9, <1>10, <1>11, <1>12

(* The inductive invariant holds in every reachable state. *)
LEMMA PlanInvariance == Spec => [](TypeInv /\ PlanInv)
<1>1. TypeInv /\ PlanInv /\ [Next]_vars => PlanInv'
  <2> SUFFICES ASSUME TypeInv, PlanInv, [Next]_vars
               PROVE  PlanInv'
    OBVIOUS
  <2>1. CASE UNCHANGED <<subjects, plans, request>>
    BY <2>1, PlanKept, SameSubjects
  <2>2. AdvanceClock => UNCHANGED <<subjects, plans, request>>
    BY DEF AdvanceClock, tables
  <2>3. ControlsNext /\ UNCHANGED <<activation, request>>
           => UNCHANGED <<subjects, plans, request>>
    BY DEF ControlsNext, DisableOmission, EnableOmission, ApplyControl, ForceFullCi, ActivateEpoch
  <2>4. CutoverNext /\ UNCHANGED request => UNCHANGED <<subjects, plans, request>>
    BY DEF CutoverNext, Stage, Begin, ObserveStaged, ValidateActivation, CommitActivation,
           AbandonActivation, tables
  <2>5. CASE RoundsNext
    <3>1. RoundEffect
      BY <2>5, RoundSteps
    <3>2. SubjectsKeepBinding /\ UNCHANGED <<plans, request>>
      BY <3>1, Zenon DEF RoundEffect, SubjectsKeepBinding
    <3> QED
      BY <3>2, PlanKept
  <2>6. UNCHANGED vars => UNCHANGED <<subjects, plans, request>>
    BY DEF vars
  <2> QED
    BY <2>1, <2>2, <2>3, <2>4, <2>5, <2>6, PlanIssuanceStep DEF Next
<1> QED
  BY <1>1, PlanInit, TypeInvariance, PTL DEF Spec

(* A stored plan agrees with its reconciliation subject and its receipt:    *)
(* what CommitSave inserts was registered by CommitRegistration, however    *)
(* many requests, retries and lost commit outcomes share the run attempt.   *)
THEOREM PlansRegistered == Spec => []PlansAreRegistered
  BY PlanInvariance, PTL DEF PlanInv

(* One run attempt holds at most one selected plan: registration binds the  *)
(* subject to one authority and one verified plan for good.                 *)
THEOREM OneSelected == Spec => []OneSelectedPlanPerSubject
  BY PlanInvariance, PTL DEF PlanInv

----------------------------------------------------------------------------
(* What one step does to the revocation mark, the plans and the subjects. *)
RevocationStep ==
    /\ scope'.revoked >= scope.revoked
    /\ \A p \in plans' \ plans : GenerationOf[p.authority] > scope.revoked
    /\ \A s \in Subjects :
          subjects'[s].origin = "selected" /\ subjects[s].origin # "selected"
             => subjects'[s].generation > scope.revoked

LEMMA RevocationCutover ==
    ASSUME TypeInv, GenerationInv, CutoverNext
    PROVE  scope'.revoked >= scope.revoked
<1>s. scope \in ScopeStates /\ scope.revoked \in Nat /\ scope.generation \in Nat
  BY ScopeFields
<1>1. \A a : StagedScope(a).revoked = scope.revoked /\ ActivatedScope(a).revoked = scope.revoked
  BY <1>s DEF StagedScope, ActivatedScope, ScopeStates
<1>2. \A l, t : BegunScope(l, t).revoked = scope.generation
  BY <1>s DEF BegunScope, ScopeStates
<1>3. scope.revoked <= scope.generation
  BY DEF GenerationInv, ScopeRowReadable, WellFormedScope
<1>4. CASE UNCHANGED scope
  BY <1>s, <1>4
<1>5. ASSUME NEW a \in Authorities, Stage(a)
      PROVE  scope'.revoked >= scope.revoked
  BY <1>s, <1>1, <1>5 DEF Stage
<1>6. CASE Begin
  <2>1. scope'.revoked = scope.generation
    BY <1>2, <1>6 DEF Begin, BeginWithExistingDisable, BeginWithNewDisable
  <2> QED
    BY <1>s, <1>3, <2>1
<1>7. ASSUME NEW o \in Operators, CommitActivation(o)
      PROVE  scope'.revoked >= scope.revoked
  <2>1. UNCHANGED scope \/ scope' = ActivatedScope(activation[o].authority)
    BY <1>7, Zenon DEF CommitActivation
  <2>2. scope'.revoked = scope.revoked
    BY <1>1, <2>1, Zenon
  <2> QED
    BY <1>s, <2>2
<1> QED
  BY <1>4, <1>5, <1>6, <1>7 DEF CutoverNext, ObserveStaged, ValidateActivation,
     AbandonActivation, tables

(* A step whose new plans and newly selected rows are of one live generation. *)
LEMMA RevocationKept ==
    ASSUME scope.revoked \in Nat, UNCHANGED scope, NEW a,
           \A p \in plans' : p \in plans \/ p.authority = a,
           \A s \in Subjects : \/ subjects'[s] = subjects[s]
                               \/ subjects'[s].origin # "selected"
                               \/ subjects'[s].generation = GenerationOf[a],
           \/ UNCHANGED plans /\ \A s \in Subjects : \/ subjects'[s] = subjects[s]
                                                      \/ subjects'[s].origin # "selected"
           \/ GenerationOf[a] > scope.revoked
    PROVE  RevocationStep
<1>1. scope'.revoked >= scope.revoked
  OBVIOUS
<1>2. \A p \in plans' \ plans : GenerationOf[p.authority] > scope.revoked
  OBVIOUS
<1>3. \A s \in Subjects :
         subjects'[s].origin = "selected" /\ subjects[s].origin # "selected"
            => subjects'[s].generation > scope.revoked
  OBVIOUS
<1> QED
  BY <1>1, <1>2, <1>3 DEF RevocationStep

LEMMA RevocationIssuance ==
    ASSUME TypeInv, GenerationInv, IssuanceNext
    PROVE  RevocationStep
<1> PICK r \in Requests :
           \/ ResolveOverride(r) \/ LoadActiveEpoch(r) \/ PrepareAuthority(r)
           \/ FallBack(r) \/ RegisterFullCi(r) \/ ValidateRegistration(r)
           \/ CommitRegistration(r) \/ Sign(r) \/ ValidateSave(r)
           \/ CommitSave(r) \/ Cancel(r) \/ Retry(r)
  BY DEF IssuanceNext
<1>s. scope.revoked \in Nat /\ subjects \in [Subjects -> SubjectRows]
  BY ScopeFields DEF TypeInv, TypeOK, StoreTypeOK
<1>1. CASE UNCHANGED <<scope, subjects, plans>>
  BY <1>s, <1>1 DEF RevocationStep
<1>2. request[r].pc \in {"registering", "saving"} =>
         GenerationOf[request[r].authority] > scope.revoked
  BY <1>s, ScopeFields DEF GenerationInv, ValidatedUnderLock, Serves
<1>3. CASE RegisterFullCi(r)
  <2>1. \A s \in Subjects : subjects'[s] = subjects[s] \/ subjects'[s] = FullCiRow(request[r].plan)
    BY <1>s, <1>3 DEF RegisterFullCi
  <2>2. FullCiRow(request[r].plan).origin = "full_ci"
    BY DEF FullCiRow, Unregistered
  <2>3. UNCHANGED <<scope, plans>>
    BY <1>3 DEF RegisterFullCi
  <2>4. \A s \in Subjects : subjects'[s] = subjects[s] \/ subjects'[s].origin # "selected"
    BY <2>1, <2>2
  <2> QED
    BY <1>s, <2>3, <2>4, RevocationKept
<1>4. CASE CommitRegistration(r)
  <2>1. \A s \in Subjects : \/ subjects'[s] = subjects[s]
                           \/ subjects'[s] = SelectedRow(request[r].authority, request[r].plan)
    BY <1>s, <1>4 DEF CommitRegistration
  <2>2. /\ GenerationOf[request[r].authority] > scope.revoked
        /\ SelectedRow(request[r].authority, request[r].plan).generation
              = GenerationOf[request[r].authority]
    BY <1>2, <1>4 DEF CommitRegistration, SelectedRow
  <2>3. UNCHANGED <<scope, plans>>
    BY <1>4 DEF CommitRegistration
  <2> QED
    BY <1>s, <2>1, <2>2, <2>3, RevocationKept
<1>5. CASE CommitSave(r)
  <2> DEFINE plan == [subject |-> SubjectOf[r], authority |-> request[r].authority,
                      plan |-> request[r].plan, expires |-> request[r].expires]
  <2>1. /\ request[r].pc = "saving" /\ UNCHANGED <<scope, subjects>>
        /\ plans' = plans \/ plans' = plans \cup {plan}
    BY <1>5 DEF CommitSave
  <2>2. \A p \in plans' : p \in plans \/ p.authority = request[r].authority
    <3>1. plan.authority = request[r].authority
      OBVIOUS
    <3> HIDE DEF plan
    <3> QED
      BY <2>1, <3>1, Zenon
  <2> QED
    BY <1>s, <1>2, <2>1, <2>2, RevocationKept
<1> QED
  BY <1>1, <1>3, <1>4, <1>5, Zenon
     DEF ResolveOverride, LoadActiveEpoch, PrepareAuthority, FallBack,
     ValidateRegistration, Sign, ValidateSave, Cancel, Retry, tables

(* Revocation is final, for every instance: begin only raises the revoked   *)
(* generation, and neither a plan nor a selected subject of a revoked       *)
(* generation is ever added, because the authority a transaction validated  *)
(* under the scope lock still serves when it commits.                       *)
THEOREM RevocationFinal == Spec => RevocationIsFinal
<1>1. TypeInv /\ GenerationInv /\ [Next]_vars => [RevocationStep]_vars
  <2> SUFFICES ASSUME TypeInv, GenerationInv, Next
               PROVE  RevocationStep
    OBVIOUS
  <2>s. scope.revoked \in Nat
    BY ScopeFields
  <2>1. CASE AdvanceClock \/ ControlsNext
    <3>1. UNCHANGED <<scope, subjects, plans>>
      BY <2>1 DEF AdvanceClock, tables, ControlsNext, DisableOmission, EnableOmission,
                  ApplyControl, ForceFullCi, ActivateEpoch
    <3> QED
      BY <2>s, <3>1 DEF RevocationStep
  <2>2. CASE CutoverNext
    <3>1. UNCHANGED <<subjects, plans>>
      BY <2>2 DEF CutoverNext, Stage, Begin, ObserveStaged, ValidateActivation,
                  CommitActivation, AbandonActivation, tables
    <3> QED
      BY <2>2, <3>1, RevocationCutover DEF RevocationStep
  <2>3. CASE IssuanceNext
    BY <2>3, RevocationIssuance
  <2>4. CASE RoundsNext
    <3>1. /\ \A s \in Subjects : subjects'[s].origin = subjects[s].origin
          /\ UNCHANGED <<scope, plans>>
      BY <2>4, RoundSteps, Zenon DEF RoundEffect
    <3> QED
      BY <2>s, <3>1 DEF RevocationStep
  <2> QED
    BY <2>1, <2>2, <2>3, <2>4 DEF Next
<1> QED
  BY <1>1, GenerationInvariance, PTL DEF Spec, RevocationIsFinal, RevocationStep


----------------------------------------------------------------------------
(* What the guard of a save checked besides the scope row, and the lifetime *)
(* of what was signed.                                                      *)

Guarded == {"registering", "saving"}

(* Between its guard and its commit a request's epoch stays active and      *)
(* nothing forces Full CI on its subject: every writer of an epoch, a force *)
(* or a control waits for the lock.                                         *)
GuardHeld ==
    \A r \in Requests : request[r].pc \in Guarded =>
        /\ PolicyCurrent(EpochOf[request[r].authority])
        /\ ~ForcesFullCi(SubjectOf[r], clock)

(* A plan ends at most one lifetime after it was signed, by a clock that is *)
(* at most Skew ahead.                                                      *)
SignedUntil(expires) == expires <= clock + Skew + PlanTtl

LifetimesBounded ==
    /\ \A r \in Requests : request[r].pc \in {"save", "saving"} => SignedUntil(request[r].expires)
    /\ \A p \in plans : SignedUntil(p.expires)

GuardInv == GuardHeld /\ LifetimesBounded

LEMMA GuardInit == Init => GuardInv
  BY DEF Init, StoreInit, IssuanceInit, GuardInv, GuardHeld, Guarded, LifetimesBounded,
         NewRequest

LEMMA Times ==
    ASSUME TypeInv
    PROVE  /\ clock \in Nat
           /\ \A r \in Requests : request[r].expires \in Nat
           /\ \A p \in plans : p.expires \in Nat
           /\ \A f \in forces : f.expires \in Nat
<1>1. clock \in Nat
  BY ClockFields
<1>2. \A r \in Requests : request[r].expires \in Nat
  BY DEF TypeInv, TypeOK, RequestStates
<1>3. (\A p \in plans : p.expires \in Nat) /\ (\A f \in forces : f.expires \in Nat)
  BY DEF TypeInv, TypeOK, StoreTypeOK, Plans, Forces
<1> QED
  BY <1>1, <1>2, <1>3

(* What the guard found absent stays absent as time passes, while nobody    *)
(* adds a control or a force.                                               *)
LEMMA StillUnforced ==
    ASSUME TypeInv, NEW s, UNCHANGED <<controls, forces>>, clock' \in {clock, clock + 1},
           ~ForcesFullCi(s, clock)
    PROVE  ~ForcesFullCi(s, clock)'
<1>1. /\ clock \in Nat /\ \A f \in forces : f.expires \in Nat
      /\ Len(controls) > 0 => LatestControl.at \in Nat
  <2>1. Len(controls) > 0 => LatestControl.at \in Nat
    BY ControlFields
  <2> QED
    BY <2>1, Times
<1>2. ~OmissionDisabled'
  BY DEF ForcesFullCi, OmissionDisabled, LatestControl
<1>3. ~\E f \in forces' : f.subject = s /\ f.expires > clock'
  BY <1>1 DEF ForcesFullCi
<1>4. ~ControlUnavailable(clock)'
  BY <1>1 DEF ForcesFullCi, ControlUnavailable, LatestControl
<1> QED
  BY <1>2, <1>3, <1>4 DEF ForcesFullCi

(* Stored and signed lifetimes stay bounded as time passes. *)
LEMMA LifetimesKept ==
    ASSUME TypeInv, LifetimesBounded, clock' \in {clock, clock + 1},
           \A p \in plans' : \/ p \in plans
                             \/ \E r \in Requests : request[r].pc = "saving"
                                                    /\ p.expires = request[r].expires,
           \A r \in Requests : request'[r].pc \in {"save", "saving"} =>
               \/ /\ request[r].pc \in {"save", "saving"}
                  /\ request'[r].expires = request[r].expires
               \/ request'[r].expires \in Nat /\ SignedUntil(request'[r].expires)
    PROVE  LifetimesBounded'
<1>1. \A x \in Nat : SignedUntil(x) => x <= clock' + Skew + PlanTtl
  BY Times DEF SignedUntil
<1>2. ASSUME NEW p \in plans' PROVE p.expires <= clock' + Skew + PlanTtl
  BY <1>1, Times DEF LifetimesBounded
<1>3. ASSUME NEW r \in Requests, request'[r].pc \in {"save", "saving"}
      PROVE  request'[r].expires <= clock' + Skew + PlanTtl
  BY <1>1, <1>3, Times DEF LifetimesBounded
<1> QED
  BY <1>2, <1>3 DEF LifetimesBounded, SignedUntil

(* Steps that write no control, force, epoch or plan, and validate and sign *)
(* nothing.                                                                 *)
LEMMA GuardKept ==
    ASSUME TypeInv, GuardInv, UNCHANGED <<controls, forces, epoch, plans>>,
           clock' \in {clock, clock + 1},
           \A r \in Requests : request'[r].pc \in {"registering", "save", "saving"} =>
               request'[r] = request[r]
    PROVE  GuardInv'
<1>1. GuardHeld'
  <2> SUFFICES ASSUME NEW r \in Requests, request'[r].pc \in Guarded
               PROVE  /\ PolicyCurrent(EpochOf[request[r].authority])'
                      /\ ~ForcesFullCi(SubjectOf[r], clock)'
    BY DEF GuardHeld
  <2>1. request'[r] = request[r]
    BY DEF Guarded
  <2>2. PolicyCurrent(EpochOf[request[r].authority]) /\ ~ForcesFullCi(SubjectOf[r], clock)
    BY <2>1 DEF GuardInv, GuardHeld
  <2> QED
    BY <2>1, <2>2, StillUnforced DEF PolicyCurrent
<1>2. LifetimesBounded'
  BY LifetimesKept DEF GuardInv
<1> QED
  BY <1>1, <1>2 DEF GuardInv

(* A request whose guard admits it takes the lock. *)
LEMMA GuardTaken ==
    ASSUME TypeInv, GenerationInv, GuardInv, NEW r \in Requests, lock = None,
           RequestGuardAdmits(r, clock), NEW pc \in Guarded, Goto(r, pc),
           pc = "saving" => request[r].pc = "save", UNCHANGED <<clock, tables>>
    PROVE  GuardInv'
<1>1. UNCHANGED <<clock, controls, forces, epoch, plans>>
  BY DEF tables
<1>2. /\ request'[r].pc = pc /\ request'[r].authority = request[r].authority
      /\ request'[r].expires = request[r].expires
      /\ \A q \in Requests \ {r} : request'[q] = request[q]
  BY MovedRequest
<1>3. \A q \in Requests : request[q].pc \notin Guarded
  BY FreeLock DEF Guarded
<1>4. PolicyCurrent(EpochOf[request[r].authority]) /\ ~ForcesFullCi(SubjectOf[r], clock)
  BY DEF RequestGuardAdmits, GuardAdmits
<1>5. PolicyCurrent(EpochOf[request[r].authority])' /\ ~ForcesFullCi(SubjectOf[r], clock)'
  BY <1>1, <1>2, <1>4, StillUnforced DEF PolicyCurrent
<1>6. GuardHeld'
  BY <1>2, <1>3, <1>5 DEF GuardHeld
<1>7. LifetimesBounded'
  BY <1>1, <1>2, LifetimesKept DEF GuardInv, Guarded
<1> QED
  BY <1>6, <1>7 DEF GuardInv

LEMMA GuardIssuance ==
    ASSUME TypeInv, GenerationInv, GuardInv, IssuanceNext
    PROVE  GuardInv'
<1> PICK r \in Requests :
           \/ ResolveOverride(r) \/ LoadActiveEpoch(r) \/ PrepareAuthority(r)
           \/ FallBack(r) \/ RegisterFullCi(r) \/ ValidateRegistration(r)
           \/ CommitRegistration(r) \/ Sign(r) \/ ValidateSave(r)
           \/ CommitSave(r) \/ Cancel(r) \/ Retry(r)
  BY DEF IssuanceNext
<1>f. request \in [Requests -> RequestStates]
  BY DEF TypeInv, TypeOK
<1>k. ASSUME UNCHANGED <<clock, controls, forces, epoch, plans>>,
             request'[r].pc \notin {"registering", "save", "saving"},
             \A q \in Requests \ {r} : request'[q] = request[q]
      PROVE  GuardInv'
  BY <1>k, GuardKept
<1>e. ASSUME UNCHANGED <<clock, controls, forces, epoch, plans>>,
             NEW result \in {"selected", "full_ci", "failed"}, Finish(r, result)
      PROVE  GuardInv'
  BY <1>e, <1>k, EndedRequest
<1>g. ASSUME UNCHANGED <<clock, controls, forces, epoch, plans>>,
             NEW pc \in {"epoch", "sign"}, Goto(r, pc)
      PROVE  GuardInv'
  BY <1>g, <1>k, MovedRequest
<1>1. CASE ResolveOverride(r)
  BY <1>1, <1>e, <1>g DEF ResolveOverride, tables
<1>2. CASE LoadActiveEpoch(r)
  <2>1. UNCHANGED <<clock, controls, forces, epoch, plans>>
    BY <1>2, Zenon DEF LoadActiveEpoch, tables
  <2>2. ASSUME NEW plan \in Candidates,
               request' = [request EXCEPT ![r] =
                              [@ EXCEPT !.pc = "prepare", !.epoch = epoch.id, !.plan = plan]]
        PROVE  GuardInv'
    <3>1. request'[r].pc = "prepare" /\ \A q \in Requests \ {r} : request'[q] = request[q]
      BY <1>f, <2>2 DEF RequestStates
    <3> QED
      BY <1>k, <2>1, <3>1
  <2> QED
    BY <1>2, <1>e, <2>1, <2>2, Zenon DEF LoadActiveEpoch
<1>3. CASE PrepareAuthority(r)
  <2>1. request'[r].pc = "register" /\ \A q \in Requests \ {r} : request'[q] = request[q]
    BY <1>3, <1>f DEF PrepareAuthority, RequestStates
  <2> QED
    BY <1>3, <1>k, <2>1 DEF PrepareAuthority, tables
<1>4. CASE FallBack(r) \/ Cancel(r)
  BY <1>4, <1>e DEF FallBack, Cancel, tables
<1>5. CASE RegisterFullCi(r)
  BY <1>5, <1>e DEF RegisterFullCi
<1>6. CASE ValidateRegistration(r)
  <2>1. lock = None /\ UNCHANGED <<clock, tables>>
    BY <1>6 DEF ValidateRegistration
  <2>2. CASE Finish(r, "full_ci")
    BY <1>e, <2>1, <2>2 DEF tables
  <2>3. CASE RequestGuardAdmits(r, clock) /\ Goto(r, "registering")
    BY <2>1, <2>3, GuardTaken DEF Guarded
  <2> QED
    BY <1>6, <2>2, <2>3 DEF ValidateRegistration
<1>7. CASE CommitRegistration(r)
  <2>1. UNCHANGED <<clock, controls, forces, epoch, plans>>
    BY <1>7 DEF CommitRegistration
  <2> QED
    BY <1>7, <1>e, <1>g, <2>1 DEF CommitRegistration
<1>8. CASE Sign(r)
  <2>1. PICK now \in ProcessTimes :
           request' = [request EXCEPT ![r] =
                         [@ EXCEPT !.pc = "save",
                                   !.expires = LowerOf(now + PlanTtl,
                                                       NotAfterOf[request[r].authority])]]
    BY <1>8, Zenon DEF Sign
  <2>2. UNCHANGED <<clock, controls, forces, epoch, plans>> /\ request[r].authority \in Authorities
    BY <1>8, Zenon DEF Sign, tables, TypeInv, BoundToAuthority
  <2>3. /\ request'[r].pc = "save"
        /\ request'[r].expires = LowerOf(now + PlanTtl, NotAfterOf[request[r].authority])
        /\ \A q \in Requests \ {r} : request'[q] = request[q]
    BY <1>f, <2>1 DEF RequestStates
  <2>n. now \in Nat /\ clock \in Nat
    BY ClockFields
  <2>4. request'[r].expires \in Nat
    <3>1. LowerOf(now + PlanTtl, NotAfterOf[request[r].authority]) \in Nat
      BY <2>n, <2>2, SignedExpiry, Zenon
    <3> QED
      BY <2>3, <3>1, Zenon
  <2>5. SignedUntil(request'[r].expires)
    <3>1. now \in Nat /\ clock \in Nat /\ now <= clock + Skew
      BY <2>n DEF ProcessTimes
    <3>3. LowerOf(now + PlanTtl, NotAfterOf[request[r].authority]) <= clock + Skew + PlanTtl
      BY <2>2, <3>1, SignedExpiry, Zenon
    <3> QED
      BY <2>3, <3>3, Zenon DEF SignedUntil
  <2>6. LifetimesBounded'
    BY <2>2, <2>3, <2>4, <2>5, LifetimesKept DEF GuardInv
  <2>7. GuardHeld'
    <3> SUFFICES ASSUME NEW q \in Requests \ {r}, request[q].pc \in Guarded
                 PROVE  (/\ PolicyCurrent(EpochOf[request[q].authority])
                         /\ ~ForcesFullCi(SubjectOf[q], clock))'
      BY <2>3 DEF GuardHeld, Guarded
    <3>1. PolicyCurrent(EpochOf[request[q].authority]) /\ ~ForcesFullCi(SubjectOf[q], clock)
      BY DEF GuardInv, GuardHeld
    <3> QED
      BY <2>2, <2>3, <3>1, StillUnforced DEF PolicyCurrent
  <2> QED
    BY <2>6, <2>7 DEF GuardInv
<1>9. CASE ValidateSave(r)
  <2>1. lock = None /\ UNCHANGED <<clock, tables>> /\ request[r].pc = "save"
    BY <1>9 DEF ValidateSave
  <2>2. CASE Finish(r, "full_ci")
    BY <1>e, <2>1, <2>2 DEF tables
  <2>3. CASE RequestGuardAdmits(r, clock) /\ Goto(r, "saving")
    BY <2>1, <2>3, GuardTaken DEF Guarded
  <2> QED
    BY <1>9, <2>2, <2>3 DEF ValidateSave
<1>10. CASE CommitSave(r)
  <2> DEFINE new == [subject |-> SubjectOf[r], authority |-> request[r].authority,
                     plan |-> request[r].plan, expires |-> request[r].expires]
  <2>1. /\ UNCHANGED <<clock, controls, forces, epoch>> /\ request[r].pc = "saving"
        /\ plans' = plans \/ plans' = plans \cup {new}
        /\ \E result \in {"selected", "full_ci", "failed"} : Finish(r, result)
    BY <1>10 DEF CommitSave
  <2>2. /\ request'[r].pc \in {"selected", "full_ci", "failed"}
        /\ \A q \in Requests \ {r} : request'[q] = request[q]
    BY <2>1, EndedRequest
  <2>3. GuardHeld'
    <3>1. \A q \in Requests \ {r} : request[q].pc \notin Guarded
      BY <2>1, OneHolder DEF Guarded
    <3> QED
      BY <2>2, <3>1 DEF GuardHeld, Guarded
  <2>4. \A p \in plans' : p \in plans \/ p.expires = request[r].expires
    <3>1. new.expires = request[r].expires
      OBVIOUS
    <3> HIDE DEF new
    <3> QED  BY <2>1, <3>1
  <2>5. LifetimesBounded'
    BY <2>1, <2>2, <2>4, LifetimesKept DEF GuardInv
  <2> QED
    BY <2>3, <2>5 DEF GuardInv
<1>11. CASE Retry(r)
  <2>1. request'[r].pc = "resolve" /\ \A q \in Requests \ {r} : request'[q] = request[q]
    BY <1>11, <1>f DEF Retry, NewRequest
  <2> QED
    BY <1>11, <1>k, <2>1 DEF Retry, tables
<1> QED
  BY <1>1, <1>2, <1>3, <1>4, <1>5, <1>6, <1>7, <1>8, <1>9, <1>10, <1>11

(* Whoever writes under a free lock finds nobody guarded. *)
LEMMA GuardFree ==
    ASSUME TypeInv, GenerationInv, GuardInv, lock = None, UNCHANGED <<clock, plans, request>>
    PROVE  GuardInv'
<1>1. GuardHeld'
  BY FreeLock DEF GuardHeld, Guarded
<1>2. LifetimesBounded'
  BY LifetimesKept DEF GuardInv
<1> QED
  BY <1>1, <1>2 DEF GuardInv

LEMMA GuardControls ==
    ASSUME TypeInv, GenerationInv, GuardInv, ControlsNext, UNCHANGED request
    PROVE  GuardInv'
<1>1. lock = None /\ UNCHANGED <<clock, plans>>
  BY DEF ControlsNext, DisableOmission, EnableOmission, ApplyControl, ForceFullCi, ActivateEpoch
<1> QED
  BY <1>1, GuardFree

LEMMA GuardCutover ==
    ASSUME TypeInv, GenerationInv, GuardInv, CutoverNext, UNCHANGED request
    PROVE  GuardInv'
<1>1. CASE UNCHANGED <<clock, tables>>
  BY <1>1, GuardKept DEF tables
<1>2. CASE Begin \/ \E a \in Authorities : Stage(a)
  <2>1. lock = None /\ UNCHANGED <<clock, plans>>
    BY <1>2 DEF Begin, Stage
  <2> QED
    BY <2>1, GuardFree
<1>3. ASSUME NEW o \in Operators, CommitActivation(o)
      PROVE  GuardInv'
  <2>1. UNCHANGED <<clock, plans>> /\ activation[o].pc = "drained"
    BY <1>3 DEF CommitActivation
  <2>2. GuardHeld'
    <3>1. \A r \in Requests : request[r].pc \notin Guarded
      BY <2>1, OneHolder DEF Guarded
    <3> QED
      BY <3>1 DEF GuardHeld
  <2>3. LifetimesBounded'
    BY <2>1, LifetimesKept DEF GuardInv
  <2> QED
    BY <2>2, <2>3 DEF GuardInv
<1> QED
  BY <1>1, <1>2, <1>3 DEF CutoverNext, ObserveStaged, ValidateActivation, AbandonActivation

LEMMA GuardInvariance == Spec => [](TypeInv /\ GenerationInv /\ GuardInv)
<1>1. TypeInv /\ GenerationInv /\ GuardInv /\ [Next]_vars => GuardInv'
  <2> SUFFICES ASSUME TypeInv, GenerationInv, GuardInv, [Next]_vars
               PROVE  GuardInv'
    OBVIOUS
  <2>1. CASE AdvanceClock
    BY <2>1, GuardKept DEF AdvanceClock, Tick, tables
  <2>2. CASE RoundsNext
    BY <2>2, RoundSteps, GuardKept DEF RoundEffect
  <2>3. CASE UNCHANGED vars
    BY <2>3, GuardKept DEF vars
  <2> QED
    BY <2>1, <2>2, <2>3, GuardControls, GuardCutover, GuardIssuance DEF Next
<1> QED
  BY <1>1, GuardInit, GenerationInvariance, PTL DEF Spec

(* What makes a plan visible, for the step that does. *)
CommitAuthorised ==
    \A p \in plans' \ plans :
        /\ scope.active = p.authority
        /\ scope.latch = NoLatch
        /\ scope.revoked < scope.generation
        /\ PolicyCurrent(EpochOf[p.authority])
        /\ ~ForcesFullCi(p.subject, clock)
        /\ clock < p.expires
        /\ p.expires <= clock + Skew + PlanTtl

(* Everything the guard of a save checked still holds when its plan becomes *)
(* visible, for every instance: the authority serves, its epoch is active,  *)
(* no override forces Full CI and the plan has not expired, because the     *)
(* scope lock is kept from _validate_guard to the commit and CommitSave     *)
(* reads the clock again.  Whatever the wait since it was signed, the plan  *)
(* ends within one lifetime of the commit: no disable committed later is    *)
(* outlived by more.                                                        *)
THEOREM CommitsAuthorised == Spec => PlanCommitsAuthorised
<1>1. TypeInv /\ GenerationInv /\ GuardInv /\ [Next]_vars => [CommitAuthorised]_vars
  <2> SUFFICES ASSUME TypeInv, GenerationInv, GuardInv, Next
               PROVE  CommitAuthorised
    OBVIOUS
  <2>1. CASE UNCHANGED plans
    BY <2>1 DEF CommitAuthorised
  <2>2. ASSUME NEW r \in Requests, CommitSave(r)
        PROVE  CommitAuthorised
    <3> DEFINE new == [subject |-> SubjectOf[r], authority |-> request[r].authority,
                       plan |-> request[r].plan, expires |-> request[r].expires]
    <3>1. CASE ~UNCHANGED plans
      <4>1. plans' = plans \cup {new} /\ request[r].pc = "saving" /\ clock < request[r].expires
        BY <2>2, <3>1 DEF CommitSave
      <4>2. Serves(request[r].authority)
        BY <4>1 DEF GenerationInv, ValidatedUnderLock
      <4>3. PolicyCurrent(EpochOf[request[r].authority]) /\ ~ForcesFullCi(SubjectOf[r], clock)
        BY <4>1 DEF GuardInv, GuardHeld, Guarded
      <4>7. request[r].expires <= clock + Skew + PlanTtl
        BY <4>1, Zenon DEF GuardInv, LifetimesBounded, SignedUntil
      <4>4. \A p \in plans' \ plans : p = new
        BY <4>1
      <4>5. new.subject = SubjectOf[r] /\ new.authority = request[r].authority /\ new.expires = request[r].expires
        OBVIOUS
      <4>6. scope.active = request[r].authority /\ scope.latch = NoLatch /\ scope.revoked < scope.generation
        BY <4>2, Zenon DEF Serves
      <4> HIDE DEF new
      <4> QED
        BY <4>1, <4>3, <4>4, <4>5, <4>6, <4>7, Zenon DEF CommitAuthorised
    <3> QED
      BY <2>1, <3>1
  <2>3. CASE AdvanceClock \/ ControlsNext
    BY <2>1, <2>3 DEF AdvanceClock, tables, ControlsNext, DisableOmission, EnableOmission,
                      ApplyControl, ForceFullCi, ActivateEpoch
  <2>6. CASE RoundsNext
    BY <2>1, <2>6, RoundSteps DEF RoundEffect
  <2>4. CASE CutoverNext
    BY <2>1, <2>4 DEF CutoverNext, Stage, Begin, ObserveStaged, ValidateActivation,
                      CommitActivation, AbandonActivation, tables
  <2>5. CASE IssuanceNext
    BY <2>1, <2>2, <2>5, Zenon
       DEF IssuanceNext, ResolveOverride, LoadActiveEpoch, PrepareAuthority,
       FallBack, RegisterFullCi, ValidateRegistration, CommitRegistration, Sign, ValidateSave,
       Cancel, Retry, tables
  <2> QED
    BY <2>2, <2>3, <2>4, <2>5, <2>6 DEF Next
<1> QED
  BY <1>1, GuardInvariance, PTL DEF Spec, PlanCommitsAuthorised, CommitAuthorised

----------------------------------------------------------------------------
(* The refinement of GenerationHandover, step by step. *)

Serving == scope.latch = NoLatch /\ scope.revoked < scope.generation

OpenNow ==
    {<<"plan", p.subject>> : p \in LivePlans(clock)}
        \cup {<<"subject", s>> : s \in PendingSubjects}

HandoverStep == Handover!Next \/ UNCHANGED Handover!handover

(* The four kinds of step, in the terms of the tables. *)
LEMMA HandoverCloses ==
    ASSUME UNCHANGED scope, OpenNow' \subseteq OpenNow
    PROVE  HandoverStep
<1>1. Handover!Close
  BY DEF Handover!Close, OpenNow
<1> QED
  BY <1>1 DEF HandoverStep, Handover!Next

LEMMA HandoverOpens ==
    ASSUME UNCHANGED scope, Serving, NEW x \in {"plan", "subject"} \X Subjects,
           OpenNow' = OpenNow \cup {x}
    PROVE  HandoverStep
<1>1. Handover!Open(x)
  BY DEF Handover!Open, OpenNow, Serving
<1> QED
  BY <1>1 DEF HandoverStep, Handover!Next

LEMMA HandoverRevokes ==
    ASSUME scope'.generation = scope.generation, ~Serving', OpenNow' = OpenNow
    PROVE  HandoverStep
<1>1. CASE Serving
  <2>1. Handover!Revoke
    BY <1>1 DEF Handover!Revoke, OpenNow, Serving
  <2> QED
    BY <2>1 DEF HandoverStep, Handover!Next
<1>2. CASE ~Serving
  <2>1. UNCHANGED Handover!handover
    BY <1>2 DEF Handover!handover, OpenNow, Serving
  <2> QED
    BY <2>1 DEF HandoverStep
<1> QED
  BY <1>1, <1>2

LEMMA HandoverSucceeds ==
    ASSUME ~Serving, OpenNow = {}, scope'.generation = scope.generation + 1, Serving',
           OpenNow' = {}
    PROVE  HandoverStep
<1>1. Handover!Succeed
  BY DEF Handover!Succeed, OpenNow, Serving
<1> QED
  BY <1>1 DEF HandoverStep, Handover!Next

(* What is open depends on three tables only. *)
LEMMA SameOpen ==
    ASSUME UNCHANGED <<clock, subjects, plans>>
    PROVE  OpenNow' = OpenNow
  BY DEF OpenNow, LivePlans, PendingSubjects

LEMMA HandoverStutters ==
    ASSUME UNCHANGED <<clock, scope, subjects, plans>>
    PROVE  HandoverStep
  BY SameOpen, HandoverCloses

LEMMA HandoverInit == Init => Handover!Init
<1> SUFFICES ASSUME Init PROVE Handover!Init
  OBVIOUS
<1>1. scope = NoScope /\ plans = {} /\ subjects = [s \in Subjects |-> Unregistered]
  BY DEF Init, StoreInit
<1>2. LivePlans(clock) = {} /\ PendingSubjects = {}
  BY <1>1 DEF LivePlans, PendingSubjects, Unregistered
<1>3. scope.generation = 0 /\ ~(scope.revoked < scope.generation)
  <2>1. scope.generation = 0 /\ scope.revoked = 0
    BY <1>1, Zenon DEF NoScope
  <2> QED
    BY <2>1
<1> QED
  BY <1>2, <1>3 DEF Handover!Init

(* begin revokes, activate succeeds a drained generation. *)
LEMMA HandoverCutover ==
    ASSUME TypeInv, GenerationInv, CutoverNext
    PROVE  HandoverStep
<1>s. scope \in ScopeStates /\ scope.generation \in Nat /\ scope.revoked \in Nat
  BY ScopeFields
<1>1. UNCHANGED <<clock, subjects, plans>>
  BY DEF CutoverNext, Stage, Begin, ObserveStaged, ValidateActivation, CommitActivation,
         AbandonActivation, tables
<1>2. CASE UNCHANGED scope
  BY <1>1, <1>2, HandoverStutters
<1>3. ASSUME NEW a \in Authorities, Stage(a)
      PROVE  HandoverStep
  <2>1. /\ scope'.generation = scope.generation /\ scope'.revoked = scope.revoked
        /\ scope'.latch = scope.latch
    BY <1>s, <1>3 DEF Stage, StagedScope, ScopeStates
  <2>2. UNCHANGED Handover!handover
    BY <1>1, <2>1, SameOpen DEF Handover!handover, OpenNow
  <2> QED
    BY <2>2 DEF HandoverStep
<1>4. CASE Begin
  <2>1. PICK l, at : scope' = BegunScope(l, at)
    BY <1>4 DEF Begin, BeginWithExistingDisable, BeginWithNewDisable
  <2>2. scope'.generation = scope.generation /\ scope'.revoked = scope.generation
    BY <1>s, <2>1 DEF BegunScope, ScopeStates
  <2>3. ~Serving'
    BY <1>s, <2>2 DEF Serving
  <2> QED
    BY <1>1, <2>2, <2>3, SameOpen, HandoverRevokes
<1>5. ASSUME NEW o \in Operators, CommitActivation(o)
      PROVE  HandoverStep
  <2>1. CASE /\ ActivationStillAdmitted(activation[o], clock)
             /\ scope' = ActivatedScope(activation[o].authority)
    <3>1. /\ scope.latch # NoLatch
          /\ GenerationOf[activation[o].authority] = scope.generation + 1
      BY <2>1 DEF ActivationStillAdmitted, DrainMatches
    <3>2. /\ scope'.generation = scope.generation + 1 /\ scope'.revoked = scope.revoked
          /\ scope'.latch = NoLatch
      BY <1>s, <2>1, <3>1 DEF ActivatedScope, ScopeStates
    <3>3. LocalDrainComplete(clock)
      BY <1>5 DEF CommitActivation, GenerationInv, ValidatedUnderLock
    <3>4. OpenNow = {}
      <4>1. LivePlans(clock) = {} /\ PendingSubjects = {}
        BY <3>3 DEF LocalDrainComplete, UnsettledSubjects, PendingSubjects
      <4> QED
        BY <4>1 DEF OpenNow
    <3>5. scope.revoked <= scope.generation
      BY DEF GenerationInv, ScopeRowReadable, WellFormedScope
    <3>6. ~Serving /\ Serving'
      <4>1. scope.revoked < scope.generation + 1
        BY <1>s, <3>5, Successors, Zenon
      <4> QED
        BY <3>1, <3>2, <4>1, Zenon DEF Serving
    <3> QED
      BY <1>1, <3>2, <3>4, <3>6, SameOpen, HandoverSucceeds
  <2> QED
    BY <1>2, <1>5, <2>1 DEF CommitActivation
<1> QED
  BY <1>2, <1>3, <1>4, <1>5 DEF CutoverNext, ObserveStaged, ValidateActivation,
     AbandonActivation, tables

(* A commit opens what it stores while its authority serves. *)
LEMMA HandoverIssuance ==
    ASSUME TypeInv, GenerationInv, IssuanceNext
    PROVE  HandoverStep
<1> PICK r \in Requests :
           \/ ResolveOverride(r) \/ LoadActiveEpoch(r) \/ PrepareAuthority(r)
           \/ FallBack(r) \/ RegisterFullCi(r) \/ ValidateRegistration(r)
           \/ CommitRegistration(r) \/ Sign(r) \/ ValidateSave(r)
           \/ CommitSave(r) \/ Cancel(r) \/ Retry(r)
  BY DEF IssuanceNext
<1>s. subjects \in [Subjects -> SubjectRows] /\ SubjectOf[r] \in Subjects
  BY DEF TypeInv, TypeOK, StoreTypeOK
<1>1. CASE UNCHANGED <<clock, scope, subjects, plans>>
  BY <1>1, HandoverStutters
<1>2. request[r].pc \in {"registering", "saving"} => Serving
  BY DEF GenerationInv, ValidatedUnderLock, Serves, Serving
<1>3. CASE RegisterFullCi(r)
  <2>1. UNCHANGED <<clock, scope, plans>>
    BY <1>3 DEF RegisterFullCi
  <2>2. PendingSubjects' \subseteq PendingSubjects
    BY <1>s, <1>3 DEF RegisterFullCi, PendingSubjects, FullCiRow, Unregistered
  <2>3. OpenNow' \subseteq OpenNow
    BY <2>1, <2>2 DEF OpenNow, LivePlans
  <2> QED
    BY <2>1, <2>3, HandoverCloses
<1>4. CASE CommitRegistration(r) /\ ~UNCHANGED subjects
  <2>1. /\ UNCHANGED <<clock, scope, plans>> /\ request[r].pc = "registering"
        /\ subjects' = [subjects EXCEPT ![SubjectOf[r]] =
                           SelectedRow(request[r].authority, request[r].plan)]
    BY <1>4 DEF CommitRegistration
  <2>2. PendingSubjects' = PendingSubjects \cup {SubjectOf[r]}
    <3>1. PICK new : new = SelectedRow(request[r].authority, request[r].plan)
      OBVIOUS
    <3>2. new.origin = "selected" /\ new.progress = "pending"
      BY <3>1 DEF SelectedRow
    <3>3. \A s \in Subjects : subjects'[s] = IF s = SubjectOf[r] THEN new ELSE subjects[s]
      BY <1>s, <2>1, <3>1
    <3>4. \A s \in Subjects :
             s \in PendingSubjects' <=> s \in PendingSubjects \/ s = SubjectOf[r]
      BY <1>s, <3>2, <3>3, Zenon DEF PendingSubjects
    <3>5. PendingSubjects \subseteq Subjects /\ PendingSubjects' \subseteq Subjects
      BY Zenon DEF PendingSubjects
    <3> QED  BY <1>s, <3>4, <3>5, Zenon
  <2>3. OpenNow' = OpenNow \cup {<<"subject", SubjectOf[r]>>}
    BY <2>1, <2>2 DEF OpenNow, LivePlans
  <2> QED
    BY <1>s, <1>2, <2>1, <2>3, HandoverOpens, Zenon
<1>5. CASE CommitSave(r) /\ ~UNCHANGED plans
  <2> DEFINE new == [subject |-> SubjectOf[r], authority |-> request[r].authority,
                     plan |-> request[r].plan, expires |-> request[r].expires]
  <2>1. /\ UNCHANGED <<clock, scope, subjects>> /\ request[r].pc = "saving"
        /\ plans' = plans \cup {new} /\ clock < request[r].expires
    BY <1>5 DEF CommitSave
  <2>f. new.subject = SubjectOf[r] /\ new.expires > clock
    BY <2>1, Times
  <2> HIDE DEF new
  <2>2. LivePlans(clock)' = LivePlans(clock) \cup {new}
    BY <2>1, <2>f DEF LivePlans
  <2>3. OpenNow' = OpenNow \cup {<<"plan", SubjectOf[r]>>}
    BY <2>1, <2>2, <2>f DEF OpenNow, PendingSubjects
  <2> QED
    BY <1>s, <1>2, <2>1, <2>3, HandoverOpens, Zenon
<1>6. CASE CommitRegistration(r) /\ UNCHANGED subjects
  BY <1>1, <1>6 DEF CommitRegistration
<1>7. CASE CommitSave(r) /\ UNCHANGED plans
  BY <1>1, <1>7 DEF CommitSave
<1> QED
  BY <1>1, <1>3, <1>4, <1>5, <1>6, <1>7, Zenon
     DEF ResolveOverride, LoadActiveEpoch, PrepareAuthority,
     FallBack, ValidateRegistration, Sign, ValidateSave, Cancel, Retry, tables

(* The production system implements the handover, for every instance:      *)
(* registrations and saves open executions only while their generation      *)
(* serves, expiry and a first result close them, begin revokes, activate    *)
(* installs the successor only when nothing of its predecessor is open, and *)
(* no late claim or observation opens an execution again.                   *)
THEOREM HandoverImplemented == Spec => ImplementsHandover
<1>1. TypeInv /\ GenerationInv /\ [Next]_vars => [Handover!Next]_Handover!handover
  <2> SUFFICES ASSUME TypeInv, GenerationInv, [Next]_vars
               PROVE  HandoverStep
    BY DEF HandoverStep
  <2>1. CASE AdvanceClock
    <3>1. UNCHANGED <<scope, subjects, plans>> /\ clock' = clock + 1
      BY <2>1 DEF AdvanceClock, Tick, tables
    <3>2. LivePlans(clock)' \subseteq LivePlans(clock)
      <4>1. \A p \in plans : p.expires > clock + 1 => p.expires > clock
        BY Times
      <4> QED
        BY <3>1, <4>1, Zenon DEF LivePlans
    <3>3. OpenNow' \subseteq OpenNow
      BY <3>1, <3>2 DEF OpenNow, PendingSubjects
    <3> QED
      BY <3>1, <3>3, HandoverCloses
  <2>2. CASE RoundsNext
    <3>0. RoundEffect
      BY <2>2, RoundSteps
    <3>1. UNCHANGED <<scope, clock, plans>>
      BY <3>0, Zenon DEF RoundEffect
    <3>2. PendingSubjects' \subseteq PendingSubjects
      BY <3>0, Zenon DEF RoundEffect, PendingSubjects
    <3>3. OpenNow' \subseteq OpenNow
      BY <3>1, <3>2 DEF OpenNow, LivePlans
    <3> QED
      BY <3>1, <3>3, HandoverCloses
  <2>3. CASE UNCHANGED vars
    BY <2>3, HandoverStutters DEF vars
  <2>4. CASE ControlsNext
    BY <2>4, HandoverStutters DEF ControlsNext, DisableOmission, EnableOmission, ApplyControl,
       ForceFullCi, ActivateEpoch
  <2> QED
    BY <2>1, <2>2, <2>3, <2>4, HandoverCutover, HandoverIssuance DEF Next
<1> QED
  BY <1>1, HandoverInit, GenerationInvariance, PTL DEF Spec, ImplementsHandover, Handover!Spec

=============================================================================
