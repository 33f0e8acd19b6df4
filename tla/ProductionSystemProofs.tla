----------------------- MODULE ProductionSystemProofs ----------------------
(***************************************************************************)
(* Proofs about ProductionSystem, for every set of authorities, subjects,  *)
(* requests and operators and every value of the bounds: types, and then   *)
(* generation isolation.                                                   *)
(*                                                                         *)
(* No selected plan and no open reconciliation of a superseded generation  *)
(* survives an activation, and the cutover latch keeps omission disabled   *)
(* until then.  None of these facts is inductive alone.  The argument is   *)
(* about who holds the repository scope lock: what a transaction validated *)
(* under the lock (the authority serves; the predecessor has drained) is   *)
(* still true when it commits, because every step that could undo it       *)
(* waits.                                                                  *)
(***************************************************************************)
EXTENDS ProductionSystem, TLAPS


(* A request that has been authorised names its authority, epoch and plan;  *)
(* an activation in flight names the staged authority it observed.          *)
BoundToAuthority ==
    /\ \A r \in Requests :
          request[r].pc \in {"register", "registering", "sign", "save", "saving"} =>
             /\ request[r].authority \in Authorities
             /\ request[r].epoch \in Epochs
             /\ request[r].plan \in Candidates
    /\ \A r \in Requests : request[r].pc = "prepare" =>
          request[r].epoch \in Epochs /\ request[r].plan \in Candidates
    /\ \A o \in Operators : activation[o].pc # "idle" => activation[o].authority \in Authorities
    /\ epoch.revision > 0 => epoch.id \in Epochs

TypeInv == TypeOK /\ BoundToAuthority

USE StoreAssumption, ControlsAssumption, CutoverAssumption, IssuanceAssumption

LEMMA ScopeFields ==
    ASSUME TypeInv
    PROVE  /\ scope \in ScopeStates
           /\ scope.revision \in Nat /\ scope.revision + 1 \in Nat
           /\ scope.generation \in Nat
           /\ scope.revoked \in Nat
           /\ scope.active \in Authorities \cup {None}
           /\ scope.staged \in Authorities \cup {None}
           /\ scope.latch \in Nat
           /\ scope.latchAt \in Nat
  BY DEF TypeInv, TypeOK, StoreTypeOK, ScopeStates

LEMMA ClockFields ==
    ASSUME TypeInv
    PROVE  /\ clock \in Nat
           /\ \A t \in ProcessTimes : t \in Nat
           /\ \A t \in EarlierTimes : t \in Nat
  BY DEF TypeInv, TypeOK, StoreTypeOK, ProcessTimes, EarlierTimes

LEMMA EpochFields ==
    ASSUME TypeInv, epoch.revision # 0
    PROVE  epoch.id \in Epochs
  <1>1. epoch.revision \in Nat
    BY DEF TypeInv, TypeOK, StoreTypeOK
  <1> QED
    BY <1>1 DEF TypeInv, BoundToAuthority

LEMMA ControlTypes ==
    \A l, t \in Nat : Disable(t) \in Controls /\ Enable(l, t) \in Controls
  BY DEF Disable, Enable, Controls

LEMMA SignedExpiry ==
    ASSUME NEW t \in Nat, NEW a \in Authorities
    PROVE  /\ LowerOf(t + PlanTtl, NotAfterOf[a]) \in Nat
           /\ LowerOf(t + PlanTtl, NotAfterOf[a]) <= NotAfterOf[a]
           /\ \A c \in Nat : t <= c + Skew =>
                 LowerOf(t + PlanTtl, NotAfterOf[a]) <= c + Skew + PlanTtl
  BY DEF LowerOf

LEMMA Successors == \A m, n \in Nat : m <= n =>
                       m < n + 1 /\ m <= n + 1 /\ n + 1 # 0 /\ n + 1 >= 1
  OBVIOUS

LEMMA UpdatedRow ==
    ASSUME NEW S, NEW T, NEW f \in [S -> T], NEW x, NEW y \in T
    PROVE  [f EXCEPT ![x] = y] \in [S -> T]
  OBVIOUS

LEMMA ObservedActivation ==
    ASSUME TypeInv, scope.staged \in Authorities, NEW drainedAt \in 0 .. clock
    PROVE  [pc |-> "observed", authority |-> scope.staged, revision |-> scope.revision,
            startedAt |-> clock, latch |-> scope.latch, drainedAt |-> drainedAt] \in Activations
  <1>1. clock \in Nat /\ drainedAt \in Nat /\ scope.revision \in Nat /\ scope.latch \in Nat
    BY ScopeFields, ClockFields
  <1> QED
    BY <1>1, Zenon DEF Activations

(* The three rows a cutover writes are scope rows. *)
LEMMA CutoverRows ==
    ASSUME TypeInv, NEW a \in Authorities, NEW l \in Nat, NEW t \in Nat
    PROVE  /\ StagedScope(a) \in ScopeStates
           /\ BegunScope(l, t) \in ScopeStates
           /\ ActivatedScope(a) \in ScopeStates
  <1>1. /\ scope \in ScopeStates /\ scope.revision + 1 \in Nat /\ scope.generation \in Nat
        /\ GenerationOf[a] \in Nat /\ NoLatch \in Nat /\ 0 \in Nat
    BY ScopeFields DEF NoLatch
  <1>2. StagedScope(a) \in ScopeStates
    BY <1>1, Zenon DEF StagedScope, ScopeStates
  <1>3. BegunScope(l, t) \in ScopeStates
    BY <1>1, Zenon DEF BegunScope, ScopeStates
  <1>4. ActivatedScope(a) \in ScopeStates
    BY <1>1, Zenon DEF ActivatedScope, ScopeStates
  <1> QED
    BY <1>2, <1>3, <1>4

(* Moving an activation to another place keeps its shape. *)
LEMMA ActivationMoves ==
    ASSUME TypeInv, NEW o \in Operators, NEW act \in Activations
    PROVE  /\ [activation EXCEPT ![o] = act] \in [Operators -> Activations]
           /\ [activation EXCEPT ![o].pc = "drained"] \in [Operators -> Activations]
           /\ NoActivation \in Activations
  <1>1. activation \in [Operators -> Activations]
    BY DEF TypeInv, TypeOK
  <1>2. [activation[o] EXCEPT !.pc = "drained"] \in Activations
    BY <1>1, Zenon DEF Activations
  <1>3. NoActivation \in Activations
    BY DEF NoActivation, Activations, NoLatch
  <1> QED
    BY <1>1, <1>2, <1>3

LEMMA NewRequestType == NewRequest \in RequestStates
  BY DEF NewRequest, RequestStates, RequestPcs

(* So does moving a request. *)
LEMMA RequestMoves ==
    ASSUME TypeInv, NEW r \in Requests, NEW pc \in RequestPcs
    PROVE  /\ [request[r] EXCEPT !.pc = pc] \in RequestStates
           /\ [NewRequest EXCEPT !.pc = pc] \in RequestStates
           /\ [request EXCEPT ![r].pc = pc] \in [Requests -> RequestStates]
           /\ [request EXCEPT ![r] = [NewRequest EXCEPT !.pc = pc]] \in [Requests -> RequestStates]
  <1>1. request \in [Requests -> RequestStates] /\ request[r] \in RequestStates
    BY DEF TypeInv, TypeOK
  <1>2. \A q \in RequestStates : [q EXCEPT !.pc = pc] \in RequestStates
    BY Zenon DEF RequestStates
  <1>4. [NewRequest EXCEPT !.pc = pc] \in RequestStates
    BY NewRequestType, Zenon DEF RequestStates
  <1> QED
    BY <1>1, <1>2, <1>4

LEMMA ActivationFields ==
    ASSUME TypeInv, NEW o \in Operators
    PROVE  /\ activation[o].revision \in Nat
           /\ activation[o].startedAt \in Nat
           /\ activation[o].latch \in Nat
           /\ activation[o].drainedAt \in Nat
           /\ activation[o].authority \in Authorities \cup {None}
  BY DEF TypeInv, TypeOK, Activations

LEMMA ControlFields ==
    ASSUME TypeInv
    PROVE  /\ Len(controls) \in Nat
           /\ Len(controls) + 1 \in Nat
           /\ \A n \in 1 .. Len(controls) : n \in Nat
           /\ \A c \in Controls : Append(controls, c) \in Seq(Controls)
           /\ Len(controls) > 0 => /\ LatestControl \in Controls
                                   /\ LatestControl.at \in Nat
  <1>1. controls \in Seq(Controls)
    BY DEF TypeInv, TypeOK, StoreTypeOK
  <1>2. Len(controls) \in Nat /\ \A c \in Controls : Append(controls, c) \in Seq(Controls)
    BY <1>1
  <1>3. Len(controls) > 0 => LatestControl \in Controls
    BY <1>1 DEF LatestControl
  <1> QED
    BY <1>2, <1>3 DEF Controls

LEMMA TypeInit == Init => TypeInv
  BY DEF Init, StoreInit, CutoverInit, IssuanceInit, TypeInv, TypeOK, StoreTypeOK,
         BoundToAuthority, NoScope, ScopeStates, NoLatch, Unregistered, SubjectRows, Progress,
         NoActivation, Activations, NewRequest, RequestStates, RequestPcs

(* The controls keep the shapes of every table they write. *)
LEMMA TypeControls ==
    TypeInv /\ ControlsNext /\ UNCHANGED <<activation, request>> => TypeInv'
<1> SUFFICES ASSUME TypeInv, ControlsNext, UNCHANGED <<activation, request>>
             PROVE  TypeInv'
  OBVIOUS
<1> USE DEF TypeInv, TypeOK, StoreTypeOK, BoundToAuthority
<1>1. ASSUME NEW c \in Controls, ApplyControl(c)
      PROVE  TypeInv'
  <2>1. Append(controls, c) \in Seq(Controls)
    BY ControlFields, Zenon
  <2> QED
    BY <1>1, <2>1, Zenon DEF ApplyControl
<1>2. CASE DisableOmission
  <2>1. PICK at \in EarlierTimes : ApplyControl(Disable(at))
    BY <1>2 DEF DisableOmission
  <2>2. Disable(at) \in Controls
    BY ClockFields, ControlTypes
  <2> QED
    BY <1>1, <2>1, <2>2
<1>3. CASE EnableOmission
  <2>1. PICK at \in EarlierTimes, target \in 1 .. Len(controls) :
           ApplyControl(Enable(target, at))
    BY <1>3 DEF EnableOmission
  <2>2. Enable(target, at) \in Controls
    <3>1. at \in Nat
      BY ClockFields, Zenon
    <3>2. target \in Nat
      BY ControlFields, Zenon
    <3> QED
      BY <3>1, <3>2, ControlTypes, Zenon
  <2> QED
    BY <1>1, <2>1, <2>2
<1>4. ASSUME NEW s \in Subjects, ForceFullCi(s)
      PROVE  TypeInv'
  <2>1. PICK at \in EarlierTimes, expires \in ForceExpiries :
           forces' = forces \cup {[subject |-> s, at |-> at, expires |-> expires]}
    BY <1>4, Zenon DEF ForceFullCi
  <2>2. at \in Nat /\ expires \in Nat
    BY ControlsAssumption, ClockFields
  <2>3. forces' \subseteq Forces
    BY <2>1, <2>2 DEF Forces
  <2> QED
    BY <1>4, <2>3 DEF ForceFullCi
<1>5. ASSUME NEW e \in Epochs, ActivateEpoch(e)
      PROVE  TypeInv'
  BY <1>5 DEF ActivateEpoch
<1> QED
  BY <1>2, <1>3, <1>4, <1>5 DEF ControlsNext

(* So do stage, begin and the steps of an activation. *)
LEMMA TypeCutover ==
    TypeInv /\ CutoverNext /\ UNCHANGED request => TypeInv'
<1> SUFFICES ASSUME TypeInv, CutoverNext, UNCHANGED request
             PROVE  TypeInv'
  OBVIOUS
<1> USE DEF TypeInv, TypeOK, StoreTypeOK, BoundToAuthority, NoLatch
<1>1. ASSUME NEW a \in Authorities, Stage(a)
      PROVE  TypeInv'
  <2>1. scope' \in ScopeStates
    BY <1>1, CutoverRows DEF Stage
  <2> QED
    BY <1>1, <2>1 DEF Stage
<1>2. CASE Begin
  <2>3. PICK a \in Authorities : TRUE
    BY <1>2, ScopeFields DEF Begin, NamesAuthority
  <2>1. CASE BeginWithExistingDisable
    <3>1. Len(controls) \in Nat /\ LatestControl.at \in Nat
      BY <2>1, ControlFields DEF BeginWithExistingDisable, OmissionDisabled
    <3>2. scope' \in ScopeStates
      BY <1>2, <2>1, <3>1, <2>3, CutoverRows DEF BeginWithExistingDisable
    <3> QED
      BY <1>2, <2>1, <3>2 DEF Begin, BeginWithExistingDisable
  <2>2. CASE BeginWithNewDisable
    <3>1. Disable(clock) \in Controls
      BY ClockFields, ControlTypes
    <3>2. scope' \in ScopeStates
      <4>1. Len(controls) + 1 \in Nat /\ clock \in Nat
        BY ControlFields, ClockFields, Zenon
      <4> QED
        BY <2>2, <4>1, <2>3, CutoverRows DEF BeginWithNewDisable
    <3>3. Append(controls, Disable(clock)) \in Seq(Controls)
      BY <3>1, ControlFields, Zenon
    <3> QED
      BY <1>2, <2>2, <3>2, <3>3, Zenon DEF Begin, BeginWithNewDisable
  <2> QED
    BY <1>2, <2>1, <2>2 DEF Begin
<1>3. ASSUME NEW o \in Operators, ObserveStaged(o)
      PROVE  TypeInv'
  <2>1. PICK drainedAt \in 0 .. clock :
           activation' = [activation EXCEPT ![o] =
              [pc |-> "observed", authority |-> scope.staged,
               revision |-> scope.revision, startedAt |-> clock,
               latch |-> scope.latch, drainedAt |-> drainedAt]]
    BY <1>3, Zenon DEF ObserveStaged
  <2>2. scope.staged \in Authorities
    BY <1>3, ScopeFields DEF ObserveStaged
  <2>3. activation' \in [Operators -> Activations]
    <3>1. [pc |-> "observed", authority |-> scope.staged, revision |-> scope.revision,
           startedAt |-> clock, latch |-> scope.latch, drainedAt |-> drainedAt] \in Activations
      BY <2>2, ObservedActivation
    <3> QED
      BY <2>1, <3>1, ActivationMoves
  <2>4. \A q \in Operators : activation'[q].pc # "idle" => activation'[q].authority \in Authorities
    BY <2>1, <2>2
  <2> QED
    BY <1>3, <2>3, <2>4 DEF ObserveStaged, tables
<1>4. ASSUME NEW o \in Operators, ValidateActivation(o)
      PROVE  TypeInv'
  <2>1. activation' \in [Operators -> Activations]
    <3>1. NoActivation \in Activations
      BY DEF NoActivation, Activations
    <3>2. CASE activation' = [activation EXCEPT ![o].pc = "drained"]
      BY <3>1, <3>2, ActivationMoves, Zenon
    <3>3. CASE activation' = [activation EXCEPT ![o] = NoActivation]
      BY <3>1, <3>3
    <3> QED
      BY <1>4, <3>2, <3>3 DEF ValidateActivation
  <2>2. \A q \in Operators : activation'[q].pc # "idle" => activation'[q].authority \in Authorities
    <3>1. CASE activation' = [activation EXCEPT ![o].pc = "drained"]
      BY <1>4, <3>1 DEF ValidateActivation
    <3>2. CASE activation' = [activation EXCEPT ![o] = NoActivation]
      BY <3>2 DEF NoActivation
    <3> QED
      BY <1>4, <3>1, <3>2 DEF ValidateActivation
  <2>3. lock' \in Requests \cup Operators \cup {None}
    BY <1>4 DEF ValidateActivation
  <2> QED
    BY <1>4, <2>1, <2>2, <2>3 DEF ValidateActivation, tables
<1>5. ASSUME NEW o \in Operators, CommitActivation(o)
      PROVE  TypeInv'
  <2>1. activation[o].authority \in Authorities
    BY <1>5 DEF CommitActivation
  <2>2. ActivatedScope(activation[o].authority) \in ScopeStates
    BY <2>1, CutoverRows
  <2>3. Enable(scope.latch, clock) \in Controls
    BY ScopeFields, ClockFields, ControlTypes
  <2>4. scope' \in ScopeStates /\ controls' \in Seq(Controls)
    <3>1. Append(controls, Enable(scope.latch, clock)) \in Seq(Controls)
      BY <2>3
    <3> QED
      BY <1>5, <2>2, <3>1, Zenon DEF CommitActivation
  <2>5. activation' \in [Operators -> Activations]
    BY <1>5, ActivationMoves, Zenon DEF CommitActivation
  <2>6. \A q \in Operators : activation'[q].pc # "idle" => activation'[q].authority \in Authorities
    BY <1>5 DEF CommitActivation, NoActivation
  <2> QED
    BY <1>5, <2>4, <2>5, <2>6 DEF CommitActivation
<1>6. ASSUME NEW o \in Operators, AbandonActivation(o)
      PROVE  TypeInv'
  BY <1>6, Zenon DEF AbandonActivation, tables, Activations, NoActivation
<1> QED
  BY <1>1, <1>2, <1>3, <1>4, <1>5, <1>6, Zenon DEF CutoverNext

(* And the steps of a plan request. *)
LEMMA TypeIssuance ==
    TypeInv /\ IssuanceNext /\ UNCHANGED activation => TypeInv'
<1> SUFFICES ASSUME TypeInv, NEW r \in Requests, UNCHANGED activation,
                    \/ ResolveOverride(r) \/ LoadActiveEpoch(r) \/ PrepareAuthority(r)
                    \/ FallBack(r) \/ RegisterFullCi(r) \/ ValidateRegistration(r)
                    \/ CommitRegistration(r) \/ Sign(r) \/ ValidateSave(r)
                    \/ CommitSave(r) \/ Cancel(r) \/ Retry(r)
             PROVE  TypeInv'
  BY DEF IssuanceNext
<1> USE DEF TypeInv, TypeOK, StoreTypeOK, BoundToAuthority
<1>r. request \in [Requests -> RequestStates] /\ request[r] \in RequestStates
  OBVIOUS
<1>p. {"prepare", "register", "save"} \subseteq RequestPcs
  BY DEF RequestPcs
<1>f. ASSUME NEW res \in {"selected", "full_ci", "failed"}, Finish(r, res)
      PROVE  /\ request' \in [Requests -> RequestStates]
             /\ request'[r].pc = res
             /\ \A q \in Requests \ {r} : request'[q] = request[q]
  <2>1. res \in RequestPcs
    BY DEF RequestPcs
  <2>2. request' = [request EXCEPT ![r] = [NewRequest EXCEPT !.pc = res]]
    BY <1>f DEF Finish
  <2>3. request' \in [Requests -> RequestStates]
    BY <2>1, <2>2, RequestMoves, Zenon
  <2> QED
    BY <1>r, <2>2, <2>3 DEF NewRequest
<1>g. ASSUME NEW pc \in {"epoch", "registering", "sign", "saving"}, Goto(r, pc)
      PROVE  /\ request' \in [Requests -> RequestStates]
             /\ request'[r].pc = pc
             /\ request'[r].authority = request[r].authority
             /\ request'[r].epoch = request[r].epoch
             /\ request'[r].plan = request[r].plan
             /\ \A q \in Requests \ {r} : request'[q] = request[q]
  <2>1. request' = [request EXCEPT ![r].pc = pc]
    BY <1>g DEF Goto
  <2>2. request' \in [Requests -> RequestStates]
    <3>1. pc \in RequestPcs
      BY DEF RequestPcs
    <3> QED
      BY <2>1, <3>1, RequestMoves, Zenon
  <2> QED
    BY <1>r, <2>1, <2>2 DEF RequestStates
<1>1. CASE ResolveOverride(r)
  <2>1. CASE Finish(r, "full_ci")
    BY <1>1, <2>1, <1>f, Zenon DEF ResolveOverride, tables
  <2>2. CASE Goto(r, "epoch")
    BY <1>1, <2>2, <1>g, ZenonT(30) DEF ResolveOverride, tables
  <2> QED
    BY <1>1, <2>1, <2>2 DEF ResolveOverride
<1>2. CASE LoadActiveEpoch(r)
  <2>1. CASE Finish(r, "full_ci")
    BY <1>2, <2>1, <1>f, Zenon DEF LoadActiveEpoch, tables
  <2>2. CASE epoch.revision # 0
    <3>1. epoch.id \in Epochs
      BY <2>2, EpochFields
    <3>2. PICK plan \in Candidates :
             request' = [request EXCEPT ![r] =
                            [@ EXCEPT !.pc = "prepare", !.epoch = epoch.id, !.plan = plan]]
      BY <1>2, <2>2, Zenon DEF LoadActiveEpoch
    <3>3. request' \in [Requests -> RequestStates]
      <4>1. [request[r] EXCEPT !.pc = "prepare", !.epoch = epoch.id, !.plan = plan]
               \in RequestStates
        BY <3>1, <1>p, <1>r, Zenon DEF RequestStates
      <4> QED
        BY <3>2, <4>1
    <3>4. /\ request'[r].pc = "prepare" /\ request'[r].epoch \in Epochs
          /\ request'[r].plan \in Candidates
          /\ \A q \in Requests \ {r} : request'[q] = request[q]
      BY <3>1, <3>2 DEF RequestStates
    <3> QED
      BY <1>2, <3>3, <3>4, Zenon DEF LoadActiveEpoch, tables
  <2> QED
    BY <1>2, <2>1, <2>2, Zenon DEF LoadActiveEpoch
<1>3. CASE PrepareAuthority(r)
  <2>1. /\ request' = [request EXCEPT ![r] =
                          [@ EXCEPT !.pc = "register", !.authority = scope.active,
                                    !.revision = scope.revision, !.startedAt = clock]]
        /\ scope.active # None
    BY <1>3 DEF PrepareAuthority, Preauthorizes
  <2>2. scope.active \in Authorities /\ scope.revision \in Nat /\ clock \in Nat
    BY <2>1, ScopeFields, ClockFields, Zenon
  <2>3. request' \in [Requests -> RequestStates]
    <3>1. [request[r] EXCEPT !.pc = "register", !.authority = scope.active,
                             !.revision = scope.revision, !.startedAt = clock] \in RequestStates
      BY <2>2, <1>p, <1>r, Zenon DEF RequestStates
    <3> QED
      BY <2>1, <3>1
  <2>4. /\ request'[r].pc = "register" /\ request'[r].authority \in Authorities
        /\ request'[r].epoch = request[r].epoch /\ request'[r].plan = request[r].plan
        /\ \A q \in Requests \ {r} : request'[q] = request[q]
    BY <2>1, <2>2 DEF RequestStates
  <2> QED
    BY <1>3, <2>3, <2>4 DEF PrepareAuthority, tables
<1>4. CASE FallBack(r)
  BY <1>4, <1>f, Zenon DEF FallBack, tables
<1>5. CASE RegisterFullCi(r)
  <2>1. FullCiRow(request[r].plan) \in SubjectRows
    BY <1>5, Zenon DEF RegisterFullCi, FullCiRow, Unregistered, SubjectRows, Progress
  <2>2. subjects' \in [Subjects -> SubjectRows]
    BY <1>5, <2>1 DEF RegisterFullCi
  <2> QED
    BY <1>5, <1>f, <2>2 DEF RegisterFullCi
<1>6. CASE ValidateRegistration(r)
  <2>1. CASE lock' = None /\ Finish(r, "full_ci")
    BY <1>6, <2>1, <1>f, Zenon DEF ValidateRegistration, tables
  <2>2. CASE lock' = r /\ Goto(r, "registering")
    BY <1>6, <2>2, <1>g, ZenonT(30) DEF ValidateRegistration, tables
  <2> QED
    BY <1>6, <2>1, <2>2 DEF ValidateRegistration
<1>7. CASE CommitRegistration(r)
  <2>1. SelectedRow(request[r].authority, request[r].plan) \in SubjectRows
    BY <1>7 DEF CommitRegistration, SelectedRow, SubjectRows, Progress
  <2>2. subjects' \in [Subjects -> SubjectRows]
    <3>1. \/ UNCHANGED subjects
          \/ subjects' = [subjects EXCEPT ![SubjectOf[r]] =
                             SelectedRow(request[r].authority, request[r].plan)]
      BY <1>7, Zenon DEF CommitRegistration
    <3>2. subjects \in [Subjects -> SubjectRows]
      BY Zenon DEF TypeInv, TypeOK, StoreTypeOK
    <3>3. [subjects EXCEPT ![SubjectOf[r]] = SelectedRow(request[r].authority, request[r].plan)]
             \in [Subjects -> SubjectRows]
      BY <2>1, <3>2, UpdatedRow, Zenon
    <3> QED
      BY <3>1, <3>2, <3>3, Zenon
  <2> QED
    <3>1. CASE Finish(r, "full_ci")
      BY <1>7, <2>2, <3>1, <1>f, Zenon DEF CommitRegistration
    <3>2. CASE Goto(r, "sign")
      BY <1>7, <2>2, <3>2, <1>g, Zenon DEF CommitRegistration
    <3> QED
      BY <1>7, <3>1, <3>2 DEF CommitRegistration
<1>8. CASE Sign(r)
  <2> DEFINE Expires(now) == LowerOf(now + PlanTtl, NotAfterOf[request[r].authority])
  <2>1. PICK now \in ProcessTimes :
           request' = [request EXCEPT ![r] =
                          [@ EXCEPT !.pc = "save", !.expires = Expires(now)]]
    BY <1>8, Zenon DEF Sign
  <2>2. Expires(now) \in Nat
    BY <1>8, ClockFields, SignedExpiry, Zenon DEF Sign
  <2> HIDE DEF Expires
  <2>3. request' \in [Requests -> RequestStates]
    <3>1. [request[r] EXCEPT !.pc = "save", !.expires = Expires(now)] \in RequestStates
      BY <2>2, <1>p, <1>r, Zenon DEF RequestStates
    <3> QED
      BY <2>1, <3>1
  <2>4. /\ request'[r].pc = "save" /\ request'[r].authority = request[r].authority
        /\ request'[r].epoch = request[r].epoch /\ request'[r].plan = request[r].plan
        /\ \A q \in Requests \ {r} : request'[q] = request[q]
    BY <2>1 DEF RequestStates
  <2> QED
    BY <1>8, <2>3, <2>4, Zenon DEF Sign, tables
<1>9. CASE ValidateSave(r)
  <2>1. CASE lock' = None /\ Finish(r, "full_ci")
    BY <1>9, <2>1, <1>f, Zenon DEF ValidateSave, tables
  <2>2. CASE lock' = r /\ Goto(r, "saving")
    BY <1>9, <2>2, <1>g, Zenon DEF ValidateSave, tables
  <2> QED
    BY <1>9, <2>1, <2>2 DEF ValidateSave
<1>10. CASE CommitSave(r)
  <2>1. [subject |-> SubjectOf[r], authority |-> request[r].authority,
         plan |-> request[r].plan, expires |-> request[r].expires] \in Plans
    BY <1>10 DEF CommitSave, Plans, RequestStates
  <2>2. plans' \subseteq Plans
    BY <1>10, <2>1 DEF CommitSave
  <2> QED
    BY <1>10, <1>f, <2>2, Zenon DEF CommitSave
<1>11. CASE Cancel(r)
  BY <1>11, <1>f, Zenon DEF Cancel, tables
<1>12. CASE Retry(r)
  BY <1>12, NewRequestType DEF Retry, tables, NewRequest
<1> QED
  BY <1>1, <1>2, <1>3, <1>4, <1>5, <1>6, <1>7, <1>8, <1>9, <1>10, <1>11, <1>12, Zenon

(* What a reconciliation round does: it binds no row anew, leaves no row    *)
(* without a result and does not touch a row the drain has locked.          *)
RoundEffect ==
    /\ subjects' \in [Subjects -> SubjectRows]
    /\ \A u \in Subjects :
          /\ subjects'[u].origin = subjects[u].origin
          /\ subjects'[u].authority = subjects[u].authority
          /\ subjects'[u].generation = subjects[u].generation
          /\ subjects'[u].plan = subjects[u].plan
          /\ subjects'[u] # subjects[u] => ~RowLocked(u) /\ subjects'[u].progress # "pending"
    /\ UNCHANGED <<clock, lock, scope, retained, controls, forces, epoch, plans,
                   activation, request>>

LEMMA RoundSteps ==
    ASSUME TypeInv, RoundsNext
    PROVE  RoundEffect
<1>1. ASSUME NEW s \in Subjects, NEW from, NEW to \in Progress \ {"pending"},
             MoveSubject(s, from, to)
      PROVE  RoundEffect
  <2>1. subjects \in [Subjects -> SubjectRows]
    BY DEF TypeInv, TypeOK, StoreTypeOK
  <2>2. PICK row : row = [subjects[s] EXCEPT !.progress = to]
    OBVIOUS
  <2>3. /\ row \in SubjectRows /\ row.progress = to
        /\ row.origin = subjects[s].origin /\ row.authority = subjects[s].authority
        /\ row.generation = subjects[s].generation /\ row.plan = subjects[s].plan
    <3>1. subjects[s] \in SubjectRows
      BY <2>1
    <3> QED
      BY <2>2, <3>1 DEF SubjectRows
  <2>4. subjects' = [subjects EXCEPT ![s] = row] /\ ~RowLocked(s)
    BY <1>1, <2>1, <2>2 DEF MoveSubject
  <2>5. \A u \in Subjects : subjects'[u] = IF u = s THEN row ELSE subjects[u]
    BY <2>1, <2>4
  <2>6. subjects' \in [Subjects -> SubjectRows]
    BY <2>1, <2>3, <2>4
  <2>7. UNCHANGED <<clock, lock, scope, retained, controls, forces, epoch, plans,
                    activation, request>>
    BY <1>1 DEF MoveSubject
  <2>8. row.progress # "pending"
    BY <2>3
  <2>9. ASSUME NEW u \in Subjects
        PROVE  /\ subjects'[u].origin = subjects[u].origin
               /\ subjects'[u].authority = subjects[u].authority
               /\ subjects'[u].generation = subjects[u].generation
               /\ subjects'[u].plan = subjects[u].plan
               /\ subjects'[u] # subjects[u] => ~RowLocked(u) /\ subjects'[u].progress # "pending"
    <3>1. CASE u = s
      <4>1. subjects'[u] = row
        BY <2>5, <3>1
      <4> QED
        BY <2>3, <2>4, <2>8, <3>1, <4>1, Zenon
    <3>2. CASE u # s
      <4>1. subjects'[u] = subjects[u]
        BY <2>5, <3>2
      <4> QED
        BY <4>1, Zenon
    <3> QED
      BY <3>1, <3>2, Zenon
  <2> QED
    BY <2>6, <2>7, <2>9, Zenon DEF RoundEffect
<1> QED
  BY <1>1 DEF RoundsNext, SettleSubject, ReclaimSettled, DeferReclaimed, ReopenReclaimed, Progress

(* The shapes and the bindings are kept by every step of the system. *)
LEMMA TypeInvariance == Spec => []TypeInv
<1>1. Init => TypeInv
  BY TypeInit
<1>2. TypeInv /\ [Next]_vars => TypeInv'
  <2> SUFFICES ASSUME TypeInv, [Next]_vars
               PROVE  TypeInv'
    OBVIOUS
  <2>1. CASE AdvanceClock
    <3>1. clock' \in 0 .. MaxTime
      BY <2>1 DEF AdvanceClock, Tick, TypeInv, TypeOK, StoreTypeOK
    <3> QED
      BY <2>1, <3>1, Zenon
         DEF AdvanceClock, tables, TypeInv, TypeOK, StoreTypeOK, BoundToAuthority
  <2>2. CASE RoundsNext
    BY <2>2, RoundSteps, Zenon DEF RoundEffect, TypeInv, TypeOK, StoreTypeOK, BoundToAuthority
  <2>3. CASE UNCHANGED vars
    BY <2>3 DEF vars, TypeInv, TypeOK, StoreTypeOK, BoundToAuthority
  <2> QED
    BY <2>1, <2>2, <2>3, TypeControls, TypeCutover, TypeIssuance DEF Next
<1> QED
  BY <1>1, <1>2, PTL DEF Spec

(* Type correctness: whatever operators, cutovers, requests, the clock and  *)
(* the worker do, every table row, activation and request keeps its shape.  *)
THEOREM TypeCorrect == Spec => []TypeOK
  BY TypeInvariance, PTL DEF TypeInv

----------------------------------------------------------------------------
(* Generation isolation. *)

(* A transaction between its validation and its commit holds the lock. *)
LockHeld ==
    /\ \A r \in Requests : request[r].pc \in {"registering", "saving"} => lock = r
    /\ \A o \in Operators : activation[o].pc = "drained" => lock = o

(* The authority is the one the scope row serves. *)
Serves(a) ==
    /\ scope.active = a
    /\ scope.generation = GenerationOf[a]
    /\ scope.latch = NoLatch
    /\ scope.revoked < scope.generation

(* A validated request keeps its authority, a validated activation its drain. *)
ValidatedUnderLock ==
    /\ \A r \in Requests :
          request[r].pc \in {"registering", "saving"} => Serves(request[r].authority)
    /\ \A o \in Operators : activation[o].pc = "drained" => LocalDrainComplete(clock)

(* A selected subject without a result is of the generation in the row. *)
PendingAreCurrent ==
    \A s \in PendingSubjects : subjects[s].generation = scope.generation

(* The inductive invariant. *)
GenerationInv ==
    /\ LockHeld
    /\ ValidatedUnderLock
    /\ LivePlansAreCurrent
    /\ PendingAreCurrent
    /\ LatchKeepsOmissionDisabled
    /\ ScopeRowReadable


LEMMA GenerationInit == Init => GenerationInv
  <1> SUFFICES ASSUME Init PROVE GenerationInv
    OBVIOUS
  <1>1. /\ \A r \in Requests : request[r].pc = "resolve"
        /\ \A o \in Operators : activation[o].pc = "idle"
    BY DEF Init, CutoverInit, IssuanceInit, NoActivation, NewRequest
  <1>2. LockHeld /\ ValidatedUnderLock
    BY <1>1, Zenon DEF LockHeld, ValidatedUnderLock
  <1>3. plans = {} /\ \A s \in Subjects : subjects[s].origin = "none"
    BY DEF Init, StoreInit, Unregistered
  <1>4. LivePlansAreCurrent /\ PendingAreCurrent
    BY <1>3, Zenon DEF LivePlansAreCurrent, PendingAreCurrent, LivePlans,
         PendingSubjects
  <1>5. /\ scope.revoked = 0 /\ scope.generation = 0 /\ scope.active = None
        /\ scope.staged = None /\ scope.latch = NoLatch /\ scope.latchAt = 0 /\ scope = NoScope
    BY DEF Init, StoreInit, NoScope
  <1>6. LatchKeepsOmissionDisabled /\ ScopeRowReadable
    BY <1>5 DEF LatchKeepsOmissionDisabled, ScopeRowReadable, WellFormedScope
  <1> QED
    BY <1>2, <1>4, <1>6, Zenon DEF GenerationInv

(* While the lock is free no transaction is between validation and commit. *)
LEMMA FreeLock ==
    ASSUME TypeInv, GenerationInv, lock = None
    PROVE  /\ \A r \in Requests : request[r].pc \notin {"registering", "saving"}
           /\ \A o \in Operators : activation[o].pc # "drained"
  BY DEF GenerationInv, LockHeld

(* While one transaction is there, no other is. *)
LEMMA OneHolder ==
    ASSUME TypeInv, GenerationInv
    PROVE  /\ \A r \in Requests : request[r].pc \in {"registering", "saving"} =>
                 /\ \A q \in Requests \ {r} : request[q].pc \notin {"registering", "saving"}
                 /\ \A o \in Operators : activation[o].pc # "drained"
           /\ \A o \in Operators : activation[o].pc = "drained" =>
                 /\ \A q \in Operators \ {o} : activation[q].pc # "drained"
                 /\ \A r \in Requests : request[r].pc \notin {"registering", "saving"}
  BY DEF GenerationInv, LockHeld

(* Steps that leave the tables the invariant reads alone, and move requests *)
(* and activations only out of, or not into, a validated transaction.       *)
LEMMA Withdrawal ==
    ASSUME TypeInv, GenerationInv,
           UNCHANGED <<clock, scope, controls, subjects, plans>>,
           \A r \in Requests : request'[r].pc \in {"registering", "saving"} =>
                 request'[r] = request[r] /\ lock' = lock,
           \A o \in Operators : activation'[o].pc = "drained" =>
                 activation'[o] = activation[o] /\ lock' = lock
    PROVE  GenerationInv'
  <1>1. LockHeld'
    BY DEF GenerationInv, LockHeld
  <1>2. ValidatedUnderLock'
    <2>1. \A a : Serves(a)' <=> Serves(a)
      BY Zenon DEF Serves
    <2>2. LocalDrainComplete(clock)' <=> LocalDrainComplete(clock)
      BY Zenon DEF LocalDrainComplete, LivePlans, UnsettledSubjects
    <2> QED
      BY <2>1, <2>2, Zenon DEF GenerationInv, ValidatedUnderLock
  <1>3. LivePlansAreCurrent' /\ PendingAreCurrent'
    BY DEF GenerationInv, LivePlansAreCurrent, PendingAreCurrent, LivePlans,
           PendingSubjects
  <1>4. LatchKeepsOmissionDisabled' /\ ScopeRowReadable'
    BY DEF GenerationInv, LatchKeepsOmissionDisabled, ScopeRowReadable, WellFormedScope,
           OmissionDisabled, LatestControl
  <1> QED
    BY <1>1, <1>2, <1>3, <1>4 DEF GenerationInv

(* No operator command or epoch activation disturbs the invariant. *)
LEMMA GenerationControls ==
    TypeInv /\ GenerationInv /\ ControlsNext /\ UNCHANGED <<activation, request>>
        => GenerationInv'
<1> SUFFICES ASSUME TypeInv, GenerationInv, ControlsNext, UNCHANGED <<activation, request>>
             PROVE  GenerationInv'
  OBVIOUS
<1>1. lock = None
  BY DEF ControlsNext, DisableOmission, EnableOmission, ApplyControl, ForceFullCi, ActivateEpoch
<1>2. UNCHANGED <<clock, lock, scope, subjects, plans>>
  BY DEF ControlsNext, DisableOmission, EnableOmission, ApplyControl, ForceFullCi, ActivateEpoch
<1>3. CASE UNCHANGED controls
  BY <1>1, <1>2, <1>3, Withdrawal, FreeLock
<1>4. ASSUME NEW c \in Controls, ApplyControl(c)
      PROVE  GenerationInv'
  <2>1. scope.latch = NoLatch
    BY <1>4 DEF ApplyControl, TransitionAdmitted, GenerationInv, LatchKeepsOmissionDisabled
  <2>2. LatchKeepsOmissionDisabled'
    BY <1>2, <2>1 DEF LatchKeepsOmissionDisabled
  <2> QED
    BY <1>1, <1>2, <2>2, FreeLock
       DEF GenerationInv, LockHeld, ValidatedUnderLock, LivePlansAreCurrent,
           PendingAreCurrent, ScopeRowReadable, WellFormedScope, LivePlans,
           PendingSubjects
<1>5. CASE DisableOmission
  <2>1. PICK at \in EarlierTimes : ApplyControl(Disable(at))
    BY <1>5 DEF DisableOmission
  <2>2. Disable(at) \in Controls
    BY ClockFields, ControlTypes
  <2> QED
    BY <1>4, <2>1, <2>2
<1>6. CASE EnableOmission
  <2>1. PICK at \in EarlierTimes, target \in 1 .. Len(controls) :
           ApplyControl(Enable(target, at))
    BY <1>6 DEF EnableOmission
  <2>2. Enable(target, at) \in Controls
    <3>1. at \in Nat /\ target \in Nat
      BY ClockFields, ControlFields, Zenon
    <3> QED
      BY <3>1, ControlTypes, Zenon
  <2> QED
    BY <1>4, <2>1, <2>2
<1> QED
  BY <1>3, <1>5, <1>6 DEF ControlsNext, ForceFullCi, ActivateEpoch

(* Stage and begin write the scope row while nobody is mid-transaction;     *)
(* activation replaces the generation only after a drain that still holds.  *)
LEMMA GenerationCutover ==
    TypeInv /\ GenerationInv /\ CutoverNext /\ UNCHANGED request => GenerationInv'
<1> SUFFICES ASSUME TypeInv, GenerationInv, CutoverNext, UNCHANGED request
             PROVE  GenerationInv'
  OBVIOUS
<1>s. scope \in ScopeStates
  BY ScopeFields
<1>r. scope.revision + 1 >= 1
  BY ScopeFields, Successors
<1>1. ASSUME NEW a \in Authorities, Stage(a)
      PROVE  GenerationInv'
  <2>1. /\ scope'.generation = scope.generation /\ scope'.revoked = scope.revoked
        /\ scope'.active = scope.active /\ scope'.latch = scope.latch
        /\ scope'.latchAt = scope.latchAt /\ scope'.revision = scope.revision + 1
        /\ scope'.staged = a
    BY <1>1, <1>s DEF Stage, StagedScope, ScopeStates
  <2>2. ScopeRowReadable'
    BY <1>1, <1>r, <2>1, Zenon DEF Stage, GenerationInv, ScopeRowReadable, WellFormedScope
  <2>3. /\ LivePlansAreCurrent' /\ PendingAreCurrent' /\ LatchKeepsOmissionDisabled'
    BY <1>1, <2>1
       DEF Stage, GenerationInv, LivePlansAreCurrent, PendingAreCurrent, LivePlans,
           PendingSubjects, LatchKeepsOmissionDisabled, OmissionDisabled, LatestControl
  <2> QED
    BY <1>1, <2>2, <2>3, FreeLock DEF Stage, GenerationInv, LockHeld, ValidatedUnderLock
<1>2. CASE Begin
  <2>1. PICK l \in Nat \ {0}, at \in Nat : scope' = BegunScope(l, at)
    BY <1>2, ControlFields
       DEF Begin, BeginWithExistingDisable, BeginWithNewDisable, OmissionDisabled,
           TypeInv, TypeOK, StoreTypeOK
  <2>2. /\ scope'.generation = scope.generation /\ scope'.revoked = scope.generation
        /\ scope'.active = scope.active /\ scope'.staged = scope.staged
        /\ scope'.revision = scope.revision + 1 /\ scope'.latch # NoLatch
    BY <2>1, <1>s DEF BegunScope, ScopeStates, NoLatch
  <2>3. LatchKeepsOmissionDisabled'
    <3>1. CASE BeginWithExistingDisable
      BY <3>1, <1>s, Zenon DEF BeginWithExistingDisable, BegunScope, ScopeStates,
           LatchKeepsOmissionDisabled, OmissionDisabled, LatestControl
    <3>2. CASE BeginWithNewDisable
      <4>1. controls \in Seq(Controls) /\ Disable(clock) \in Controls
        BY DEF TypeInv, TypeOK, StoreTypeOK, Disable, Controls
      <4>2. /\ Len(controls') = Len(controls) + 1
            /\ controls'[Len(controls) + 1] = Disable(clock)
        BY <3>2, <4>1 DEF BeginWithNewDisable
      <4>3. scope'.latch = Len(controls) + 1
        BY <3>2, <1>s DEF BeginWithNewDisable, BegunScope, ScopeStates
      <4>4. Len(controls) \in Nat /\ Disable(clock).kind = "disable_omission"
        BY <4>1 DEF Disable
      <4>5. Len(controls') > 0 /\ controls'[Len(controls')].kind = "disable_omission"
        BY <4>2, <4>4
      <4> QED
        BY <4>2, <4>3, <4>5 DEF LatchKeepsOmissionDisabled, OmissionDisabled, LatestControl
    <3> QED
      BY <1>2, <3>1, <3>2 DEF Begin
  <2>4. ScopeRowReadable'
    <3>1. scope.generation \in Nat /\ scope.generation <= scope.generation
      BY ScopeFields
    <3> QED
      BY <1>r, <2>2, <3>1, Zenon DEF GenerationInv, ScopeRowReadable, WellFormedScope
  <2>5. LivePlansAreCurrent' /\ PendingAreCurrent'
    BY <1>2, <2>2
       DEF Begin, GenerationInv, LivePlansAreCurrent, PendingAreCurrent, LivePlans,
           PendingSubjects
  <2> QED
    BY <1>2, <2>3, <2>4, <2>5, FreeLock DEF Begin, GenerationInv, LockHeld, ValidatedUnderLock
<1>3. ASSUME NEW o \in Operators, ObserveStaged(o)
      PROVE  GenerationInv'
  <2>1. \A q \in Operators : activation'[q].pc # "drained"
    BY <1>3, FreeLock DEF ObserveStaged, TypeInv, TypeOK
  <2> QED
    BY <1>3, <2>1, FreeLock, Withdrawal DEF ObserveStaged, tables
<1>4. ASSUME NEW o \in Operators, ValidateActivation(o)
      PROVE  GenerationInv'
  <2>1. CASE ActivationAdmitted(activation[o], clock)
    <3>1. LocalDrainComplete(clock)' /\ lock' = o
      BY <1>4, <2>1 DEF ValidateActivation, ActivationAdmitted, LocalDrainComplete, LivePlans,
           UnsettledSubjects, tables
    <3>2. \A q \in Operators \ {o} : activation'[q].pc # "drained"
      BY <1>4, <2>1, FreeLock DEF ValidateActivation, TypeInv, TypeOK
    <3>3. \A r \in Requests : request'[r].pc \notin {"registering", "saving"}
      BY <1>4, FreeLock DEF ValidateActivation
    <3>4. LockHeld' /\ ValidatedUnderLock'
      BY <3>1, <3>2, <3>3 DEF LockHeld, ValidatedUnderLock
    <3> QED
      BY <1>4, <3>4 DEF ValidateActivation, tables, GenerationInv, LivePlansAreCurrent,
           PendingAreCurrent, LatchKeepsOmissionDisabled, ScopeRowReadable,
           WellFormedScope, LivePlans, PendingSubjects, OmissionDisabled, LatestControl
  <2>2. CASE ~ActivationAdmitted(activation[o], clock)
    <3>1. \A q \in Operators : activation'[q].pc # "drained"
      BY <1>4, <2>2, FreeLock DEF ValidateActivation, TypeInv, TypeOK, NoActivation
    <3> QED
      BY <1>4, <2>2, <3>1, FreeLock, Withdrawal DEF ValidateActivation, tables
  <2> QED
    BY <2>1, <2>2
<1>5. ASSUME NEW o \in Operators, CommitActivation(o)
      PROVE  GenerationInv'
  <2>1. /\ \A q \in Operators : activation'[q].pc # "drained"
        /\ \A r \in Requests : request'[r].pc \notin {"registering", "saving"}
    BY <1>5, OneHolder DEF CommitActivation, TypeInv, TypeOK, NoActivation
  <2>2. CASE UNCHANGED <<scope, controls>>
    BY <1>5, <2>1, <2>2, Withdrawal DEF CommitActivation
  <2>3. CASE /\ ActivationStillAdmitted(activation[o], clock)
             /\ scope' = ActivatedScope(activation[o].authority)
    <3>1. activation[o].authority \in Authorities
      BY <1>5 DEF CommitActivation, TypeInv, BoundToAuthority
    <3>2. /\ scope'.generation = scope.generation + 1 /\ scope'.revoked = scope.revoked
          /\ scope'.active = activation[o].authority /\ scope'.latch = NoLatch
          /\ scope'.staged = None /\ scope'.latchAt = 0
          /\ scope'.revision = scope.revision + 1
      BY <2>3, <1>s, <3>1 DEF ActivatedScope, ScopeStates, ActivationStillAdmitted, DrainMatches
    <3>3. LocalDrainComplete(clock)
      BY <1>5 DEF CommitActivation, GenerationInv, ValidatedUnderLock
    <3>4. LivePlansAreCurrent' /\ PendingAreCurrent'
      BY <1>5, <3>3 DEF CommitActivation, LocalDrainComplete, LivePlansAreCurrent,
           PendingAreCurrent, LivePlans, UnsettledSubjects, PendingSubjects
    <3>5. ScopeRowReadable' /\ LatchKeepsOmissionDisabled'
      <4>1. scope.revoked <= scope.generation
        BY Zenon DEF GenerationInv, ScopeRowReadable, WellFormedScope
      <4>2. scope'.revoked <= scope'.generation /\ scope'.generation # 0
        <5>1. scope.revoked \in Nat /\ scope.generation \in Nat
          BY ScopeFields, Zenon
        <5>2. scope.revoked <= scope.generation + 1 /\ scope.generation + 1 # 0
          BY <4>1, <5>1, Successors, Zenon
        <5> QED
          BY <3>2, <5>2, Zenon
      <4>3. scope'.active # None
        BY <3>1, <3>2, StoreAssumption, Zenon
      <4> QED
        BY <1>r, <3>2, <4>2, <4>3, Zenon
           DEF ScopeRowReadable, WellFormedScope, LatchKeepsOmissionDisabled
    <3> QED
      BY <2>1, <3>4, <3>5 DEF GenerationInv, LockHeld, ValidatedUnderLock
  <2> QED
    BY <1>5, <2>2, <2>3 DEF CommitActivation
<1>6. ASSUME NEW o \in Operators, AbandonActivation(o)
      PROVE  GenerationInv'
  <2>1. activation' = [activation EXCEPT ![o] = NoActivation]
    BY <1>6 DEF AbandonActivation
  <2>2. \A q \in Operators : activation'[q].pc = "drained" =>
           activation'[q] = activation[q] /\ lock' = lock
    <3>1. /\ activation'[o].pc # "drained"
          /\ \A q \in Operators \ {o} : activation'[q] = activation[q]
      BY <2>1 DEF TypeInv, TypeOK, NoActivation
    <3> QED
      BY <1>6, <3>1, Zenon DEF AbandonActivation, GenerationInv, LockHeld
  <2>3. \A r \in Requests : request'[r].pc \in {"registering", "saving"} =>
           request'[r] = request[r] /\ lock' = lock
    BY <1>6 DEF AbandonActivation, GenerationInv, LockHeld
  <2> QED
    BY <1>6, <2>2, <2>3, Withdrawal DEF AbandonActivation, tables
<1> QED
  BY <1>1, <1>2, <1>3, <1>4, <1>5, <1>6 DEF CutoverNext

(* A request adds a selected subject or a plan only at its commit, and then *)
(* for the authority the row serves.                                        *)
LEMMA GenerationIssuance ==
    TypeInv /\ GenerationInv /\ IssuanceNext /\ UNCHANGED activation => GenerationInv'
<1> SUFFICES ASSUME TypeInv, GenerationInv, NEW r \in Requests, UNCHANGED activation,
                    \/ ResolveOverride(r) \/ LoadActiveEpoch(r) \/ PrepareAuthority(r)
                    \/ FallBack(r) \/ RegisterFullCi(r) \/ ValidateRegistration(r)
                    \/ CommitRegistration(r) \/ Sign(r) \/ ValidateSave(r)
                    \/ CommitSave(r) \/ Cancel(r) \/ Retry(r)
             PROVE  GenerationInv'
  BY DEF IssuanceNext
<1>q. request \in [Requests -> RequestStates] /\ request[r] \in RequestStates
  BY DEF TypeInv, TypeOK
<1>f. ASSUME NEW res \in {"selected", "full_ci", "failed"}, Finish(r, res)
      PROVE  /\ request'[r].pc = res
             /\ \A q \in Requests \ {r} : request'[q] = request[q]
  BY <1>f, <1>q DEF Finish, NewRequest
<1>g. ASSUME NEW pc, Goto(r, pc)
      PROVE  /\ request'[r].pc = pc /\ request'[r].authority = request[r].authority
             /\ \A q \in Requests \ {r} : request'[q] = request[q]
  BY <1>g, <1>q DEF Goto, RequestStates
<1>w. ASSUME UNCHANGED <<clock, lock, tables>>,
             request'[r].pc \notin {"registering", "saving"},
             \A q \in Requests \ {r} : request'[q] = request[q]
      PROVE  GenerationInv'
  BY <1>w, Withdrawal DEF tables
<1>1. CASE ResolveOverride(r)
  <2>1. CASE Finish(r, "full_ci")
    BY <1>1, <2>1, <1>f, <1>w DEF ResolveOverride
  <2>2. CASE Goto(r, "epoch")
    <3>1. request'[r].pc = "epoch" /\ \A q \in Requests \ {r} : request'[q] = request[q]
      BY <2>2, <1>g
    <3> QED
      BY <1>1, <3>1, <1>w DEF ResolveOverride
  <2> QED
    BY <1>1, <2>1, <2>2 DEF ResolveOverride
<1>2. CASE LoadActiveEpoch(r)
  <2>1. /\ request'[r].pc \in {"full_ci", "prepare"}
        /\ \A q \in Requests \ {r} : request'[q] = request[q]
    <3>1. CASE Finish(r, "full_ci")
      BY <3>1, <1>f
    <3>2. CASE \E plan \in Candidates :
                 request' = [request EXCEPT ![r] =
                                [@ EXCEPT !.pc = "prepare", !.epoch = epoch.id, !.plan = plan]]
      BY <3>2, <1>q DEF RequestStates
    <3> QED
      BY <1>2, <3>1, <3>2, Zenon DEF LoadActiveEpoch
  <2> QED
    BY <1>2, <1>w, <2>1, Zenon DEF LoadActiveEpoch
<1>3. CASE PrepareAuthority(r)
  <2>1. /\ request'[r].pc = "register"
        /\ \A q \in Requests \ {r} : request'[q] = request[q]
    BY <1>3, <1>q DEF PrepareAuthority, RequestStates
  <2> QED
    BY <1>3, <1>w, <2>1 DEF PrepareAuthority
<1>4. CASE FallBack(r)
  BY <1>4, <1>f, <1>w DEF FallBack
<1>5. CASE RegisterFullCi(r)
  <2>1. \A q \in Requests : request'[q].pc \notin {"registering", "saving"}
    BY <1>5, <1>f, FreeLock DEF RegisterFullCi
  <2>2. \A s \in PendingSubjects' : s \in PendingSubjects /\ subjects'[s] = subjects[s]
    BY <1>5 DEF RegisterFullCi, PendingSubjects, FullCiRow, Unregistered, TypeInv, TypeOK,
         StoreTypeOK
  <2>3. PendingAreCurrent'
    BY <1>5, <2>2, Zenon DEF RegisterFullCi, GenerationInv, PendingAreCurrent
  <2> QED
    BY <1>5, <2>1, <2>3, FreeLock DEF RegisterFullCi, GenerationInv, LockHeld,
         ValidatedUnderLock, LivePlansAreCurrent, LivePlans, LatchKeepsOmissionDisabled,
         ScopeRowReadable, WellFormedScope, OmissionDisabled, LatestControl
<1>v. ASSUME RequestGuardAdmits(r, clock), lock = None, lock' = r, UNCHANGED <<clock, tables>>,
             NEW pc \in {"registering", "saving"}, Goto(r, pc)
      PROVE  GenerationInv'
  <2>1. Serves(request[r].authority)
    BY <1>v DEF RequestGuardAdmits, GuardAdmits, AdmitsCurrent, Serves
  <2>2. LockHeld'
    BY <1>v, <1>g, FreeLock DEF LockHeld
  <2>3. ValidatedUnderLock'
    BY <1>v, <1>g, <2>1, FreeLock DEF ValidatedUnderLock, Serves, tables
  <2> QED
    BY <1>v, <2>2, <2>3 DEF tables, GenerationInv, LivePlansAreCurrent,
         PendingAreCurrent, LatchKeepsOmissionDisabled, ScopeRowReadable,
         WellFormedScope, LivePlans, PendingSubjects, OmissionDisabled, LatestControl
<1>6. CASE ValidateRegistration(r)
  BY <1>6, <1>f, <1>v, <1>w DEF ValidateRegistration
<1>7. CASE CommitRegistration(r)
  <2>1. /\ \A q \in Requests : request'[q].pc \notin {"registering", "saving"}
        /\ \A o \in Operators : activation'[o].pc # "drained"
    <3>1. /\ \A q \in Requests \ {r} : request[q].pc \notin {"registering", "saving"}
          /\ \A o \in Operators : activation[o].pc # "drained"
      BY <1>7, OneHolder DEF CommitRegistration
    <3>2. CASE Finish(r, "full_ci")
      BY <3>1, <3>2, <1>f
    <3>3. CASE Goto(r, "sign")
      BY <3>1, <3>3, <1>g
    <3> QED
      BY <1>7, <3>2, <3>3 DEF CommitRegistration
  <2>2. request[r].authority \in Authorities /\ Serves(request[r].authority)
    BY <1>7 DEF CommitRegistration, TypeInv, BoundToAuthority, GenerationInv,
         ValidatedUnderLock
  <2>3. PendingAreCurrent'
    <3>1. subjects \in [Subjects -> SubjectRows] /\ SubjectOf[r] \in Subjects
      BY DEF TypeInv, TypeOK, StoreTypeOK
    <3>2. \/ subjects' = subjects
          \/ subjects' = [subjects EXCEPT ![SubjectOf[r]] =
                             SelectedRow(request[r].authority, request[r].plan)]
      BY <1>7 DEF CommitRegistration
    <3>3. SelectedRow(request[r].authority, request[r].plan).generation = scope.generation
      BY <2>2 DEF SelectedRow, Serves
    <3>4. scope' = scope
      BY <1>7 DEF CommitRegistration
    <3> QED
      BY <3>1, <3>2, <3>3, <3>4 DEF GenerationInv, PendingAreCurrent, PendingSubjects
  <2> QED
    BY <1>7, <2>1, <2>3 DEF CommitRegistration, GenerationInv, LockHeld,
         ValidatedUnderLock, LivePlansAreCurrent, LivePlans, LatchKeepsOmissionDisabled,
         ScopeRowReadable, WellFormedScope, OmissionDisabled, LatestControl
<1>8. CASE Sign(r)
  <2>1. /\ request'[r].pc = "save"
        /\ \A q \in Requests \ {r} : request'[q] = request[q]
    <3>1. PICK t : request' = [request EXCEPT ![r] = [@ EXCEPT !.pc = "save", !.expires = t]]
      BY <1>8, Zenon DEF Sign
    <3> QED
      BY <3>1, <1>q DEF RequestStates
  <2> QED
    BY <1>8, <1>w, <2>1, Zenon DEF Sign
<1>9. CASE ValidateSave(r)
  BY <1>9, <1>f, <1>v, <1>w DEF ValidateSave
<1>10. CASE CommitSave(r)
  <2>1. /\ \A q \in Requests : request'[q].pc \notin {"registering", "saving"}
        /\ \A o \in Operators : activation'[o].pc # "drained"
    BY <1>10, <1>f, OneHolder DEF CommitSave
  <2>2. Serves(request[r].authority)
    BY <1>10 DEF CommitSave, GenerationInv, ValidatedUnderLock
  <2>3. LivePlansAreCurrent'
    <3> DEFINE new == [subject |-> SubjectOf[r], authority |-> request[r].authority,
                       plan |-> request[r].plan, expires |-> request[r].expires]
    <3>0. plans' = plans \/ plans' = plans \cup {new}
      BY <1>10, Zenon DEF CommitSave
    <3>1. \A p \in plans' : p \in plans \/ p.authority = request[r].authority
      <4>1. new.authority = request[r].authority
        OBVIOUS
      <4> HIDE DEF new
      <4> QED
        BY <3>0, <4>1, Zenon
    <3>2. clock' = clock /\ scope' = scope
      BY <1>10 DEF CommitSave
    <3> QED
      BY <2>2, <3>1, <3>2 DEF GenerationInv, LivePlansAreCurrent, LivePlans, Serves
  <2> QED
    BY <1>10, <2>1, <2>3 DEF CommitSave, GenerationInv, LockHeld, ValidatedUnderLock,
         PendingAreCurrent, PendingSubjects, LatchKeepsOmissionDisabled,
         ScopeRowReadable, WellFormedScope, OmissionDisabled, LatestControl
<1>11. CASE Cancel(r)
  <2>1. \A q \in Requests : request'[q].pc \in {"registering", "saving"} =>
           request'[q] = request[q] /\ lock' = lock
    BY <1>11, <1>f DEF Cancel, GenerationInv, LockHeld
  <2>2. \A o \in Operators : activation'[o].pc = "drained" =>
           activation'[o] = activation[o] /\ lock' = lock
    BY <1>11 DEF Cancel, GenerationInv, LockHeld
  <2> QED
    BY <1>11, <2>1, <2>2, Withdrawal DEF Cancel, tables
<1>12. CASE Retry(r)
  <2>1. /\ request'[r].pc = "resolve"
        /\ \A q \in Requests \ {r} : request'[q] = request[q]
    BY <1>12, <1>q DEF Retry, NewRequest
  <2> QED
    BY <1>12, <1>w, <2>1 DEF Retry
<1> QED
  BY <1>1, <1>2, <1>3, <1>4, <1>5, <1>6, <1>7, <1>8, <1>9, <1>10, <1>11, <1>12

(* The inductive invariant holds in every reachable state. *)
LEMMA GenerationInvariance == Spec => [](TypeInv /\ GenerationInv)
<1>1. TypeInv /\ GenerationInv /\ [Next]_vars => GenerationInv'
  <2> SUFFICES ASSUME TypeInv, GenerationInv, [Next]_vars
               PROVE  GenerationInv'
    OBVIOUS
  <2>1. CASE AdvanceClock
    <3>1. LivePlans(clock)' \subseteq LivePlans(clock)
      BY <2>1 DEF AdvanceClock, Tick, tables, LivePlans, TypeInv, TypeOK, StoreTypeOK, Plans
    <3> QED
      BY <2>1, <3>1 DEF AdvanceClock, tables, GenerationInv, LockHeld, ValidatedUnderLock,
           Serves, LivePlansAreCurrent, PendingAreCurrent, UnsettledSubjects, PendingSubjects,
           LocalDrainComplete, LatchKeepsOmissionDisabled, ScopeRowReadable, WellFormedScope,
           OmissionDisabled, LatestControl
  <2>2. CASE RoundsNext
    <3>1. RoundEffect
      BY <2>2, RoundSteps
    <3>2. UNCHANGED <<clock, lock, scope, controls, plans, activation, request>>
      BY <3>1, Zenon DEF RoundEffect
    <3>3. PendingAreCurrent'
      <4>1. \A u \in PendingSubjects' : u \in PendingSubjects /\ subjects'[u] = subjects[u]
        BY <3>1, Zenon DEF RoundEffect, PendingSubjects
      <4> QED
        BY <3>2, <4>1, Zenon DEF GenerationInv, PendingAreCurrent
    <3>4. ASSUME NEW o \in Operators, activation[o].pc = "drained"
          PROVE  LocalDrainComplete(clock)'
      <4>1. lock = o /\ LocalDrainComplete(clock)
        BY <3>4, Zenon DEF GenerationInv, LockHeld, ValidatedUnderLock
      <4>2. \A u \in Subjects : subjects'[u].origin = "selected" => subjects'[u] = subjects[u]
        BY <3>1, <4>1, Zenon DEF RoundEffect, RowLocked
      <4>3. UnsettledSubjects' \subseteq UnsettledSubjects
        BY <4>2, Zenon DEF UnsettledSubjects
      <4> QED
        BY <3>2, <4>1, <4>3, Zenon DEF LocalDrainComplete, LivePlans
    <3>5. ValidatedUnderLock'
      BY <3>2, <3>4, Zenon DEF GenerationInv, ValidatedUnderLock, Serves
    <3> QED
      BY <3>2, <3>3, <3>5, Zenon DEF GenerationInv, LockHeld, LivePlansAreCurrent, LivePlans,
           LatchKeepsOmissionDisabled, ScopeRowReadable, OmissionDisabled, LatestControl
  <2>3. CASE UNCHANGED vars
    BY <2>3, Withdrawal DEF vars
  <2> QED
    BY <2>1, <2>2, <2>3, GenerationControls, GenerationCutover, GenerationIssuance DEF Next
<1> QED
  BY <1>1, GenerationInit, TypeInvariance, PTL DEF Spec

(* Generation isolation, for every instance: a selected plan that has not   *)
(* expired was issued under the generation the scope row names, because     *)
(* _activate drains before it installs a successor and save keeps the scope *)
(* lock from its guard to its commit.                                       *)
THEOREM GenerationIsolation == Spec => []LivePlansAreCurrent
  BY GenerationInvariance, PTL DEF GenerationInv

(* What one step may do to the generation while subjects are unsettled. *)
SettledStep == scope'.generation # scope.generation => UnsettledSubjects = {}

SupersededStep ==
    /\ scope'.generation # scope.generation => UnsettledSubjects = {}
    /\ \A s \in PendingSubjects' : subjects'[s].generation = scope'.generation

(* _activate never leaves an unsettled subject behind, for every instance:  *)
(* the rows its drain read stay locked until it commits.  And whatever late *)
(* claims do after that, no subject of a superseded generation is without a *)
(* result.                                                                  *)
THEOREM SupersededSettled == Spec => SupersededSubjectsSettled
<1>1. TypeInv /\ GenerationInv /\ [Next]_vars => [SettledStep]_vars
  <2> SUFFICES ASSUME TypeInv, GenerationInv, Next
               PROVE  SettledStep
    OBVIOUS
  <2>s. scope \in ScopeStates
    BY ScopeFields
  <2>1. CASE UNCHANGED scope
    BY <2>1 DEF SettledStep
  <2>2. ASSUME NEW a \in Authorities, Stage(a)
        PROVE  SettledStep
    BY <2>s, <2>2 DEF Stage, StagedScope, ScopeStates, SettledStep
  <2>3. CASE Begin
    BY <2>s, <2>3 DEF Begin, BeginWithExistingDisable, BeginWithNewDisable, BegunScope,
       ScopeStates, SettledStep
  <2>4. ASSUME NEW o \in Operators, CommitActivation(o)
        PROVE  SettledStep
    BY <2>4, Zenon DEF CommitActivation, GenerationInv, ValidatedUnderLock, LocalDrainComplete,
       SettledStep
  <2>5. CASE CutoverNext
    BY <2>1, <2>2, <2>3, <2>4, <2>5, Zenon DEF CutoverNext, ObserveStaged, ValidateActivation,
       AbandonActivation, tables
  <2>6. CASE AdvanceClock \/ ControlsNext
    BY <2>1, <2>6 DEF AdvanceClock, tables, ControlsNext, DisableOmission, EnableOmission,
       ApplyControl, ForceFullCi, ActivateEpoch
  <2>7. CASE RoundsNext
    BY <2>1, <2>7, RoundSteps DEF RoundEffect
  <2>8. CASE IssuanceNext
    BY <2>1, <2>8, Zenon
       DEF IssuanceNext, ResolveOverride, LoadActiveEpoch, PrepareAuthority, FallBack,
       RegisterFullCi, ValidateRegistration, CommitRegistration, Sign, ValidateSave, CommitSave,
       Cancel, Retry, tables
  <2> QED
    BY <2>5, <2>6, <2>7, <2>8 DEF Next
<1>2. [SettledStep]_vars /\ GenerationInv' => [SupersededStep]_vars
  BY DEF SettledStep, SupersededStep, GenerationInv, PendingAreCurrent
<1> QED
  BY <1>1, <1>2, GenerationInvariance, PTL DEF Spec, SupersededSubjectsSettled, SupersededStep

(* From begin to activate, no operator command re-enables omission: the     *)
(* latest control stays the disable that the latch names.                   *)
THEOREM LatchHolds == Spec => []LatchKeepsOmissionDisabled
  BY GenerationInvariance, PTL DEF GenerationInv

(* Every committed scope row passes ProductionScopeState.__post_init__.     *)
THEOREM RowReadable == Spec => []ScopeRowReadable
  BY GenerationInvariance, PTL DEF GenerationInv

============================================================================
