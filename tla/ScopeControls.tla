--------------------------- MODULE ScopeControls ---------------------------
(***************************************************************************)
(* The administrative transactions outside a cutover that change what a    *)
(* selected plan may rely on: operator overrides and the activation (or    *)
(* rollback) of a configuration epoch.  Each runs in one transaction that  *)
(* takes the repository scope lock first, so each is one step that needs   *)
(* the lock free.  A repeated operation id returns the stored outcome and  *)
(* changes nothing: a stuttering step.                                     *)
(***************************************************************************)
EXTENDS ProductionStore

CONSTANTS
    ForceExpiries,     \* expiries an operator gives to a force
    MaxControls,       \* bound: omission controls an operator's command may grow to
    MaxForces,         \* bound: force_full_ci overrides kept
    MaxEpochRevision   \* bound: activations of a configuration epoch

ASSUME ControlsAssumption ==
    /\ ForceExpiries \subseteq Nat
    /\ MaxControls \in Nat /\ MaxForces \in Nat /\ MaxEpochRevision \in Nat

(* PostgresOperatorOverrideRepository.apply; a refused transition writes    *)
(* nothing.  OperatorOverrideService reads its process clock before the     *)
(* authorizer answers and before the lock is granted: the stamp may be      *)
(* older than the commit by any wait.                                       *)
ApplyControl(c) ==
    /\ lock = None
    /\ TransitionAdmitted(c, scope.latch)
    /\ controls' = Append(controls, c)
    /\ UNCHANGED <<clock, lock, scope, retained, forces, epoch, subjects, plans>>

DisableOmission ==
    /\ Len(controls) < MaxControls
    /\ \E at \in EarlierTimes : ApplyControl(Disable(at))

EnableOmission ==
    /\ Len(controls) < MaxControls
    /\ \E at \in EarlierTimes, target \in 1 .. Len(controls) :
          ApplyControl(Enable(target, at))

(* A force needs an expiry after its stamp and is always admitted. *)
ForceFullCi(subject) ==
    /\ lock = None
    /\ Cardinality(forces) < MaxForces
    /\ \E at \in EarlierTimes, expires \in ForceExpiries :
          /\ at < expires
          /\ forces' = forces \cup {[subject |-> subject, at |-> at, expires |-> expires]}
    /\ UNCHANGED <<clock, lock, scope, retained, controls, epoch, subjects, plans>>

(* Faulty variant, for sensitivity checks only: the activation does not take the scope lock. *)
ActivateEpochUnlocked(e) ==
    /\ epoch.revision < MaxEpochRevision
    /\ epoch' = [revision |-> epoch.revision + 1, id |-> e]
    /\ UNCHANGED <<clock, lock, scope, retained, controls, forces, subjects, plans>>

(* _PostgresConfigEpochRepository.activate with the current expected        *)
(* revision; any other expected revision is refused without effect.         *)
ActivateEpoch(e) ==
    /\ lock = None
    /\ epoch.revision < MaxEpochRevision
    /\ epoch' = [revision |-> epoch.revision + 1, id |-> e]
    /\ UNCHANGED <<clock, lock, scope, retained, controls, forces, subjects, plans>>

ControlsNext ==
    \/ DisableOmission
    \/ EnableOmission
    \/ \E s \in Subjects : ForceFullCi(s)
    \/ \E e \in Epochs : ActivateEpoch(e)

============================================================================
