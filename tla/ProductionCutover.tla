------------------------- MODULE ProductionCutover -------------------------
(***************************************************************************)
(* The production cutover of one repository scope: stage an authority of   *)
(* the next generation, begin (revoke the current generation and latch     *)
(* omission off), activate once the predecessor has drained.               *)
(*                                                                         *)
(* Stage and begin are one locked transaction each.  Activation observes   *)
(* the providers outside any transaction and then runs one locked          *)
(* transaction that reads the database clock several times: ObserveStaged, *)
(* ValidateActivation (lock, checks, local drain) and CommitActivation     *)
(* (the rechecks, the writes and the commit).  The command names the       *)
(* revision the operator read; a command for another revision is refused   *)
(* and changes nothing, and a repeated command replays its audit record.   *)
(***************************************************************************)
EXTENDS ProductionStore

CONSTANTS
    DrainWindow,   \* MAX_PRODUCTION_DRAIN_SECONDS: validity of a drain statement
    MaxRevision    \* bound: revisions of the scope state

ASSUME CutoverAssumption == DrainWindow \in Nat \ {0} /\ MaxRevision \in Nat

VARIABLE
    activation     \* the activation each operator has in flight

NoActivation ==
    [pc |-> "idle", authority |-> None, revision |-> 0, startedAt |-> 0,
     latch |-> NoLatch, drainedAt |-> 0]

Activations ==
    [pc : {"idle", "observed", "drained"}, authority : Authorities \cup {None},
     revision : Nat, startedAt : Nat, latch : Nat, drainedAt : Nat]

----------------------------------------------------------------------------
(* The rows the three commands write. *)

StagedScope(a) ==
    [scope EXCEPT !.revision = @ + 1, !.staged = a]

(* Faulty variant, for sensitivity checks only: the current generation is not revoked. *)
BegunScopeUnrevoked(latch, at) ==
    [scope EXCEPT !.revision = @ + 1, !.latch = latch, !.latchAt = at]

BegunScope(latch, at) ==
    [scope EXCEPT !.revision = @ + 1, !.revoked = scope.generation,
                  !.latch = latch, !.latchAt = at]

ActivatedScope(a) ==
    [scope EXCEPT !.revision = @ + 1, !.generation = GenerationOf[a], !.active = a,
                  !.staged = None, !.latch = NoLatch, !.latchAt = 0]

----------------------------------------------------------------------------
Stage(a) ==
    /\ lock = None
    /\ scope.revision < MaxRevision
    /\ GenerationOf[a] = scope.generation + 1
    /\ PolicyCurrent(EpochOf[a])
    /\ clock < NotAfterOf[a]
    /\ a \in retained \/ Cardinality(retained) < MaxBundles
    /\ retained' = retained \cup {a}
    /\ scope' = StagedScope(a)
    /\ UNCHANGED <<clock, lock, controls, forces, epoch, subjects, plans, activation>>

(* The command names the active or the staged authority. *)
NamesAuthority == scope.active # None \/ scope.staged # None

(* A disable already in force becomes the latch. *)
BeginWithExistingDisable ==
    /\ OmissionDisabled
    /\ scope' = BegunScope(Len(controls), LatestControl.at)
    /\ UNCHANGED controls

BeginWithNewDisable ==
    /\ TransitionAdmitted(Disable(clock), scope.latch)
    /\ controls' = Append(controls, Disable(clock))
    /\ scope' = BegunScope(Len(controls) + 1, clock)

Begin ==
    /\ lock = None
    /\ 0 < scope.revision /\ scope.revision < MaxRevision
    /\ NamesAuthority
    /\ scope.latch = NoLatch
    /\ ~ControlUnavailable(clock)
    /\ BeginWithExistingDisable \/ BeginWithNewDisable
    /\ UNCHANGED <<clock, lock, retained, forces, epoch, subjects, plans, activation>>

----------------------------------------------------------------------------
(* ProductionCutoverService.activate up to the store call: read the staged  *)
(* authority under the lock, then observe the providers.  The signed drain  *)
(* statement names this revision and latch; any other is refused later.     *)
ObserveStaged(o) ==
    /\ lock = None
    /\ activation[o].pc = "idle"
    /\ scope.staged # None
    /\ \E drainedAt \in 0 .. clock :
          activation' = [activation EXCEPT ![o] =
              [pc |-> "observed", authority |-> scope.staged,
               revision |-> scope.revision, startedAt |-> clock,
               latch |-> scope.latch, drainedAt |-> drainedAt]]
    /\ UNCHANGED <<clock, lock, tables>>

(* AdmittedProductionDrain.matches *)
DrainMatches(act, now) ==
    /\ act.authority = scope.staged
    /\ GenerationOf[act.authority] = scope.generation + 1
    /\ scope.revoked >= scope.generation
    /\ act.revision = scope.revision
    /\ act.latch = scope.latch
    /\ scope.latch # NoLatch
    /\ scope.latchAt <= act.drainedAt
    /\ act.drainedAt <= now
    /\ now < act.drainedAt + DrainWindow

ActivationDeadline(act) ==
    LowerOf(NotAfterOf[act.authority],
            LowerOf(act.drainedAt + DrainWindow, act.startedAt + EvidenceWindow))

(* Faulty variant, for sensitivity checks only: the drain statement alone is trusted. *)
ActivationAdmittedUndrained(act, now) ==
    /\ scope.revision = act.revision
    /\ EvidenceCurrent(act.startedAt, now)
    /\ DrainMatches(act, now)
    /\ PolicyCurrent(EpochOf[act.authority])
    /\ OmissionDisabled

(* The checks of _activate up to the local drain. *)
ActivationAdmitted(act, now) ==
    /\ scope.revision = act.revision
    /\ scope.staged = act.authority
    /\ EvidenceCurrent(act.startedAt, now)
    /\ DrainMatches(act, now)
    /\ act.authority \in retained
    /\ PolicyCurrent(EpochOf[act.authority])
    /\ ~ControlUnavailable(now)
    /\ OmissionDisabled
    /\ Len(controls) = scope.latch
    /\ now < ActivationDeadline(act)
    /\ LocalDrainComplete(now)

ValidateActivation(o) ==
    /\ lock = None
    /\ activation[o].pc = "observed"
    /\ IF ActivationAdmitted(activation[o], clock)
       THEN lock' = o /\ activation' = [activation EXCEPT ![o].pc = "drained"]
       ELSE lock' = None /\ activation' = [activation EXCEPT ![o] = NoActivation]
    /\ UNCHANGED <<clock, tables>>

(* The rechecks before the writes, and again before the commit. *)
ActivationStillAdmitted(act, now) ==
    /\ EvidenceCurrent(act.startedAt, now)
    /\ DrainMatches(act, now)
    /\ now < ActivationDeadline(act)

(* The rest of _activate: the enabling override is admitted against the row *)
(* just written, whose latch is clear; any failed recheck rolls back.       *)
CommitActivation(o) ==
    LET act == activation[o]
        enable == Enable(scope.latch, clock)
        after == ActivatedScope(act.authority)
    IN  /\ act.pc = "drained"
        /\ IF /\ ActivationStillAdmitted(act, clock)
              /\ TransitionAdmitted(enable, after.latch)
           THEN scope' = after /\ controls' = Append(controls, enable)
           ELSE UNCHANGED <<scope, controls>>
        /\ lock' = None
        /\ activation' = [activation EXCEPT ![o] = NoActivation]
        /\ UNCHANGED <<clock, retained, forces, epoch, subjects, plans>>

(* Cancellation, a lost connection or an unavailable provider: the          *)
(* transaction rolls back and its lock is released.                         *)
AbandonActivation(o) ==
    /\ activation[o].pc # "idle"
    /\ lock' = IF lock = o THEN None ELSE lock
    /\ activation' = [activation EXCEPT ![o] = NoActivation]
    /\ UNCHANGED <<clock, tables>>

CutoverInit == activation = [o \in Operators |-> NoActivation]

CutoverNext ==
    \/ \E a \in Authorities : Stage(a)
    \/ Begin
    \/ \E o \in Operators :
          \/ ObserveStaged(o)
          \/ ValidateActivation(o)
          \/ CommitActivation(o)
          \/ AbandonActivation(o)

============================================================================
