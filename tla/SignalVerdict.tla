--------------------------- MODULE SignalVerdict ---------------------------
(***************************************************************************)
(* classify_observed_state: the verdict on one reconciliation contract     *)
(* from the observations retained for it.                                  *)
(*                                                                         *)
(* An observation is identified by its provider job, status and conclusion *)
(* (the observation id is a hash of them), so a retained set of records    *)
(* stands for the ordered rows.  Conclusion "none" is a job in progress;   *)
(* every conclusion other than success counts alike.                       *)
(***************************************************************************)
EXTENDS Integers, FiniteSets

CONSTANTS
    Expected,   \* signals of the contract's provider jobs
    Omitted,    \* signals the plan leaves out
    Jobs        \* provider job ids

ASSUME VerdictAssumption == IsFiniteSet(Jobs) /\ Expected \cap Omitted = {}

Conclusions == {"none", "success", "failure"}

Observations == [signal : Expected \cup Omitted, job : Jobs, conclusion : Conclusions]

OfSignal(observed, signal) == {o \in observed : o.signal = signal}

Completed(observed, signal) ==
    {o \in OfSignal(observed, signal) : o.conclusion # "none"}

(* The signal resolved to several provider jobs. *)
Ambiguous(observed, signal) ==
    Cardinality({o.job : o \in OfSignal(observed, signal)}) > 1

(* One job was seen to end in two ways. *)
Contradictory(observed, signal) ==
    /\ ~Ambiguous(observed, signal)
    /\ Cardinality({o.conclusion : o \in Completed(observed, signal)}) > 1

(* Faulty variant, for sensitivity checks only: several jobs of one signal are not noticed. *)
SignalFailedUnlessAmbiguous(observed, signal) ==
    /\ ~Contradictory(observed, signal)
    /\ \E o \in Completed(observed, signal) : o.conclusion # "success"

SignalFailed(observed, signal) ==
    \/ Ambiguous(observed, signal)
    \/ /\ ~Contradictory(observed, signal)
       /\ \E o \in Completed(observed, signal) : o.conclusion # "success"

SignalPending(observed, signal) ==
    /\ ~Ambiguous(observed, signal)
    /\ Completed(observed, signal) = {}

(* _result_state: conflict before failure before pending before success. *)
Verdict(observed) ==
    IF \/ \E o \in observed : o.signal \in Omitted
       \/ \E signal \in Expected : Contradictory(observed, signal)
    THEN "conflict"
    ELSE IF Expected = {} \/ \E signal \in Expected : SignalFailed(observed, signal)
    THEN "failure"
    ELSE IF \E signal \in Expected : SignalPending(observed, signal)
    THEN "pending"
    ELSE "success"

----------------------------------------------------------------------------
(* What a success claims, stated without the order of the checks: every     *)
(* expected signal was seen to complete, in one job and only with success,  *)
(* and nothing omitted was seen to run.                                     *)
Witnessed(observed) ==
    /\ Expected # {}
    /\ \A o \in observed : o.signal \notin Omitted
    /\ \A signal \in Expected :
          \E j \in Jobs :
             /\ [signal |-> signal, job |-> j, conclusion |-> "success"] \in observed
             /\ \A o \in observed :
                   o.signal = signal => o.job = j /\ o.conclusion # "failure"

============================================================================
