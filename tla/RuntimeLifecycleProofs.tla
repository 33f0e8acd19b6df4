----------------------- MODULE RuntimeLifecycleProofs ----------------------
(***************************************************************************)
(* Startup and shutdown for every set of callers and resources and every   *)
(* number of close attempts.                                               *)
(*                                                                         *)
(* WorkInv ties the background services to what was attempted of them.     *)
(* CloseInv says what each stage of _close_all has established: startup is *)
(* joined before readiness drains, readiness before the background stops,  *)
(* and everything is quiet before the first resource is released.  Quiet   *)
(* is stable, because whatever would start work needs a runtime on which   *)
(* no close has begun.                                                     *)
(***************************************************************************)
EXTENDS RuntimeLifecycle, WellFoundedInduction, TLAPS


LoopStates ==
    [pc : {"none", "tick", "wait", "pause", "done"}, first : BOOLEAN, complete : BOOLEAN,
     initial : {"none", "ok", "failed"}]

WorkInv ==
    /\ bg \in [loop : BOOLEAN, worker : BOOLEAN, stop : BOOLEAN]
    /\ loop \in LoopStates
    /\ round \in {"none", "running", "ok", "failed"}
    /\ bg.loop <=> loop.pc # "none"
    /\ round = "running" => loop.pc = "wait"
    /\ worker = "running" => bg.worker
    /\ bg.worker => bg.loop
    /\ life = "CONSTRUCTED" => loop.pc = "none"
    /\ startup = "prepare" => loop.pc = "none"
    /\ startup = "initial" => bg.loop
    /\ loop.initial = "ok" => ~loop.first
    /\ startup = "ok" => loop.initial = "ok" /\ bg.worker
    /\ life = "ACTIVE" => loop.initial = "ok" /\ bg.worker

LEMMA WorkInit == Init => WorkInv
  BY DEF Init, WorkInv, LoopStates

(* Steps that leave the background alone. *)
LEMMA WorkKept ==
    ASSUME WorkInv, UNCHANGED <<bg, loop, round, worker>>,
           startup' \in {startup, "none", "failed"},
           life' = life \/ life' \notin {"CONSTRUCTED", "ACTIVE"}
    PROVE  WorkInv'
<1>1. /\ (startup' = "prepare" => startup = "prepare") /\ (startup' = "initial" => startup = "initial")
      /\ (startup' = "ok" => startup = "ok")
  OBVIOUS
<1>2. (life' = "CONSTRUCTED" => life = "CONSTRUCTED") /\ (life' = "ACTIVE" => life = "ACTIVE")
  OBVIOUS
<1> QED  BY <1>1, <1>2 DEF WorkInv

LEMMA WorkStartup == ASSUME WorkInv, StartupNext PROVE WorkInv'
<1>1. CASE Enter
  <2>1. CASE life = "CONSTRUCTED"
    BY <1>1, <2>1 DEF Enter, WorkInv, work
  <2>2. CASE life # "CONSTRUCTED"
    BY <1>1, <2>2, WorkKept DEF Enter, work
  <2> QED  BY <2>1, <2>2
<1>2. CASE Prepared
  <2>1. CASE life = "STARTING"
    <3>1. /\ startup' = "initial" /\ bg' = [bg EXCEPT !.loop = TRUE] /\ life' = life
          /\ loop' = [loop EXCEPT !.pc = "tick"] /\ startup = "prepare"
          /\ UNCHANGED <<round, worker>>
      BY <1>2, <2>1 DEF Prepared
    <3>2. /\ bg' \in [loop : BOOLEAN, worker : BOOLEAN, stop : BOOLEAN]
          /\ bg'.loop = TRUE /\ bg'.worker = bg.worker
      BY <3>1, Zenon DEF WorkInv
    <3>3. /\ loop' \in LoopStates /\ loop'.pc = "tick" /\ loop'.first = loop.first
          /\ loop'.initial = loop.initial
      BY <3>1 DEF WorkInv, LoopStates
    <3> QED  BY <2>1, <3>1, <3>2, <3>3 DEF WorkInv
  <2>2. CASE life # "STARTING"
    BY <1>2, <2>2, WorkKept DEF Prepared
  <2> QED  BY <2>1, <2>2
<1>3. CASE InitialRoundKnown
  <2>1. CASE loop.initial = "ok"
    <3>1. /\ worker' = "running" /\ bg' = [bg EXCEPT !.worker = TRUE] /\ startup = "initial"
          /\ startup' \in {"ok", "failed"} /\ UNCHANGED <<life, loop, round>>
      BY <1>3, <2>1 DEF InitialRoundKnown
    <3>2. /\ bg' \in [loop : BOOLEAN, worker : BOOLEAN, stop : BOOLEAN]
          /\ bg'.loop = bg.loop /\ bg'.worker = TRUE
      BY <3>1, Zenon DEF WorkInv
    <3> QED  BY <2>1, <3>1, <3>2 DEF WorkInv
  <2>2. CASE loop.initial # "ok"
    BY <1>3, <2>2, WorkKept DEF InitialRoundKnown
  <2> QED  BY <2>1, <2>2
<1>4. CASE StartupFails
  BY <1>4, WorkKept DEF StartupFails, work
<1>5. CASE Activate
  BY <1>5 DEF Activate, WorkInv, work
<1>6. CASE LeaveLifespan
  BY <1>6, WorkKept DEF LeaveLifespan, work
<1> QED  BY <1>1, <1>2, <1>3, <1>4, <1>5, <1>6 DEF StartupNext

(* The first round decides once what startup waits for. *)
LEMMA WorkLoop == ASSUME WorkInv, WorkNext PROVE WorkInv'
<1>1. UNCHANGED <<life, startup>>
  BY DEF WorkNext, LoopTick, LoopRoundDone, LoopWakes, RoundEnds, WorkerEnds, ProbeWave, front
<1>2. ASSUME NEW pc \in {"tick", "wait", "pause", "done"}, NEW complete \in BOOLEAN,
             loop.pc # "none", UNCHANGED <<bg, worker>>,
             round' \in {"none", "running", "ok", "failed"},
             round' = "running" => pc = "wait",
             loop' \in {[loop EXCEPT !.pc = pc], [loop EXCEPT !.pc = pc, !.complete = complete]}
      PROVE  WorkInv'
  <2>1. /\ loop' \in LoopStates /\ loop'.pc = pc /\ loop'.first = loop.first
        /\ loop'.initial = loop.initial
    BY <1>2, ZenonT(30) DEF WorkInv, LoopStates
  <2> QED  BY <1>1, <1>2, <2>1 DEF WorkInv
<1>3. CASE LoopTick
  <2>1. /\ loop.pc = "tick" /\ UNCHANGED <<bg, worker>>
        /\ \/ round' = "running" /\ loop' = [loop EXCEPT !.pc = "wait"]
           \/ round' = round /\ loop' = [loop EXCEPT !.pc = "done", !.complete = TRUE]
    BY <1>3 DEF LoopTick
  <2>2. round \in {"none", "running", "ok", "failed"} /\ round # "running"
    BY <2>1 DEF WorkInv
  <2> QED  BY <1>2, <2>1, <2>2, Zenon
<1>4. CASE LoopRoundDone
  <2>1. loop.pc = "wait" /\ round # "running" /\ UNCHANGED <<bg, round, worker>>
    BY <1>4 DEF LoopRoundDone
  <2>2. CASE ~loop.first
    BY <1>2, <1>4, <2>1, <2>2, Zenon DEF LoopRoundDone, WorkInv
  <2>3. CASE loop.first
    <3>1. PICK pc \in {"done", "pause"}, initial \in {"none", round} :
             loop' = [loop EXCEPT !.complete = TRUE, !.first = FALSE, !.initial = initial, !.pc = pc]
      BY <1>4, <2>3, Zenon DEF LoopRoundDone
    <3>2. initial \in {"none", "ok", "failed"}
      BY <2>1, <3>1 DEF WorkInv
    <3>3. loop' \in LoopStates /\ loop'.pc = pc /\ loop'.first = FALSE
      BY <3>1, <3>2, Zenon DEF WorkInv, LoopStates
    <3>4. loop.initial # "ok"
      BY <2>3 DEF WorkInv
    <3> QED  BY <1>1, <2>1, <3>3, <3>4 DEF WorkInv
  <2> QED  BY <2>2, <2>3
<1>5. CASE LoopWakes
  BY <1>2, <1>5, Zenon DEF LoopWakes, WorkInv
<1>6. CASE RoundEnds
  BY <1>1, <1>6 DEF RoundEnds, WorkInv
<1>7. CASE WorkerEnds
  BY <1>1, <1>7 DEF WorkerEnds, WorkInv
<1>8. CASE ProbeWave
  BY <1>1, <1>8, WorkKept DEF ProbeWave, work
<1> QED  BY <1>3, <1>4, <1>5, <1>6, <1>7, <1>8 DEF WorkNext

LEMMA WorkClose ==
    ASSUME WorkInv, CleanupNext \/ AttemptEnds \/ \E c \in Callers : CallClose(c) \/ CloseReturns(c)
    PROVE  WorkInv'
<1>1. ASSUME DrainReadiness PROVE WorkInv'
  <2>1. /\ UNCHANGED <<life, startup, loop, round, worker>>
        /\ bg' \in [loop : BOOLEAN, worker : BOOLEAN, stop : BOOLEAN]
        /\ bg'.loop = bg.loop /\ bg'.worker = bg.worker
    <3>1. bg' = bg \/ bg' = [bg EXCEPT !.stop = @ \/ (bg.loop /\ ~deadline)]
      BY <1>1 DEF DrainReadiness
    <3> QED  BY <1>1, <3>1 DEF DrainReadiness, front, work, WorkInv
  <2> QED  BY <2>1 DEF WorkInv
<1>2. CASE \/ Quiesce \/ StopBackground \/ DrainTimesOut \/ ResourceCloseEnds
           \/ CleanupCancelled \/ CleanupSettled
  BY <1>2, WorkKept, Zenon DEF Quiesce, StopBackground, DrainTimesOut, ResourceCloseEnds,
     CleanupCancelled, CleanupSettled, front, work
<1>3. CASE AttemptEnds
  BY <1>3, WorkKept DEF AttemptEnds, front, work
<1>4. ASSUME NEW c \in Callers, CallClose(c) \/ CloseReturns(c) PROVE WorkInv'
  BY <1>4, WorkKept DEF CallClose, CloseReturns, work
<1> QED  BY <1>1, <1>2, <1>3, <1>4 DEF CleanupNext

LEMMA WorkInvariance == Spec => []WorkInv
<1>1. WorkInv /\ [Next]_vars => WorkInv'
  <2>1. ASSUME WorkInv, UNCHANGED vars PROVE WorkInv'
    BY <2>1, WorkKept DEF vars, front, work
  <2> QED  BY <2>1, WorkStartup, WorkLoop, WorkClose DEF Next
<1> QED  BY <1>1, WorkInit, PTL DEF Spec

----------------------------------------------------------------------------
(* What the stages of _close_all have established. *)

Stages == {"none", "quiesce", "readiness", "background", "closing", "settled"}

CloseTypes ==
    /\ cleanup \in [stage : Stages, at : Nat, failed : BOOLEAN]
    /\ closed \subseteq Resources
    /\ attempt \in Seq({"running", "ok", "failed", "deadline"})
    /\ closeTask \in 0 .. Len(attempt)
    /\ closer \in [Callers -> 0 .. Len(attempt)]
    /\ probe \in [admitted : BOOLEAN, wave : BOOLEAN, leaked : BOOLEAN]

(* A close that has begun ends serving for good. *)
BegunForGood ==
    /\ cleanup.stage # "none" => attempt # <<>>
    /\ attempt # <<>> => life \notin {"CONSTRUCTED", "STARTING", "ACTIVE"} /\ ~probe.admitted

(* Nothing runs, and a close has begun, so nothing can start. *)
Quiet ==
    /\ attempt # <<>> /\ startup = "none" /\ ~probe.wave
    /\ round # "running" /\ worker # "running" /\ loop.pc \in {"none", "done"}

JoinedInOrder ==
    /\ cleanup.stage \in {"readiness", "background", "closing"} => startup = "none"
    /\ cleanup.stage \in {"background", "closing"} => ~probe.wave
    /\ cleanup.stage = "closing" => Quiet
    /\ closed # {} => Quiet

(* The attempt closes in order what is not closed yet, and succeeds only    *)
(* with everything closed.                                                  *)
ClosedInOrder ==
    /\ cleanup.stage = "closing" =>
          /\ cleanup.at \in Resources \ closed
          /\ ~cleanup.failed => \A i \in Resources : i < cleanup.at => i \in closed
    /\ CleanupDone /\ attempt # <<>> /\ ~cleanup.failed => closed = Resources
    /\ \A i \in 1 .. Len(attempt) : attempt[i] = "ok" => closed = Resources
    /\ life = "CLOSED" => closed = Resources

CloseInv == CloseTypes /\ BegunForGood /\ JoinedInOrder /\ ClosedInOrder

USE LifecycleAssumption

LEMMA CloseInit == Init => CloseInv
  BY DEF Init, CloseInv, CloseTypes, BegunForGood, JoinedInOrder, ClosedInOrder, Stages

(* The least of a set of resources is one of them. *)
LEMMA LeastResource ==
    ASSUME NEW S \in SUBSET Nat, S # {}
    PROVE  Min(S) \in S /\ \A i \in S : Min(S) <= i
<1>1. \E x \in S : \A y \in S : ~(<<y, x>> \in OpToRel(<, Nat))
  BY NatLessThanWellFounded, WFMin, Zenon
<1>2. PICK x \in S : \A y \in S : ~(<<y, x>> \in OpToRel(<, Nat))
  BY <1>1
<1>3. \A y \in S : x <= y
  <2> SUFFICES ASSUME NEW y \in S, ~(x <= y) PROVE FALSE
    OBVIOUS
  <2>1. x \in Nat /\ y \in Nat /\ y < x
    OBVIOUS
  <2>2. <<y, x>> \in OpToRel(<, Nat)
    BY <2>1 DEF OpToRel
  <2> QED  BY <1>2, <2>2
<1> QED  BY <1>3, Zenon DEF Min

(* Quiet is stable: whatever starts work needs a runtime on which no close  *)
(* has begun, or startup under way.                                         *)
LEMMA QuietStays ==
    ASSUME probe \in [admitted : BOOLEAN, wave : BOOLEAN, leaked : BOOLEAN], BegunForGood, Quiet, [Next]_vars,
           attempt' # <<>>
    PROVE  Quiet'
<1>1. /\ attempt # <<>> /\ startup = "none" /\ ~probe.wave /\ ~probe.admitted
      /\ round # "running" /\ worker # "running" /\ loop.pc \in {"none", "done"}
      /\ life \notin {"CONSTRUCTED", "STARTING", "ACTIVE"}
  BY DEF Quiet, BegunForGood
<1>2. CASE StartupNext
  BY <1>1, <1>2 DEF StartupNext, Enter, Prepared, InitialRoundKnown, StartupFails, Activate,
     LeaveLifespan, StartupDone, Quiet, work, closing
<1>3. CASE WorkNext
  BY <1>1, <1>3 DEF WorkNext, LoopTick, LoopRoundDone, LoopWakes, RoundEnds, WorkerEnds,
     ProbeWave, Quiet, front, work, closing
<1>4. CASE CleanupNext \/ AttemptEnds
  <2>1. UNCHANGED <<probe, loop, round, worker>> /\ startup' = "none"
    BY <1>1, <1>4, Zenon
       DEF CleanupNext, Quiesce, DrainReadiness, StopBackground, DrainTimesOut,
       ResourceCloseEnds, CleanupCancelled, CleanupSettled, AttemptEnds, front, work
  <2> QED  BY <1>1, <2>1 DEF Quiet
<1>5. ASSUME NEW c \in Callers, CallClose(c) \/ CloseReturns(c) PROVE Quiet'
  <2>1. UNCHANGED <<startup, loop, round, worker>>
    BY <1>5 DEF CallClose, CloseReturns, work
  <2>2. ~probe'.wave
    <3>1. probe' \in {probe, [probe EXCEPT !.admitted = FALSE]}
      BY <1>5 DEF CallClose, CloseReturns
    <3> QED  BY <1>1, <3>1
  <2> QED  BY <1>1, <2>1, <2>2 DEF Quiet
<1>6. CASE UNCHANGED vars
  BY <1>1, <1>6 DEF vars, front, work, closing, Quiet
<1> QED  BY <1>2, <1>3, <1>4, <1>5, <1>6 DEF Next

(* What the next stage is when resources are closed from at on. *)
LEMMA CloseNextSound ==
    ASSUME NEW at \in Nat, NEW done \in SUBSET Resources, NEW failed \in BOOLEAN,
           ~failed => \A i \in Resources : i <= at => i \in done,
           NEW next, next = CloseNext(at, done, failed)
    PROVE  /\ next \in [stage : Stages, at : Nat, failed : BOOLEAN]
           /\ next.stage \in {"closing", "settled"}
           /\ next.failed = failed
           /\ next.stage = "closing" =>
                 /\ next.at \in Resources \ done
                 /\ ~failed => \A i \in Resources : i < next.at => i \in done
           /\ next.stage = "settled" /\ ~failed => done = Resources
<1> DEFINE R == Remaining(at, done)
<1>1. R \subseteq Resources \ done /\ R \subseteq Nat
      /\ \A i \in Resources : i \in R \/ i \in done \/ i <= at
  BY DEF Remaining, Resources
<1>2. CASE R = {}
  <2>1. next = [stage |-> "settled", at |-> 0, failed |-> failed]
    BY <1>2 DEF CloseNext
  <2>2. ~failed => done = Resources
    BY <1>1, <1>2, Zenon
  <2> QED  BY <2>1, <2>2 DEF Stages
<1>3. CASE R # {}
  <2> DEFINE m == Min(R)
  <2>1. next = [stage |-> "closing", at |-> m, failed |-> failed]
    BY <1>3 DEF CloseNext
  <2>2. m \in R /\ \A i \in R : m <= i
    BY <1>1, <1>3, LeastResource
  <2> HIDE DEF m
  <2>3. m \in Nat /\ m \in Resources \ done
    BY <1>1, <2>2
  <2> HIDE DEF R
  <2>4. ASSUME ~failed, NEW i \in Resources, i < m PROVE i \in done
    <3>1. i \in Nat /\ ~(m <= i)
      BY <2>3, <2>4 DEF Resources
    <3> QED  BY <1>1, <2>2, <2>4, <3>1
  <2> QED  BY <2>1, <2>3, <2>4 DEF Stages
<1> QED  BY <1>2, <1>3

(* A step of the cleanup task or of nothing at all. *)
LEMMA CloseStage ==
    ASSUME CloseInv, UNCHANGED <<attempt, closeTask, closer, probe>>,
           life' \in {life, "DEADLINE_EXCEEDED"}, attempt # <<>>,
           cleanup' \in [stage : Stages, at : Nat, failed : BOOLEAN],
           closed \subseteq closed', closed' \subseteq Resources,
           JoinedInOrder',
           cleanup'.stage = "closing" =>
              /\ cleanup'.at \in Resources \ closed'
              /\ ~cleanup'.failed => \A i \in Resources : i < cleanup'.at => i \in closed',
           cleanup'.stage \in {"none", "settled"} /\ ~cleanup'.failed => closed' = Resources
    PROVE  CloseInv'
<1>1. CloseTypes'
  BY DEF CloseInv, CloseTypes
<1>2. BegunForGood'
  BY DEF CloseInv, BegunForGood
<1>3. closed = Resources => closed' = Resources
  BY Zenon
<1>4. Resources' = Resources
  BY DEF Resources
<1>5. ClosedInOrder'
  BY <1>3, <1>4 DEF CloseInv, ClosedInOrder, CleanupDone
<1> QED  BY <1>1, <1>2, <1>5 DEF CloseInv

(* Where the fence sends the cleanup task. *)
LEMMA FenceSound ==
    ASSUME CloseTypes, NEW next, Fenced(next)
    PROVE  \/ cleanup' = next
           \/ /\ cleanup'.stage = "settled" /\ cleanup'.failed
              /\ cleanup' \in [stage : Stages, at : Nat, failed : BOOLEAN]
  BY Zenon DEF CloseTypes, Fenced, Stages

LEMMA StageSound ==
    ASSUME CloseTypes, NEW stage \in Stages, NEW next, next = Stage(stage)
    PROVE  next \in [stage : Stages, at : Nat, failed : BOOLEAN] /\ next.stage = stage
  BY DEF CloseTypes, Stage

(* The cleanup task up to the release of resources. *)
LEMMA CloseJoins ==
    ASSUME WorkInv, CloseInv, Quiesce \/ DrainReadiness \/ StopBackground
    PROVE  CloseInv'
<1>1. /\ UNCHANGED <<life, probe, attempt, closeTask, closed, closer, loop, round, worker>>
      /\ cleanup.stage \in {"quiesce", "readiness", "background"}
  BY Zenon DEF Quiesce, DrainReadiness, StopBackground, front, work
<1>2. CloseTypes /\ attempt # <<>> /\ closed \in SUBSET Resources
  BY <1>1 DEF CloseInv, BegunForGood, CloseTypes
<1>3. startup' = "none"
  BY <1>1, Zenon DEF Quiesce, DrainReadiness, StopBackground, front, CloseInv, JoinedInOrder
<1>4. closed # {} => Quiet
  BY DEF CloseInv, JoinedInOrder
<1>5. closed' # {} => Quiet'
  BY <1>1, <1>3, <1>4 DEF Quiet
<1>6. \A i \in Resources : ~(i <= 0)
  BY DEF Resources
<1>7. ASSUME cleanup'.stage = "settled", cleanup'.failed,
             cleanup' \in [stage : Stages, at : Nat, failed : BOOLEAN]
      PROVE  CloseInv'
  <2>1. JoinedInOrder'
    BY <1>5, <1>7 DEF JoinedInOrder
  <2> QED  BY <1>1, <1>2, <1>7, <2>1, CloseStage
<1>8. ASSUME NEW stage \in {"readiness", "background"}, cleanup' = Stage(stage),
             stage = "background" => ~probe.wave
      PROVE  CloseInv'
  <2>1. cleanup' \in [stage : Stages, at : Nat, failed : BOOLEAN] /\ cleanup'.stage = stage
    BY <1>2, <1>8, StageSound DEF Stages
  <2>2. JoinedInOrder'
    BY <1>1, <1>3, <1>5, <1>8, <2>1 DEF JoinedInOrder
  <2> QED  BY <1>1, <1>2, <2>1, <2>2, CloseStage
<1>9. ASSUME cleanup' = CloseNext(0, closed, FALSE), Quiet' PROVE CloseInv'
  <2>1. /\ cleanup' \in [stage : Stages, at : Nat, failed : BOOLEAN]
        /\ cleanup'.stage \in {"closing", "settled"}
        /\ cleanup'.stage = "closing" =>
              /\ cleanup'.at \in Resources \ closed
              /\ \A i \in Resources : i < cleanup'.at => i \in closed
        /\ cleanup'.stage = "settled" => closed = Resources
    BY <1>2, <1>6, <1>9, CloseNextSound, Zenon
  <2>2. JoinedInOrder'
    BY <1>3, <1>9, <2>1, Zenon DEF JoinedInOrder, Quiet
  <2> QED  BY <1>1, <1>2, <2>1, <2>2, CloseStage
<1>10. CASE Quiesce
  <2>1. Fenced(Stage("readiness"))
    BY <1>10 DEF Quiesce
  <2> QED  BY <1>2, <1>7, <1>8, <2>1, FenceSound
<1>11. CASE DrainReadiness
  <2>1. ~probe.wave
    BY <1>11 DEF DrainReadiness
  <2>l. CASE probe.leaked
    <3>1. cleanup' = [cleanup EXCEPT !.stage = "settled", !.failed = TRUE]
      BY <1>11, <2>l DEF DrainReadiness
    <3>2. cleanup' \in [stage : Stages, at : Nat, failed : BOOLEAN]
      BY <1>2, <3>1 DEF CloseTypes, Stages
    <3>3. cleanup'.stage = "settled" /\ cleanup'.failed
      BY <1>2, <3>1 DEF CloseTypes
    <3> QED  BY <1>7, <3>2, <3>3
  <2>2. CASE ~probe.leaked /\ bg.loop
    <3>1. Fenced(Stage("background"))
      BY <1>11, <2>2 DEF DrainReadiness
    <3> QED  BY <1>2, <1>7, <1>8, <2>1, <3>1, FenceSound
  <2>3. CASE ~probe.leaked /\ ~bg.loop
    <3>1. Fenced(CloseNext(0, closed, FALSE))
      BY <1>11, <2>3, Zenon DEF DrainReadiness
    <3>2. loop.pc = "none" /\ round # "running" /\ worker # "running"
      BY <2>3 DEF WorkInv
    <3>3. Quiet'
      BY <1>1, <1>2, <1>3, <2>1, <3>2 DEF Quiet
    <3> QED  BY <1>2, <1>7, <1>9, <3>1, <3>3, FenceSound, Zenon
  <2> QED  BY <2>l, <2>2, <2>3
<1>12. CASE StopBackground
  <2>1. Fenced(CloseNext(0, closed, FALSE)) /\ cleanup.stage = "background" /\ BackgroundDrained
    BY <1>12, Zenon DEF StopBackground
  <2>2. round # "running" /\ worker # "running" /\ loop.pc = "done" /\ ~probe.wave
    BY <2>1 DEF BackgroundDrained, WorkInv, CloseInv, JoinedInOrder
  <2>3. Quiet'
    BY <1>1, <1>2, <1>3, <2>2 DEF Quiet
  <2> QED  BY <1>2, <1>7, <1>9, <2>1, <2>3, FenceSound, Zenon
<1> QED  BY <1>10, <1>11, <1>12

(* The release of a resource, and the ends of the cleanup task. *)
LEMMA CloseReleases ==
    ASSUME WorkInv, CloseInv,
           ResourceCloseEnds \/ DrainTimesOut \/ CleanupCancelled \/ CleanupSettled
    PROVE  CloseInv'
<1>1. /\ UNCHANGED <<probe, attempt, closeTask, closer, startup, loop, round, worker>>
      /\ life' \in {life, "DEADLINE_EXCEEDED"} /\ cleanup.stage # "none"
  BY DEF ResourceCloseEnds, DrainTimesOut, CleanupCancelled, CleanupSettled, CleanupDone, front, work
<1>2. CloseTypes /\ attempt # <<>> /\ closed \in SUBSET Resources
  BY <1>1 DEF CloseInv, BegunForGood, CloseTypes
<1>3. Quiet => Quiet'
  BY <1>1 DEF Quiet
<1>4. closed # {} \/ cleanup.stage = "closing" => Quiet
  BY DEF CloseInv, JoinedInOrder
<1>5. ASSUME cleanup'.stage \in {"settled", "none"}, closed \subseteq closed', closed' \subseteq Resources,
             cleanup'.failed \/ closed' = Resources, closed' # {} => Quiet',
             cleanup' \in [stage : Stages, at : Nat, failed : BOOLEAN]
      PROVE  CloseInv'
  <2>1. JoinedInOrder'
    BY <1>5 DEF JoinedInOrder
  <2> QED  BY <1>1, <1>2, <1>5, <2>1, CloseStage
<1>6. CASE DrainTimesOut \/ CleanupCancelled
  <2>1. closed' = closed /\ cleanup' = [cleanup EXCEPT !.stage = "settled", !.failed = TRUE]
    BY <1>6 DEF DrainTimesOut, CleanupCancelled
  <2>2. cleanup' \in [stage : Stages, at : Nat, failed : BOOLEAN]
        /\ cleanup'.stage = "settled" /\ cleanup'.failed
    BY <1>2, <2>1, Zenon DEF CloseTypes, Stages
  <2> QED  BY <1>2, <1>3, <1>4, <1>5, <2>1, <2>2
<1>7. CASE CleanupSettled
  <2>1. closed' = closed /\ cleanup' = [cleanup EXCEPT !.stage = "none"] /\ cleanup.stage = "settled"
    BY <1>7 DEF CleanupSettled
  <2>2. cleanup' \in [stage : Stages, at : Nat, failed : BOOLEAN]
        /\ cleanup'.stage = "none" /\ cleanup'.failed = cleanup.failed
    BY <1>2, <2>1, Zenon DEF CloseTypes, Stages
  <2>3. cleanup.failed \/ closed = Resources
    BY <1>2, <2>1 DEF CloseInv, ClosedInOrder, CleanupDone
  <2> QED  BY <1>2, <1>3, <1>4, <1>5, <2>1, <2>2, <2>3
<1>8. CASE ResourceCloseEnds
  <2>1. PICK ok \in BOOLEAN :
           /\ closed' = IF ok THEN closed \cup {cleanup.at} ELSE closed
           /\ Fenced(CloseNext(cleanup.at, closed', cleanup.failed \/ ~ok))
    BY <1>8 DEF ResourceCloseEnds
  <2>2. /\ cleanup.stage = "closing" /\ cleanup.at \in Resources \ closed
        /\ ~cleanup.failed => \A i \in Resources : i < cleanup.at => i \in closed
    BY <1>8 DEF ResourceCloseEnds, CloseInv, ClosedInOrder
  <2>3. closed \subseteq closed' /\ closed' \in SUBSET Resources /\ Quiet'
    BY <1>2, <1>3, <1>4, <2>1, <2>2
  <2>4. CASE cleanup' = CloseNext(cleanup.at, closed', cleanup.failed \/ ~ok)
    <3>0. PICK failed \in BOOLEAN : failed = (cleanup.failed \/ ~ok)
      BY Zenon
    <3>1. cleanup.at \in Nat
      BY <1>2 DEF CloseTypes
    <3>2. ~failed => \A i \in Resources : i <= cleanup.at => i \in closed'
      <4> SUFFICES ASSUME ~failed, NEW i \in Resources, i <= cleanup.at PROVE i \in closed'
        OBVIOUS
      <4>1. closed' = closed \cup {cleanup.at} /\ ~cleanup.failed
        BY <2>1, <3>0, Zenon
      <4>2. i = cleanup.at \/ i < cleanup.at
        BY <2>2 DEF Resources
      <4> QED  BY <2>2, <4>1, <4>2
    <3>3. /\ cleanup' \in [stage : Stages, at : Nat, failed : BOOLEAN]
          /\ cleanup'.stage \in {"closing", "settled"} /\ cleanup'.failed = failed
          /\ cleanup'.stage = "closing" =>
                /\ cleanup'.at \in Resources \ closed'
                /\ ~failed => \A i \in Resources : i < cleanup'.at => i \in closed'
          /\ cleanup'.stage = "settled" /\ ~failed => closed' = Resources
      <4>1. cleanup' = CloseNext(cleanup.at, closed', failed)
        BY <2>4, <3>0
      <4>2. CASE failed = TRUE
        <5>1. cleanup' = CloseNext(cleanup.at, closed', TRUE)
          BY <4>1, <4>2
        <5> QED  BY <2>3, <3>1, <4>2, <5>1, CloseNextSound, Zenon
      <4>3. CASE failed = FALSE
        <5>1. cleanup' = CloseNext(cleanup.at, closed', FALSE)
          BY <4>1, <4>3, Zenon
        <5>2. \A i \in Resources : i <= cleanup.at => i \in closed'
          BY <3>2, <4>3
        <5>3. /\ cleanup' \in [stage : Stages, at : Nat, failed : BOOLEAN]
              /\ cleanup'.stage \in {"closing", "settled"} /\ cleanup'.failed = FALSE
              /\ cleanup'.stage = "closing" =>
                    /\ cleanup'.at \in Resources \ closed'
                    /\ \A i \in Resources : i < cleanup'.at => i \in closed'
              /\ cleanup'.stage = "settled" => closed' = Resources
          <6>1. PICK at \in Nat, done \in SUBSET Resources : at = cleanup.at /\ done = closed'
            BY <2>3, <3>1
          <6>2. cleanup' = CloseNext(at, done, FALSE) /\ \A i \in Resources : i <= at => i \in done
            BY <5>1, <5>2, <6>1
          <6>3. /\ cleanup' \in [stage : Stages, at : Nat, failed : BOOLEAN]
                /\ cleanup'.stage \in {"closing", "settled"} /\ cleanup'.failed = FALSE
                /\ cleanup'.stage = "closing" =>
                      /\ cleanup'.at \in Resources \ done
                      /\ \A i \in Resources : i < cleanup'.at => i \in done
                /\ cleanup'.stage = "settled" => done = Resources
            BY <6>2, CloseNextSound, Zenon
          <6> QED  BY <6>1, <6>3
        <5> QED  BY <4>3, <5>3
      <4> QED  BY <4>2, <4>3, Zenon
    <3>4. JoinedInOrder'
      BY <2>3, <3>3 DEF JoinedInOrder, Quiet
    <3> QED  BY <1>1, <1>2, <2>3, <3>1, <3>3, <3>4, CloseStage
  <2>5. CASE /\ cleanup'.stage = "settled" /\ cleanup'.failed
             /\ cleanup' \in [stage : Stages, at : Nat, failed : BOOLEAN]
    BY <1>5, <2>3, <2>5
  <2> QED  BY <1>2, <2>1, <2>4, <2>5, FenceSound
<1> QED  BY <1>6, <1>7, <1>8

(* Startup and the background work leave the close alone. *)
LEMMA CloseKept ==
    ASSUME CloseInv, UNCHANGED closing, [Next]_vars,
           probe' \in [admitted : BOOLEAN, wave : BOOLEAN, leaked : BOOLEAN],
           attempt # <<>> =>
              /\ life' = life /\ (startup = "none" => startup' = "none")
              /\ (~probe.admitted => ~probe'.admitted)
              /\ (~probe.admitted /\ ~probe.wave => ~probe'.wave),
           life' = "CLOSED" => life = "CLOSED"
    PROVE  CloseInv'
<1>1. UNCHANGED <<cleanup, attempt, closeTask, closed, closer>>
  BY DEF closing
<1>2. CloseTypes'
  BY <1>1 DEF CloseInv, CloseTypes
<1>3. BegunForGood'
  BY <1>1 DEF CloseInv, BegunForGood
<1>4. ClosedInOrder'
  BY <1>1 DEF CloseInv, ClosedInOrder, CleanupDone
<1>5. Quiet => Quiet'
  <2> HAVE Quiet
  <2>1. attempt' # <<>> /\ probe \in [admitted : BOOLEAN, wave : BOOLEAN, leaked : BOOLEAN] /\ BegunForGood
    BY <1>1 DEF Quiet, CloseInv, CloseTypes
  <2> QED  BY <2>1, QuietStays
<1>6. JoinedInOrder'
  BY <1>1, <1>5 DEF CloseInv, JoinedInOrder, BegunForGood
<1> QED  BY <1>2, <1>3, <1>4, <1>6 DEF CloseInv

LEMMA CloseFront == ASSUME CloseInv, StartupNext \/ WorkNext PROVE CloseInv'
<1>1. UNCHANGED closing /\ [Next]_vars
  BY DEF StartupNext, WorkNext, Enter, Prepared, InitialRoundKnown, StartupFails, Activate,
     LeaveLifespan, LoopTick, LoopRoundDone, LoopWakes, RoundEnds, WorkerEnds, ProbeWave, Next
<1>2. probe \in [admitted : BOOLEAN, wave : BOOLEAN, leaked : BOOLEAN]
  BY DEF CloseInv, CloseTypes
<1>3. attempt # <<>> => life \notin {"CONSTRUCTED", "STARTING", "ACTIVE"} /\ ~probe.admitted
  BY DEF CloseInv, BegunForGood
<1>4. CASE StartupNext
  <2>1. CASE Activate
    <3>1. /\ life = "STARTING" /\ life' = "ACTIVE" /\ probe' = [probe EXCEPT !.admitted = TRUE]
      BY <2>1 DEF Activate
    <3>2. probe' \in [admitted : BOOLEAN, wave : BOOLEAN, leaked : BOOLEAN]
      BY <1>2, <3>1, Zenon
    <3> QED  BY <1>1, <1>3, <3>1, <3>2, CloseKept
  <2>2. ASSUME ~Activate PROVE CloseInv'
    <3>1. /\ probe' = probe
          /\ life' = life \/ (life = "CONSTRUCTED" /\ life' = "STARTING")
          /\ startup = "none" => startup' = "none" \/ life = "CONSTRUCTED"
      BY <1>4, <2>2 DEF StartupNext, Enter, Prepared, InitialRoundKnown, StartupFails, LeaveLifespan
    <3> QED  BY <1>1, <1>2, <1>3, <3>1, CloseKept
  <2> QED  BY <2>1, <2>2
<1>5. CASE WorkNext
  <2>1. CASE ProbeWave
    <3>1. /\ UNCHANGED <<life, startup>>
          /\ \/ probe.admitted /\ probe' = [probe EXCEPT !.wave = TRUE]
             \/ \E leaked \in {probe.leaked, TRUE} :
                   probe' = [probe EXCEPT !.wave = FALSE, !.leaked = leaked]
      BY <2>1 DEF ProbeWave
    <3>2. /\ probe' \in [admitted : BOOLEAN, wave : BOOLEAN, leaked : BOOLEAN]
          /\ probe'.admitted = probe.admitted
          /\ ~probe.admitted => ~probe'.wave
      BY <1>2, <3>1, Zenon
    <3> QED  BY <1>1, <3>1, <3>2, CloseKept
  <2>2. CASE LoopTick \/ LoopRoundDone \/ LoopWakes \/ RoundEnds \/ WorkerEnds
    <3>1. UNCHANGED <<life, startup, probe>>
      BY <2>2 DEF LoopTick, LoopRoundDone, LoopWakes, RoundEnds, WorkerEnds, front
    <3> QED  BY <1>1, <1>2, <3>1, CloseKept
  <2> QED  BY <1>5, <2>1, <2>2 DEF WorkNext
<1> QED  BY <1>4, <1>5

LEMMA CloseOutcome == ASSUME CloseInv, AttemptEnds PROVE CloseInv'
<1>1. /\ UNCHANGED <<life, probe, startup, loop, round, worker, cleanup, closeTask, closed, closer>>
      /\ closeTask # 0
      /\ \E outcome \in {"ok", "failed", "deadline"} :
            /\ attempt' = [attempt EXCEPT ![closeTask] = outcome]
            /\ outcome = "ok" => CleanupDone /\ ~cleanup.failed
  BY DEF AttemptEnds, front, work
<1>2. PICK outcome \in {"ok", "failed", "deadline"} :
         /\ attempt' = [attempt EXCEPT ![closeTask] = outcome]
         /\ outcome = "ok" => CleanupDone /\ ~cleanup.failed
  BY <1>1, Zenon
<1>3. attempt \in Seq({"running", "ok", "failed", "deadline"}) /\ closeTask \in 1 .. Len(attempt)
  BY <1>1 DEF CloseInv, CloseTypes
<1>4. /\ attempt' \in Seq({"running", "ok", "failed", "deadline"}) /\ Len(attempt') = Len(attempt)
      /\ \A i \in 1 .. Len(attempt) : attempt'[i] = IF i = closeTask THEN outcome ELSE attempt[i]
  BY <1>2, <1>3
<1>5. attempt # <<>> /\ attempt' # <<>>
  BY <1>3, <1>4
<1>6. CloseTypes'
  BY <1>1, <1>4 DEF CloseInv, CloseTypes
<1>7. BegunForGood' /\ JoinedInOrder'
  BY <1>1, <1>5 DEF CloseInv, BegunForGood, JoinedInOrder, Quiet
<1>8. outcome = "ok" => closed = Resources
  BY <1>2, <1>5 DEF CloseInv, ClosedInOrder
<1>9. \A i \in 1 .. Len(attempt') : attempt'[i] = "ok" => closed' = Resources
  BY <1>1, <1>4, <1>8 DEF CloseInv, ClosedInOrder
<1>10. ClosedInOrder'
  BY <1>1, <1>5, <1>9 DEF CloseInv, ClosedInOrder, CleanupDone, Resources
<1> QED  BY <1>6, <1>7, <1>10 DEF CloseInv

LEMMA CloseCalled == ASSUME CloseInv, NEW c \in Callers, CallClose(c) PROVE CloseInv'
<1>1. UNCHANGED <<startup, loop, round, worker, closed>>
  BY DEF CallClose, work
<1>2. /\ closer \in [Callers -> 0 .. Len(attempt)] /\ closeTask \in 0 .. Len(attempt)
      /\ attempt \in Seq({"running", "ok", "failed", "deadline"})
      /\ probe \in [admitted : BOOLEAN, wave : BOOLEAN, leaked : BOOLEAN]
  BY DEF CloseInv, CloseTypes
<1>3. CASE UNCHANGED <<life, probe, cleanup, attempt, closeTask>>
  <2>1. closer' \in [Callers -> 0 .. Len(attempt)]
    <3>1. closer' \in {closer, [closer EXCEPT ![c] = closeTask]}
      BY <1>3 DEF CallClose
    <3> QED  BY <1>2, <3>1
  <2>2. CloseTypes'
    BY <1>1, <1>3, <2>1 DEF CloseInv, CloseTypes
  <2>3. BegunForGood' /\ JoinedInOrder' /\ ClosedInOrder'
    BY <1>1, <1>3 DEF CloseInv, BegunForGood, JoinedInOrder, ClosedInOrder, Quiet, CleanupDone
  <2> QED  BY <2>2, <2>3 DEF CloseInv
<1>4. ASSUME ~ UNCHANGED <<life, probe, cleanup, attempt, closeTask>> PROVE CloseInv'
  <2>1. /\ life' = "STOPPING" /\ life # "CLOSED"
        /\ probe' = [probe EXCEPT !.admitted = FALSE]
        /\ attempt' = Append(attempt, "running")
        /\ closeTask' = Len(attempt')
        /\ closer' = [closer EXCEPT ![c] = closeTask']
        /\ cleanup' = [stage |-> "quiesce", at |-> 0, failed |-> FALSE]
    BY <1>4 DEF CallClose
  <2>2. /\ attempt' \in Seq({"running", "ok", "failed", "deadline"})
        /\ Len(attempt') = Len(attempt) + 1 /\ attempt' # <<>>
        /\ \A i \in 1 .. Len(attempt') :
              attempt'[i] = IF i = Len(attempt) + 1 THEN "running" ELSE attempt[i]
    BY <1>2, <2>1
  <2>3. /\ probe' \in [admitted : BOOLEAN, wave : BOOLEAN, leaked : BOOLEAN]
        /\ probe'.admitted = FALSE /\ probe'.wave = probe.wave
    BY <1>2, <2>1, Zenon
  <2>4. closeTask' \in 0 .. Len(attempt') /\ closer' \in [Callers -> 0 .. Len(attempt')]
    BY <1>2, <2>1, <2>2
  <2>5. CloseTypes'
    BY <1>1, <2>1, <2>2, <2>3, <2>4 DEF CloseInv, CloseTypes, Stages
  <2>6. BegunForGood'
    BY <2>1, <2>2, <2>3 DEF BegunForGood
  <2>7. closed' # {} => Quiet'
    BY <1>1, <2>2, <2>3 DEF CloseInv, JoinedInOrder, Quiet
  <2>8. JoinedInOrder'
    BY <2>1, <2>7 DEF JoinedInOrder
  <2>9. \A i \in 1 .. Len(attempt') : attempt'[i] = "ok" => closed' = Resources
    <3> SUFFICES ASSUME NEW i \in 1 .. Len(attempt'), attempt'[i] = "ok" PROVE closed' = Resources
      OBVIOUS
    <3>1. i # Len(attempt) + 1 /\ attempt[i] = "ok"
      BY <2>2
    <3>2. i \in 1 .. Len(attempt)
      BY <1>2, <2>2, <3>1
    <3>3. \A j \in 1 .. Len(attempt) : attempt[j] = "ok" => closed = Resources
      BY DEF CloseInv, ClosedInOrder
    <3> QED  BY <1>1, <3>1, <3>2, <3>3
  <2>10. ClosedInOrder'
    BY <2>1, <2>9 DEF ClosedInOrder, CleanupDone, Resources
  <2> QED  BY <2>5, <2>6, <2>8, <2>10 DEF CloseInv
<1> QED  BY <1>3, <1>4

LEMMA CloseReturned == ASSUME CloseInv, NEW c \in Callers, CloseReturns(c) PROVE CloseInv'
<1>1. /\ UNCHANGED <<startup, loop, round, worker, closed, probe, cleanup, attempt>>
      /\ closer[c] # 0 /\ closer' = [closer EXCEPT ![c] = 0]
      /\ closeTask' \in {0, closeTask}
      /\ life' \in {"DEADLINE_EXCEEDED", "CLEANUP_PENDING", "CLOSE_FAILED", "CLOSED", life}
      /\ life' = "CLOSED" => life = "CLOSED" \/ attempt[closer[c]] = "ok"
  BY DEF CloseReturns, work
<1>2. /\ closer \in [Callers -> 0 .. Len(attempt)] /\ closeTask \in 0 .. Len(attempt)
      /\ attempt \in Seq({"running", "ok", "failed", "deadline"})
  BY DEF CloseInv, CloseTypes
<1>3. closer[c] \in 1 .. Len(attempt) /\ attempt # <<>>
  BY <1>1, <1>2
<1>4. closer' \in [Callers -> 0 .. Len(attempt)] /\ closeTask' \in 0 .. Len(attempt)
  BY <1>1, <1>2
<1>5. CloseTypes'
  BY <1>1, <1>4 DEF CloseInv, CloseTypes
<1>6. life' = "CLOSED" => closed = Resources
  BY <1>1, <1>3 DEF CloseInv, ClosedInOrder
<1>7. BegunForGood'
  BY <1>1, <1>3 DEF CloseInv, BegunForGood
<1>8. JoinedInOrder' /\ ClosedInOrder'
  BY <1>1, <1>6 DEF CloseInv, JoinedInOrder, ClosedInOrder, Quiet, CleanupDone, Resources
<1> QED  BY <1>5, <1>7, <1>8 DEF CloseInv

LEMMA CloseInvariance == Spec => [](WorkInv /\ CloseInv)
<1>1. WorkInv /\ CloseInv /\ [Next]_vars => CloseInv'
  <2> SUFFICES ASSUME WorkInv, CloseInv, [Next]_vars PROVE CloseInv'
    OBVIOUS
  <2>1. CASE StartupNext \/ WorkNext
    BY <2>1, CloseFront
  <2>2. CASE CleanupNext
    BY <2>2, CloseJoins, CloseReleases DEF CleanupNext
  <2>3. CASE AttemptEnds
    BY <2>3, CloseOutcome
  <2>4. CASE \E c \in Callers : CallClose(c) \/ CloseReturns(c)
    BY <2>4, CloseCalled, CloseReturned
  <2>5. CASE UNCHANGED vars
    <3>1. UNCHANGED closing /\ UNCHANGED <<life, startup, probe>>
      BY <2>5 DEF vars, front
    <3>2. probe \in [admitted : BOOLEAN, wave : BOOLEAN, leaked : BOOLEAN]
      BY DEF CloseInv, CloseTypes
    <3> QED  BY <3>1, <3>2, CloseKept
  <2> QED  BY <2>1, <2>2, <2>3, <2>4, <2>5 DEF Next
<1> QED  BY <1>1, CloseInit, WorkInvariance, PTL DEF Spec

(* From the first release of a resource on nothing runs that could use one, *)
(* and nothing can start (_close_all joins startup, the readiness probes    *)
(* and the background group before it closes the first resource).           *)
THEOREM ResourcesLast == Spec => []ResourcesOutliveWork
<1>1. CloseInv => ResourcesOutliveWork
  BY DEF CloseInv, JoinedInOrder, BegunForGood, Quiet, ResourcesOutliveWork
<1> QED  BY <1>1, CloseInvariance, PTL

(* The state the runtime reports is true: CLOSED with every resource        *)
(* released, ACTIVE after a successful first round with the worker started, *)
(* and never serving again once aclose has begun.                           *)
THEOREM ReportedLife == Spec => []ReportedLifeIsTrue
<1>1. WorkInv /\ CloseInv => ReportedLifeIsTrue
  BY DEF WorkInv, CloseInv, BegunForGood, ClosedInOrder, ReportedLifeIsTrue
<1> QED  BY <1>1, CloseInvariance, PTL

(* No resource is closed twice, in whatever attempt, and no close is        *)
(* started once the cleanup deadline has fired.                             *)
THEOREM ClosesFenced == Spec => ClosesAreFenced
<1> DEFINE Step == cleanup'.stage = "closing" => /\ cleanup'.at \notin closed'
                                                 /\ deadline => cleanup' = cleanup
<1>1. CloseInv /\ CloseInv' /\ [Next]_vars => [Step]_vars
  <2> SUFFICES ASSUME CloseInv, CloseInv', Next, cleanup'.stage = "closing"
               PROVE  cleanup'.at \notin closed' /\ (deadline => cleanup' = cleanup)
    OBVIOUS
  <2>1. cleanup'.at \notin closed'
    BY DEF CloseInv, ClosedInOrder
  <2>2. CloseTypes
    BY DEF CloseInv
  <2>3. ASSUME deadline, cleanup' # cleanup PROVE FALSE
    <3>1. CASE CleanupNext
      <4>1. cleanup' = [cleanup EXCEPT !.stage = "settled", !.failed = TRUE]
            \/ cleanup' = [cleanup EXCEPT !.stage = "none"]
        BY <2>3, <3>1, Zenon
           DEF CleanupNext, Quiesce, DrainReadiness, StopBackground, DrainTimesOut,
           ResourceCloseEnds, CleanupCancelled, CleanupSettled, Fenced
      <4> QED  BY <2>2, <4>1, Zenon DEF CloseTypes
    <3>2. CASE ~CleanupNext
      <4>1. cleanup' = cleanup \/ cleanup' = [stage |-> "quiesce", at |-> 0, failed |-> FALSE]
        BY <3>2 DEF Next, StartupNext, WorkNext, Enter, Prepared, InitialRoundKnown, StartupFails,
           Activate, LeaveLifespan, LoopTick, LoopRoundDone, LoopWakes, RoundEnds, WorkerEnds,
           ProbeWave, AttemptEnds, CallClose, CloseReturns, closing
      <4> QED  BY <2>3, <4>1
    <3> QED  BY <3>1, <3>2
  <2> QED  BY <2>1, <2>3
<1> QED  BY <1>1, CloseInvariance, PTL DEF Spec, ClosesAreFenced

============================================================================
