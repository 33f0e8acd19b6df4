-------------------------- MODULE RuntimeLifecycle -------------------------
(***************************************************************************)
(* Startup and shutdown of the process: RuntimeResources.lifespan and      *)
(* aclose around the background group (the periodic reconciliation service *)
(* with its single-flight scheduler, and the history worker), the          *)
(* readiness probes and the external resources, the database engine last.  *)
(*                                                                         *)
(* One event loop runs every coroutine, so a step is what a coroutine does *)
(* between two awaits.  A timeout is an event that may fire whenever the   *)
(* coroutine it guards is waiting.  Rounds, probes, the worker and the     *)
(* close calls of other libraries may take forever.                        *)
(***************************************************************************)
EXTENDS Integers, Sequences, FiniteSetsExt

CONSTANTS
    Closers,     \* callers of aclose other than the lifespan
    Order,       \* the external resources in the order they are closed
    MaxCloses    \* bound: close attempts

ASSUME LifecycleAssumption ==
    /\ MaxCloses \in Nat \ {0}
    /\ Order \in Seq(STRING) /\ Len(Order) > 0

VARIABLES
    life,      \* _lifecycle_state
    lifespan,  \* progress of the lifespan context manager
    startup,   \* _startup_task: what it awaits or how it ended, or none
    bg,        \* _background_start_attempted, the services attempted, the stop signals
    loop,      \* PeriodicReconciliationService._run
    round,     \* ReconciliationScheduler._active_task
    worker,    \* HistoryCollectionWorker._task
    probe,     \* readiness: admitted or not, its wave of probes, _close_failed
    cleanup,   \* _cleanup_task: the stage of _close_all
    attempt,   \* outcome of each close task so far
    closeTask, \* _close_task: the current attempt, 0 for None
    deadline,  \* _cleanup_deadline_reached
    closed,    \* indices of resources closed
    closer     \* the attempt each caller of aclose waits for, 0 for none

front == <<life, lifespan, startup, probe>>
work == <<loop, round, worker>>
closing == <<cleanup, attempt, closeTask, deadline, closed, closer>>
vars == <<front, bg, work, closing>>

Callers == Closers \cup {"lifespan"}
Resources == 1 .. Len(Order)
Settled == {"CLOSED", "CLOSE_FAILED", "CLEANUP_PENDING", "DEADLINE_EXCEEDED"}
CleanupDone == cleanup.stage \in {"none", "settled"}
StartupDone == startup \in {"none", "ok", "failed"}

----------------------------------------------------------------------------
(* Startup *)

(* lifespan up to the await of the startup task. *)
Enter ==
    /\ lifespan = "new"
    /\ IF life = "CONSTRUCTED"
       THEN /\ life' = "STARTING" /\ lifespan' = "starting"
            /\ startup' = "prepare"
       ELSE lifespan' = "over" /\ UNCHANGED <<life, startup>>
    /\ UNCHANGED <<probe, bg, work, closing>>

(* _start_all after the resources are prepared: with the authority to start *)
(* rechecked, background.start creates the reconciliation loop and waits.   *)
Prepared ==
    /\ startup = "prepare"
    /\ IF life = "STARTING"
       THEN /\ startup' = "initial"
            /\ bg' = [bg EXCEPT !.loop = TRUE]
            /\ loop' = [loop EXCEPT !.pc = "tick"]
       ELSE startup' = "failed" /\ UNCHANGED <<bg, loop>>
    /\ UNCHANGED <<life, lifespan, probe, round, worker, closing>>

(* The first round is over: start the worker and finish, or fail. *)
InitialRoundKnown ==
    /\ startup = "initial" /\ loop.complete
    /\ IF loop.initial = "ok"
       THEN /\ worker' = "running"
            /\ bg' = [bg EXCEPT !.worker = TRUE]
            /\ startup' = IF life = "STARTING" THEN "ok" ELSE "failed"
       ELSE startup' = "failed" /\ UNCHANGED <<bg, worker>>
    /\ UNCHANGED <<life, lifespan, probe, loop, round, closing>>

(* A resource cannot be prepared, the startup timeout fires, or the         *)
(* cancellation of the task arrives.                                        *)
StartupFails ==
    /\ startup \in {"prepare", "initial"}
    /\ startup' = "failed"
    /\ UNCHANGED <<life, lifespan, probe, bg, work, closing>>

(* Faulty variant, for sensitivity checks only: the authority to start is not rechecked. *)
ActivateUnchecked ==
    /\ lifespan = "starting" /\ startup = "ok"
    /\ life' = "ACTIVE" /\ lifespan' = "serving"
    /\ probe' = [probe EXCEPT !.admitted = TRUE]
    /\ startup' = "none"
    /\ UNCHANGED <<bg, work, closing>>

(* The lifespan resumes with a finished startup and yields to the server. *)
Activate ==
    /\ lifespan = "starting" /\ startup = "ok"
    /\ life = "STARTING"
    /\ life' = "ACTIVE" /\ lifespan' = "serving"
    /\ probe' = [probe EXCEPT !.admitted = TRUE]
    /\ startup' = "none"
    /\ UNCHANGED <<bg, work, closing>>

(* The server is done, or startup failed or lost its authority: the finally *)
(* clause calls aclose.                                                     *)
LeaveLifespan ==
    /\ \/ lifespan = "serving"
       \/ /\ lifespan = "starting" /\ StartupDone
          /\ startup = "ok" => life # "STARTING"
    /\ lifespan' = "closing"
    /\ UNCHANGED <<life, startup, probe, bg, work, closing>>

----------------------------------------------------------------------------
(* The background work *)

(* _run: start a round unless told to stop; wait for it; then the first     *)
(* round decides startup and a later one the pause before the next.         *)
LoopTick ==
    /\ loop.pc = "tick"
    /\ IF bg.stop
       THEN loop' = [loop EXCEPT !.pc = "done", !.complete = TRUE] /\ UNCHANGED round
       ELSE round' = "running" /\ loop' = [loop EXCEPT !.pc = "wait"]
    /\ UNCHANGED <<front, bg, worker, closing>>

LoopRoundDone ==
    /\ loop.pc = "wait" /\ round # "running"
    /\ loop' = IF loop.first
               THEN [loop EXCEPT
                        !.complete = TRUE,
                        !.first = FALSE,
                        !.initial = IF bg.stop THEN "none" ELSE round,
                        !.pc = IF bg.stop \/ round = "failed" THEN "done" ELSE "pause"]
               ELSE [loop EXCEPT !.pc = IF bg.stop THEN "done" ELSE "pause"]
    /\ UNCHANGED <<front, bg, round, worker, closing>>

LoopWakes ==
    /\ loop.pc = "pause"
    /\ loop' = [loop EXCEPT !.pc = "tick"]
    /\ UNCHANGED <<front, bg, round, worker, closing>>

RoundEnds ==
    /\ round = "running"
    /\ round' \in {"ok", "failed"}
    /\ UNCHANGED <<front, bg, loop, worker, closing>>

(* _run of the history worker ends: cancelled, stopped or broken. *)
WorkerEnds ==
    /\ worker = "running"
    /\ worker' = "done"
    /\ UNCHANGED <<front, bg, loop, round, closing>>

(* A readiness request starts a wave of probes; it ends by itself or by its *)
(* cancellation, and closing its connection may fail, which is remembered.  *)
ProbeWave ==
    /\ \/ probe.admitted /\ ~probe.wave /\ probe' = [probe EXCEPT !.wave = TRUE]
       \/ /\ probe.wave
          /\ \E leaked \in {probe.leaked, TRUE} :
                probe' = [probe EXCEPT !.wave = FALSE, !.leaked = leaked]
    /\ UNCHANGED <<life, lifespan, startup, bg, work, closing>>

----------------------------------------------------------------------------
(* aclose *)

(* A call of aclose: refused after a deadline, joins a close in progress,   *)
(* otherwise revokes readiness and creates the close task.                  *)
CallClose(c) ==
    /\ closer[c] = 0
    /\ c = "lifespan" => lifespan = "closing"
    /\ \/ /\ life \in {"CLOSED", "CLEANUP_PENDING", "DEADLINE_EXCEEDED"}
          /\ c = "lifespan"
          /\ lifespan' = "over"
          /\ UNCHANGED <<life, probe, cleanup, attempt, closeTask, closer>>
       \/ /\ life \notin {"CLOSED", "CLEANUP_PENDING", "DEADLINE_EXCEEDED"}
          /\ closeTask # 0
          /\ closer' = [closer EXCEPT ![c] = closeTask]
          /\ UNCHANGED <<life, lifespan, probe, cleanup, attempt, closeTask>>
       \/ /\ life \notin {"CLOSED", "CLEANUP_PENDING", "DEADLINE_EXCEEDED"}
          /\ closeTask = 0 /\ Len(attempt) < MaxCloses
          /\ life' = "STOPPING"
          /\ probe' = [probe EXCEPT !.admitted = FALSE]
          /\ attempt' = Append(attempt, "running")
          /\ closeTask' = Len(attempt')
          /\ closer' = [closer EXCEPT ![c] = closeTask']
          /\ cleanup' = [stage |-> "quiesce", at |-> 0, failed |-> FALSE]
          /\ UNCHANGED lifespan
    /\ UNCHANGED <<startup, bg, work, deadline, closed>>

(* Where _close_all goes after an await: the deadline's fence comes first.  *)
Fenced(next) ==
    cleanup' = IF deadline THEN [cleanup EXCEPT !.stage = "settled", !.failed = TRUE] ELSE next

Stage(stage) == [cleanup EXCEPT !.stage = stage]

(* The resources still to be closed in this attempt. *)
Remaining(at, done) == {i \in Resources \ done : i > at}

(* Start the close of the next resource, or end the attempt. *)
CloseNext(at, done, failed) ==
    IF Remaining(at, done) = {}
    THEN [stage |-> "settled", at |-> 0, failed |-> failed]
    ELSE [stage |-> "closing", at |-> Min(Remaining(at, done)), failed |-> failed]

(* _quiesce_startup: cancel the startup task and wait until it is done. *)
Quiesce ==
    /\ cleanup.stage = "quiesce"
    /\ StartupDone
    /\ Fenced(Stage("readiness"))
    /\ startup' = "none"
    /\ UNCHANGED <<life, lifespan, probe, bg, work, attempt, closeTask, deadline, closed, closer>>

(* readiness.drain, which raises when a probe's connection was not closed;  *)
(* then background.stop up to its first awaits: the stop signals are set    *)
(* and the scheduler accepts no further round.                              *)
DrainReadiness ==
    /\ cleanup.stage = "readiness"
    /\ ~probe.wave
    /\ IF probe.leaked
       THEN /\ cleanup' = [cleanup EXCEPT !.stage = "settled", !.failed = TRUE]
            /\ UNCHANGED bg
       ELSE /\ Fenced(IF bg.loop THEN Stage("background") ELSE CloseNext(0, closed, FALSE))
            /\ bg' = [bg EXCEPT !.stop = @ \/ (bg.loop /\ ~deadline)]
    /\ UNCHANGED <<front, work, attempt, closeTask, deadline, closed, closer>>

(* Faulty variant, for sensitivity checks only: the drain waits for the loop alone. *)
BackgroundDrainedLoopOnly == loop.pc = "done"

(* stop returned TRUE for each attempted service: the round and the loop    *)
(* are over, and the worker's task is done.                                 *)
BackgroundDrained ==
    /\ round # "running" /\ loop.pc = "done"
    /\ bg.worker => worker = "done"

StopBackground ==
    /\ cleanup.stage = "background"
    /\ BackgroundDrained
    /\ Fenced(CloseNext(0, closed, FALSE))
    /\ UNCHANGED <<front, bg, work, attempt, closeTask, deadline, closed, closer>>

(* The drain timeout of a service has fired, or its stop raised: the        *)
(* resources stay open and the attempt fails, even if by the time the other *)
(* service has answered the first one is over.                              *)
DrainTimesOut ==
    /\ cleanup.stage = "background"
    /\ cleanup' = [cleanup EXCEPT !.stage = "settled", !.failed = TRUE]
    /\ UNCHANGED <<front, bg, work, attempt, closeTask, deadline, closed, closer>>

(* Faulty variant, for sensitivity checks only: no fence after a resource's close. *)
ResourceCloseEndsUnfenced ==
    /\ cleanup.stage = "closing"
    /\ \E ok \in BOOLEAN :
          /\ closed' = IF ok THEN closed \cup {cleanup.at} ELSE closed
          /\ cleanup' = CloseNext(cleanup.at, closed', cleanup.failed \/ ~ok)
    /\ UNCHANGED <<front, bg, work, attempt, closeTask, deadline, closer>>

(* The close succeeds and is marked, or fails and is counted; then the      *)
(* fence, and the next one.                                                 *)
ResourceCloseEnds ==
    /\ cleanup.stage = "closing"
    /\ \E ok \in BOOLEAN :
          /\ closed' = IF ok THEN closed \cup {cleanup.at} ELSE closed
          /\ Fenced(CloseNext(cleanup.at, closed', cleanup.failed \/ ~ok))
    /\ UNCHANGED <<front, bg, work, attempt, closeTask, deadline, closer>>

(* The cancellation that the deadline requested arrives at an await. *)
CleanupCancelled ==
    /\ deadline /\ ~CleanupDone
    /\ cleanup' = [cleanup EXCEPT !.stage = "settled", !.failed = TRUE]
    /\ UNCHANGED <<front, bg, work, attempt, closeTask, deadline, closed, closer>>

(* _on_cleanup_settled *)
CleanupSettled ==
    /\ cleanup.stage = "settled"
    /\ cleanup' = [cleanup EXCEPT !.stage = "none"]
    /\ life' = IF life = "CLEANUP_PENDING" THEN "DEADLINE_EXCEEDED" ELSE life
    /\ UNCHANGED <<lifespan, startup, probe, bg, work, attempt, closeTask, deadline, closed, closer>>

(* Faulty variant, for sensitivity checks only: the cleanup has no deadline. *)
AttemptEndsUnbounded ==
    /\ closeTask # 0 /\ attempt[closeTask] = "running"
    /\ CleanupDone
    /\ attempt' = [attempt EXCEPT ![closeTask] = IF cleanup.failed THEN "failed" ELSE "ok"]
    /\ UNCHANGED <<front, bg, work, cleanup, closeTask, deadline, closed, closer>>

(* _close_with_deadline: the cleanup ended, or its deadline came first. *)
AttemptEnds ==
    /\ closeTask # 0 /\ attempt[closeTask] = "running"
    /\ IF CleanupDone
       THEN /\ attempt' = [attempt EXCEPT ![closeTask] = IF cleanup.failed THEN "failed" ELSE "ok"]
            /\ UNCHANGED deadline
       ELSE /\ attempt' = [attempt EXCEPT ![closeTask] = "deadline"]
            /\ deadline' = TRUE
    /\ UNCHANGED <<front, bg, work, cleanup, closeTask, closed, closer>>

(* A caller of aclose resumes with the outcome of the attempt it waited for. *)
CloseReturns(c) ==
    /\ closer[c] # 0 /\ attempt[closer[c]] # "running"
    /\ LET outcome == attempt[closer[c]]
       IN  /\ life' = IF outcome = "ok" THEN "CLOSED"
                      ELSE IF outcome = "deadline"
                      THEN IF CleanupDone
                           THEN "DEADLINE_EXCEEDED" ELSE "CLEANUP_PENDING"
                      ELSE IF closeTask = closer[c] THEN "CLOSE_FAILED"
                      ELSE life
           /\ closeTask' = IF outcome = "failed" /\ closeTask = closer[c] THEN 0 ELSE closeTask
    /\ closer' = [closer EXCEPT ![c] = 0]
    /\ lifespan' = IF c = "lifespan" THEN "over" ELSE lifespan
    /\ UNCHANGED <<startup, probe, bg, work, cleanup, attempt, deadline, closed>>

Init ==
    /\ life = "CONSTRUCTED" /\ lifespan = "new" /\ startup = "none"
    /\ bg = [loop |-> FALSE, worker |-> FALSE, stop |-> FALSE]
    /\ loop = [pc |-> "none", first |-> TRUE, complete |-> FALSE, initial |-> "none"]
    /\ round = "none" /\ worker = "none"
    /\ probe = [admitted |-> FALSE, wave |-> FALSE, leaked |-> FALSE]
    /\ cleanup = [stage |-> "none", at |-> 0, failed |-> FALSE]
    /\ attempt = <<>> /\ closeTask = 0 /\ deadline = FALSE /\ closed = {}
    /\ closer = [c \in Callers |-> 0]

StartupNext == Enter \/ Prepared \/ InitialRoundKnown \/ StartupFails \/ Activate \/ LeaveLifespan

WorkNext == LoopTick \/ LoopRoundDone \/ LoopWakes \/ RoundEnds \/ WorkerEnds \/ ProbeWave

CleanupNext ==
    \/ Quiesce
    \/ DrainReadiness
    \/ StopBackground
    \/ DrainTimesOut
    \/ ResourceCloseEnds
    \/ CleanupCancelled
    \/ CleanupSettled

Next ==
    \/ StartupNext
    \/ WorkNext
    \/ CleanupNext
    \/ AttemptEnds
    \/ \E c \in Callers : CallClose(c) \/ CloseReturns(c)

Spec == Init /\ [][Next]_vars

(* The event loop resumes what is ready, and the cleanup deadline fires.    *)
(* Nothing is assumed of rounds, probes, the worker, the drains or the      *)
(* close calls of other libraries.                                          *)
Fairness ==
    /\ WF_vars(AttemptEnds)
    /\ \A c \in Callers : WF_vars(CloseReturns(c))

FairSpec == Spec /\ Fairness

----------------------------------------------------------------------------
(* The database engine and the clients are released only when nothing can   *)
(* use them again: from the first release on, no round, probe or worker     *)
(* runs and none can start, through failed attempts, retries and deadlines. *)
(* _close_all joins startup, readiness and the background group first.      *)
ResourcesOutliveWork ==
    closed # {} \/ cleanup.stage = "closing" =>
        /\ round # "running" /\ worker # "running" /\ ~probe.wave
        /\ ~probe.admitted
        /\ loop.pc \in {"none", "done"}
        /\ startup = "none"

(* The server is entered only after a first successful round, with the      *)
(* worker started, and the runtime never returns to serving (or starting)   *)
(* once a close has begun, whoever called aclose while startup was awaited. *)
(* CLOSED is reported only when every resource is released.                 *)
ReportedLifeIsTrue ==
    /\ life = "CLOSED" => closed = Resources
    /\ life = "ACTIVE" => loop.initial = "ok" /\ bg.worker
    /\ attempt # <<>> => life \notin {"CONSTRUCTED", "STARTING", "ACTIVE"}

(* What _close_all may start: a released resource is never closed a second  *)
(* time, in whatever attempt, and the deadline is a fence after which no    *)
(* close is started.  One already under way may still finish.               *)
ClosesAreFenced ==
    [][cleanup'.stage = "closing" => /\ cleanup'.at \notin closed'
                                     /\ deadline => cleanup' = cleanup]_vars

(* Shutdown is bounded: a close that has begun reaches a reported outcome   *)
(* even if a round, a probe or a library's close never ends.                *)
ShutdownSettles == life = "STOPPING" ~> life \in Settled

============================================================================
