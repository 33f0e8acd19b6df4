------------------------------ MODULE JwksCache ----------------------------
(***************************************************************************)
(* CachingJwksProvider: the single-flight, expiry-safe cache of the issuer's *)
(* signing keys that every OIDC token verification reads.                  *)
(*                                                                         *)
(* One event loop runs everything, and no section under the provider's     *)
(* lock awaits, so each section is one step.  A caller that awaits the     *)
(* shared refresh task resumes in a later step.  Times are kept as ages:   *)
(* the clock is monotonic and only differences are compared.               *)
(***************************************************************************)
EXTENDS Integers, FiniteSets, FiniteSetsExt

CONSTANTS
    Callers,       \* concurrent get_key_set and probe calls
    Keys,          \* key ids the issuer may serve
    MaxAge,        \* maximum_cache_age_seconds
    MinInterval,   \* minimum_refresh_interval_seconds
    Backoff,       \* failure_backoff_seconds
    FetchTimeout,  \* timeout of one HTTP fetch
    None           \* no task, no snapshot; as a lookup: the readiness probe

ASSUME JwksAssumption ==
    /\ {MaxAge, MinInterval, Backoff, FetchTimeout} \subseteq Nat \ {0}
    /\ MinInterval <= MaxAge
    /\ IsFiniteSet(Callers) /\ Callers # {}
    /\ None \notin Nat

VARIABLES
    served,     \* keys the issuer's endpoint serves now (external)
    withdrawn,  \* ticks since the endpoint last served a key, capped
    snapshot,   \* _snapshot: the keys and their age, or None
    refresh,    \* _refresh_task: a task, or None
    wait,       \* ticks until _refresh_allowed_at
    closed,     \* _closed
    task,       \* the tasks something still refers to
    caller,     \* the progress of each call
    idle        \* ticks since a fetch last ended, capped (history)

vars == <<served, withdrawn, snapshot, refresh, wait, closed, task, caller, idle>>

Tasks == 1 .. Cardinality(Callers) + 1

Lookups == Keys \cup {None}

(* A key unseen for this long must not be returned any more. *)
Horizon == MaxAge + FetchTimeout

Capped(age, cap) == IF age < cap THEN age + 1 ELSE cap

(* A task is running (its answer not yet read), answered (the endpoint's    *)
(* keys are on the way) or finished, with keys or without.                  *)
Free == [state |-> "free", keys |-> {}, age |-> 0]

Unfinished(t) == task[t].state \in {"running", "answered"}

NewCall == [pc |-> "idle", key |-> None, task |-> None, got |-> {}]

Finish(c, pc, got) == [caller EXCEPT ![c] = [NewCall EXCEPT !.pc = pc, !.got = got]]

(* The event loop drops a finished task nothing refers to. *)
Tidy(tasks, callers, current) ==
    [t \in Tasks |->
        IF \/ tasks[t].state \in {"running", "answered"}
           \/ current = t
           \/ \E c \in Callers : callers[c].task = t
        THEN tasks[t] ELSE Free]

----------------------------------------------------------------------------
(* Faulty variant, for sensitivity checks only: an expired snapshot still answers. *)
MatchesAtAnyAge(key) ==
    snapshot # None /\ (key = None \/ key \in snapshot.keys)

(* _matching_snapshot; with key None, _has_current_snapshot. *)
Matches(key) ==
    /\ snapshot # None
    /\ snapshot.age < MaxAge
    /\ key = None \/ key \in snapshot.keys

(* Faulty variant, for sensitivity checks only: a lookup never waits for the interval. *)
StartRefreshUnthrottled(c, key) ==
    LET t == Min({u \in Tasks : task[u] = Free})
    IN  /\ task' = [task EXCEPT ![t].state = "running"]
        /\ refresh' = t
        /\ caller' = [caller EXCEPT ![c] =
                         [NewCall EXCEPT !.pc = "waiting", !.key = key, !.task = t]]

(* The lookup creates the shared task, unless throttled. *)
StartRefresh(c, key) ==
    IF wait > 0
    THEN caller' = Finish(c, "refused", {}) /\ UNCHANGED <<refresh, task>>
    ELSE LET t == Min({u \in Tasks : task[u] = Free})
         IN  /\ task' = [task EXCEPT ![t].state = "running"]
             /\ refresh' = t
             /\ caller' = [caller EXCEPT ![c] =
                              [NewCall EXCEPT !.pc = "waiting", !.key = key, !.task = t]]

(* get_key_set and probe up to the shielded await. *)
Lookup(c, key) ==
    /\ caller[c].pc = "idle"
    /\ IF closed
       THEN caller' = Finish(c, "refused", {}) /\ UNCHANGED <<refresh, task>>
       ELSE IF Matches(key)
       THEN caller' = Finish(c, "served", snapshot.keys) /\ UNCHANGED <<refresh, task>>
       ELSE IF refresh # None
       THEN /\ caller' = [caller EXCEPT ![c] =
                             [NewCall EXCEPT !.pc = "waiting", !.key = key, !.task = refresh]]
            /\ UNCHANGED <<refresh, task>>
       ELSE StartRefresh(c, key)
    /\ UNCHANGED <<served, withdrawn, snapshot, wait, closed, idle>>

(* The endpoint answers with what it serves at this moment (external). *)
Answer(t) ==
    /\ task[t].state = "running"
    /\ task' = [task EXCEPT ![t].state = "answered", ![t].keys = served]
    /\ UNCHANGED <<served, withdrawn, snapshot, refresh, wait, closed, caller, idle>>

Ended(t, result) ==
    /\ task' = Tidy([task EXCEPT ![t] = result], caller, refresh)
    /\ idle' = 0
    /\ UNCHANGED <<served, withdrawn, snapshot, refresh, wait, closed, caller>>

(* _refresh with an admitted response: obtained_at is read after the fetch. *)
RefreshSucceeds(t) ==
    /\ task[t].state = "answered" /\ task[t].keys # {}
    /\ Ended(t, [state |-> "ok", keys |-> task[t].keys, age |-> 0])

(* _refresh with a timeout, a transport failure or a response that          *)
(* _decode_key_set does not admit.                                          *)
RefreshFails(t) ==
    /\ Unfinished(t)
    /\ Ended(t, [Free EXCEPT !.state = "failed"])

(* After aclose the task's cancellation arrives: inside _refresh it becomes *)
(* a typed failure, before its first step the task itself is cancelled.     *)
RefreshCancelled(t) ==
    /\ closed /\ task[t].state = "running"
    /\ Ended(t, [Free EXCEPT !.state = "cancelled"])

----------------------------------------------------------------------------
(* Faulty variant, for sensitivity checks only: any waiter publishes the result it holds. *)
PublishWithoutIdentity(c) ==
    LET t == caller[c].task
    IN  IF closed
        THEN UNCHANGED <<snapshot, refresh, wait>>
        ELSE /\ refresh' = None
             /\ IF task[t].state = "ok"
                THEN /\ snapshot' = [keys |-> task[t].keys, age |-> task[t].age]
                     /\ wait' = Max({0, MinInterval - task[t].age})
                ELSE wait' = Backoff /\ UNCHANGED snapshot

(* Faulty variant, for sensitivity checks only: a late waiter publishes when no task is set. *)
PublishUnlessRefreshing(c) ==
    LET t == caller[c].task
    IN  IF closed \/ refresh \notin {None, t}
        THEN UNCHANGED <<snapshot, refresh, wait>>
        ELSE /\ refresh' = None
             /\ IF task[t].state = "ok"
                THEN /\ snapshot' = [keys |-> task[t].keys, age |-> task[t].age]
                     /\ wait' = Max({0, MinInterval - task[t].age})
                ELSE wait' = Backoff /\ UNCHANGED snapshot

(* _publish_refresh *)
Publish(c) ==
    LET t == caller[c].task
    IN  IF closed \/ refresh # t
        THEN UNCHANGED <<snapshot, refresh, wait>>
        ELSE /\ refresh' = None
             /\ IF task[t].state = "ok"
                THEN /\ snapshot' = [keys |-> task[t].keys, age |-> task[t].age]
                     /\ wait' = Max({0, MinInterval - task[t].age})
                ELSE wait' = Backoff /\ UNCHANGED snapshot

(* Faulty variant, for sensitivity checks only: only the waiter that publishes is woken. *)
ResumePublisher(c) ==
    /\ caller[c].pc = "waiting"
    /\ ~Unfinished(caller[c].task)
    /\ refresh = caller[c].task
    /\ Publish(c)
    /\ caller' = [caller EXCEPT ![c].pc = "settling", ![c].task = None]
    /\ task' = Tidy(task, caller', refresh')
    /\ UNCHANGED <<served, withdrawn, closed, idle>>

(* The awaited task has finished: the caller resumes and publishes.  The    *)
(* CancelledError of a cancelled task goes through the caller.              *)
Resume(c) ==
    /\ caller[c].pc = "waiting"
    /\ ~Unfinished(caller[c].task)
    /\ IF task[caller[c].task].state = "cancelled"
       THEN caller' = Finish(c, "refused", {}) /\ UNCHANGED <<snapshot, refresh, wait>>
       ELSE /\ Publish(c)
            /\ caller' = [caller EXCEPT ![c].pc = "settling", ![c].task = None]
    /\ task' = Tidy(task, caller', refresh')
    /\ UNCHANGED <<served, withdrawn, closed, idle>>

(* The rest of _settle_refresh and of probe, at a second reading of the     *)
(* clock: only a current matching snapshot is returned.                     *)
Settle(c) ==
    /\ caller[c].pc = "settling"
    /\ caller' = IF Matches(caller[c].key)
                 THEN Finish(c, "served", snapshot.keys)
                 ELSE Finish(c, "refused", {})
    /\ UNCHANGED <<served, withdrawn, snapshot, refresh, wait, closed, task, idle>>

(* The request behind the call ends, or is cancelled while it awaits: the   *)
(* shield keeps the task, which may then finish with nobody to publish it.  *)
Leave(c) ==
    /\ caller[c].pc \in {"waiting", "served", "refused"}
    /\ caller' = [caller EXCEPT ![c] = NewCall]
    /\ task' = Tidy(task, caller', refresh)
    /\ UNCHANGED <<served, withdrawn, snapshot, refresh, wait, closed, idle>>

(* Faulty variant, for sensitivity checks only: the snapshot survives the close. *)
CloseKeepingSnapshot ==
    /\ ~closed
    /\ closed' = TRUE
    /\ refresh' = None
    /\ task' = Tidy(task, caller, None)
    /\ UNCHANGED <<served, withdrawn, snapshot, wait, caller, idle>>

(* aclose, up to the await of the cancelled task. *)
Close ==
    /\ ~closed
    /\ closed' = TRUE
    /\ snapshot' = None
    /\ refresh' = None
    /\ task' = Tidy(task, caller, None)
    /\ UNCHANGED <<served, withdrawn, wait, caller, idle>>

----------------------------------------------------------------------------
(* The issuer rotates its keys (external). *)
Rotate ==
    /\ served' \in SUBSET Keys \ {served}
    /\ withdrawn' = [k \in Keys |-> IF k \in served \cup served' THEN 0 ELSE withdrawn[k]]
    /\ UNCHANGED <<snapshot, refresh, wait, closed, task, caller, idle>>

(* Time passes; asyncio.timeout ends a fetch that has run FetchTimeout, and *)
(* aclose's cancellation ends one at once.                                  *)
Tick ==
    /\ \A t \in Tasks : Unfinished(t) => task[t].age < FetchTimeout /\ ~closed
    /\ withdrawn' = [k \in Keys |-> IF k \in served THEN 0 ELSE Capped(withdrawn[k], Horizon)]
    /\ snapshot' = IF snapshot = None THEN None
                   ELSE [snapshot EXCEPT !.age = Capped(@, MaxAge)]
    /\ wait' = Max({0, wait - 1})
    /\ task' = [t \in Tasks |->
                   IF Unfinished(t) THEN [task[t] EXCEPT !.age = @ + 1]
                   ELSE IF task[t].state = "ok"
                   THEN [task[t] EXCEPT !.age = Capped(@, MaxAge)]
                   ELSE task[t]]
    /\ idle' = Capped(idle, MinInterval)
    /\ UNCHANGED <<served, refresh, closed, caller>>

Init ==
    /\ served \in SUBSET Keys
    /\ withdrawn = [k \in Keys |-> IF k \in served THEN 0 ELSE Horizon]
    /\ snapshot = None
    /\ refresh = None
    /\ wait = 0
    /\ closed = FALSE
    /\ task = [t \in Tasks |-> Free]
    /\ caller = [c \in Callers |-> NewCall]
    /\ idle = MinInterval

Next ==
    \/ \E c \in Callers :
          \/ \E key \in Lookups : Lookup(c, key)
          \/ Resume(c)
          \/ Settle(c)
          \/ Leave(c)
    \/ \E t \in Tasks :
          \/ Answer(t)
          \/ RefreshSucceeds(t)
          \/ RefreshFails(t)
          \/ RefreshCancelled(t)
    \/ Close
    \/ Rotate
    \/ Tick

Spec == Init /\ [][Next]_vars

(* Fetches end, because their timeout fires or their cancellation arrives,  *)
(* and the event loop resumes a caller whose task is done.                  *)
Fairness ==
    /\ \A t \in Tasks : WF_vars(RefreshSucceeds(t) \/ RefreshFails(t) \/ RefreshCancelled(t))
    /\ \A c \in Callers : WF_vars(Resume(c) \/ Settle(c))

FairSpec == Spec /\ Fairness

----------------------------------------------------------------------------
(* A key the issuer has withdrawn stops being handed to verifiers: whatever *)
(* callers share, cancel or join, a returned set holds only keys the        *)
(* endpoint served less than a cache age and a fetch ago.  obtained_at is   *)
(* read after the response, _matching_snapshot compares it with the cache   *)
(* age, and a stale set is never a fallback.                                *)
WithdrawnKeysExpire ==
    [][\A c \in Callers :
          caller'[c].pc = "served" /\ caller[c].pc # "served"
             => \A k \in caller'[c].got : k \in served \/ withdrawn[k] < Horizon]_vars

(* However callers and refreshes interleave, at most one fetch is in        *)
(* flight: _refresh_task is cleared only by the waiter that publishes its   *)
(* result, or by aclose, after which nothing starts.                        *)
SingleFlight == Cardinality({t \in Tasks : Unfinished(t)}) <= 1

(* Lookups of unknown keys cost at most one fetch per interval: from the    *)
(* end of one fetch to the start of the next passes the refresh interval or *)
(* the failure backoff, whichever is shorter, whoever publishes the first.  *)
FetchesAreSpaced ==
    [][\A t \in Tasks :
          task'[t].state = "running" /\ task[t].state = "free"
             => idle >= Min({MinInterval, Backoff})]_vars

(* The published snapshot only moves to a later response: a caller resumed  *)
(* late, behind a newer refresh, cannot bring back an older key set.        *)
SnapshotNeverRollsBack ==
    [][snapshot # None /\ snapshot' # None /\ snapshot'.keys # snapshot.keys
          => snapshot'.age <= snapshot.age]_vars

(* Close is terminal: from then on no fetch starts and no caller, not even  *)
(* one already waiting or settling, is handed a key set.                    *)
ClosedServesNothing ==
    [][closed => /\ \A c \in Callers : caller'[c].pc = "served" => caller[c].pc = "served"
                 /\ \A t \in Tasks : task[t].state = "free" => task'[t].state = "free"]_vars

(* Every call returns: a caller never waits for a task that nobody will     *)
(* finish, in particular not across aclose.                                 *)
CallsReturn ==
    \A c \in Callers : []<>(caller[c].pc \notin {"waiting", "settling"})

============================================================================
