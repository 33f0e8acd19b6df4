------------------------ MODULE ControlPlaneSessions ------------------------
(***************************************************************************)
(* Administrator sessions, back-channel logout and the activity journal.   *)
(*                                                                         *)
(* Every transaction that changes sessions or the journal takes one        *)
(* advisory lock (lock_activity) and keeps it until it ends.  Such a       *)
(* transaction is two steps here, its statements and its end; the          *)
(* statements draw sequence numbers that a rollback does not give back.    *)
(* A login reads the clock once after the lock and again at its insert, so *)
(* it is three.  The journal is read page by page without the lock.        *)
(*                                                                         *)
(* A session handle stands for one completed exchange with the identity    *)
(* provider; its number stands for the order of the handle digests.  The   *)
(* reason of an end is left out, and so are rows that cannot be decoded.   *)
(***************************************************************************)
EXTENDS Integers, FiniteSets, FiniteSetsExt

CONSTANTS
    HandleCount,      \* logins, each with a handle of its own
    Clients,          \* tasks that serve requests and the maintenance round
    Deliveries,       \* deliveries of back-channel logout tokens
    IdentityOf,       \* issuer and subject of each handle
    TokenOf,          \* the logout token of each delivery
    TargetOf,         \* the handles a token's subject or provider session id selects
    TokenIssued, TokenExpires,
    Lifetimes,        \* what may be left of the provider's evidence at a login
    SessionMaximum,   \* session_maximum_seconds
    TokenMaximumAge,  \* logout_token_maximum_age_seconds
    ClockSkew,        \* clock_skew_seconds
    Skew,             \* largest difference of a process clock and the database clock
    MaxSessions,      \* _MAX_SESSIONS_PER_IDENTITY
    Retention,        \* how long the journal keeps an event
    DiagnosticLimit,  \* diagnostic events of one bucket
    PageLimit,        \* entries of a page
    None,
    MaxTime,          \* bound: the clock stops here
    MaxSequence       \* bound: sequence numbers drawn

Handles == 1 .. HandleCount

Processes == Handles \cup Clients \cup Deliveries

ASSUME SessionsAssumption ==
    /\ {HandleCount, DiagnosticLimit, MaxTime, MaxSequence} \subseteq Nat
    /\ {SessionMaximum, TokenMaximumAge, MaxSessions, Retention, PageLimit} \subseteq Nat \ {0}
    /\ {ClockSkew, Skew, TokenIssued, TokenExpires} \subseteq Nat
    /\ Lifetimes \subseteq Nat \ {0}
    /\ TokenIssued < TokenExpires
    /\ None \notin Processes

VARIABLES
    clock,      \* the database clock
    sessions,   \* control_plane_sessions: handle, issue and expiry
    events,     \* activity_events
    sequence,   \* the last sequence number drawn
    diagnosed,  \* the count of the diagnostic bucket, up to its limit
    replays,    \* control_plane_logout_replays
    lock,       \* the holder of the activity lock
    pending,    \* what each process's open transaction has written
    pc,         \* the step of each process
    reader      \* a walk through the pages of the journal

vars == <<clock, sessions, events, sequence, diagnosed, replays, lock, pending, pc, reader>>

NoWalk == [pc |-> "idle", first |-> 0, now |-> 0, through |-> 0, before |-> 0, items |-> {}]

(* A process at a step, with the session it works on. *)
With(step, session) == [step |-> step, session |-> session]
At(step) == With(step, None)

Init ==
    /\ clock = 0
    /\ sessions = {}
    /\ events = {}
    /\ sequence = 0
    /\ diagnosed = 0
    /\ replays = {}
    /\ lock = None
    /\ pending = [p \in Processes |-> None]
    /\ pc = [p \in Processes |-> At("idle")]
    /\ reader = NoWalk

tables == <<sessions, events, diagnosed, replays>>

ProcessTimes == {t \in 0 .. MaxTime + Skew : clock - Skew <= t /\ t <= clock + Skew}

----------------------------------------------------------------------------
(* Writing under the activity lock. *)

(* lock_activity *)
LockFree == lock = None

Expired == {s \in sessions : s.expires <= clock}

(* The rows delete_sessions_with_activity and record_session_login insert. *)
Journal(ended, started) ==
    {[sequence |-> sequence + Cardinality({t \in ended : t.handle <= s.handle}),
      who |-> IdentityOf[s.handle], action |-> "end", at |-> clock] : s \in ended}
    \cup
    {[sequence |-> sequence + Cardinality(ended) + 1,
      who |-> IdentityOf[s.handle], action |-> "login", at |-> clock] : s \in started}

(* cleanup_activity *)
Outlived == {e \in events : e.at + Retention <= clock}

Change ==
    [started |-> {}, ended |-> {}, journal |-> {}, purged |-> {}, denied |-> 0,
     consumed |-> {}, dropped |-> {}]

(* The statements of p's transaction, still uncommitted. *)
Write(p, change) ==
    /\ sequence + Cardinality(change.journal) <= MaxSequence
    /\ lock' = p
    /\ pending' = [pending EXCEPT ![p] = change]
    /\ sequence' = sequence + Cardinality(change.journal)
    /\ pc' = [pc EXCEPT ![p] = At("written")]
    /\ UNCHANGED <<tables, clock, reader>>

WriteEnds(p, ended) ==
    Write(p, [Change EXCEPT !.ended = ended, !.journal = Journal(ended, {})])

(* A handle's login happens once; the other processes go on. *)
Finish(p, step) ==
    pc' = [pc EXCEPT ![p] = At(IF p \in Handles THEN "done" ELSE step)]

Release(p) == lock' = IF lock = p THEN None ELSE lock

Commit(p) ==
    LET change == pending[p]
    IN  /\ pc[p].step = "written"
        /\ sessions' = (sessions \ change.ended) \cup change.started
        /\ events' = (events \ change.purged) \cup change.journal
        /\ diagnosed' = diagnosed + change.denied
        /\ replays' = (replays \ change.dropped) \cup change.consumed
        /\ pending' = [pending EXCEPT ![p] = None]
        /\ Release(p)
        /\ Finish(p, IF p \notin Deliveries THEN "idle"
                     ELSE IF change.consumed # {} THEN "applied" ELSE "replayed")
        /\ UNCHANGED <<clock, sequence, reader>>

(* A failed statement, the lock timeout, a failed commit or a cancellation. *)
Rollback(p) ==
    /\ pc[p].step \notin {"idle", "done", "applied", "replayed"}
    /\ pending' = [pending EXCEPT ![p] = None]
    /\ Release(p)
    /\ Finish(p, "idle")
    /\ UNCHANGED <<tables, clock, sequence, reader>>

----------------------------------------------------------------------------
(* Logging in *)

(* _complete_login up to the record: the evidence may be shorter than a     *)
(* session and must not have expired for the process either.                *)
Issue(h) ==
    /\ pc[h].step = "idle"
    /\ \E left \in Lifetimes :
          /\ \E now \in ProcessTimes : now < clock + left
          /\ pc' = [pc EXCEPT ![h] = With("issued",
                [handle |-> h, issued |-> clock,
                 expires |-> clock + Min({left, SessionMaximum})])]
    /\ UNCHANGED <<tables, clock, sequence, lock, pending, reader>>

(* replace takes the locks and checks the record against the clock. *)
LockReplace(h) ==
    LET s == pc[h].session
    IN  /\ pc[h].step = "issued"
        /\ LockFree
        /\ IF s.issued <= clock /\ clock < s.expires
           THEN lock' = h /\ pc' = [pc EXCEPT ![h] = With("locked", s)]
           ELSE lock' = lock /\ Finish(h, "done")
        /\ UNCHANGED <<tables, clock, sequence, pending, reader>>

(* s is listed before t: newest first. *)
Newer(s, t) ==
    \/ s.issued > t.issued
    \/ s.issued = t.issued /\ s.handle > t.handle

HeldBy(rows, i) == {s \in rows : IdentityOf[s.handle] = i}

(* The identity's sessions beyond the newest MaxSessions - 1. *)
Overflow(kept, i) ==
    {t \in HeldBy(kept, i) :
        Cardinality({s \in HeldBy(kept, i) : Newer(s, t)}) >= MaxSessions - 1}

(* The rest of replace: expired sessions, the one in the browser's cookie   *)
(* and the overflow end, the new one starts unless it has expired by now.   *)
WriteReplace(h, previous) ==
    LET s == pc[h].session
        stale == Expired \cup previous
        ended == stale \cup Overflow(sessions \ stale, IdentityOf[h])
    IN  /\ pc[h].step = "locked"
        /\ IF clock < s.expires
           THEN Write(h, [Change EXCEPT !.started = {s}, !.ended = ended,
                                        !.journal = Journal(ended, {s}), !.purged = Outlived])
           ELSE Rollback(h)

----------------------------------------------------------------------------
(* Requests of a browser *)

(* load finds the row expired, without the lock. *)
LoadExpired(c, s) ==
    /\ pc[c].step = "idle"
    /\ s \in Expired
    /\ pc' = [pc EXCEPT ![c] = With("expired", s)]
    /\ UNCHANGED <<tables, clock, sequence, lock, pending, reader>>

(* Faulty variant, for sensitivity checks only: the end is recorded whoever deleted the row. *)
DeleteExpiredUnchecked(c) ==
    /\ pc[c].step = "expired"
    /\ LockFree
    /\ WriteEnds(c, {pc[c].session})

(* The rest of load, in the same transaction. *)
DeleteExpired(c) ==
    /\ pc[c].step = "expired"
    /\ LockFree
    /\ WriteEnds(c, {pc[c].session} \cap Expired)

(* delete: a logout, or an authentication that rejects the stored session   *)
(* (process clock, profile, issuer, key); without the row it does nothing.  *)
Delete(c, s) ==
    /\ pc[c].step = "idle"
    /\ LockFree
    /\ WriteEnds(c, {s})

(* _diagnostic for a denied role or an export.  With the bucket full only   *)
(* its cleanup is left, which is CleanUp.                                   *)
Diagnose(c, i) ==
    /\ pc[c].step = "idle"
    /\ LockFree
    /\ diagnosed < DiagnosticLimit
    /\ Write(c, [Change EXCEPT
          !.purged = Outlived,
          !.denied = 1,
          !.journal = {[sequence |-> sequence + 1, who |-> i, action |-> "denied",
                        at |-> clock]}])

(* cleanup *)
CleanUp(c) ==
    /\ pc[c].step = "idle"
    /\ LockFree
    /\ Outlived # {}
    /\ Write(c, [Change EXCEPT !.purged = Outlived])

----------------------------------------------------------------------------
(* Back-channel logout *)

(* replay_retained_until *)
RetainedUntil == Max({TokenExpires, TokenIssued + TokenMaximumAge}) + ClockSkew

(* apply_back_channel_logout up to the store, at the time of the process. *)
AdmitLogout(d) ==
    /\ pc[d].step = "idle"
    /\ \E now \in ProcessTimes :
          /\ TokenIssued - ClockSkew <= now
          /\ now <= TokenExpires + ClockSkew
          /\ now <= TokenIssued + TokenMaximumAge + ClockSkew
    /\ pc' = [pc EXCEPT ![d] = At("admitted")]
    /\ UNCHANGED <<tables, clock, sequence, lock, pending, reader>>

(* Faulty variant, for sensitivity checks only: the insert is not guarded by the clock. *)
ConsumableWhenever(token, kept) == \A r \in kept : r.token # token

(* _guarded_replay_insert *)
Consumable(token, kept) ==
    /\ clock < RetainedUntil
    /\ \A r \in kept : r.token # token

(* consume_and_delete *)
ConsumeLogout(d) ==
    LET token == TokenOf[d]
        dropped == {r \in replays : r.until <= clock}
        ended == {s \in sessions : s.handle \in TargetOf[token]}
    IN  /\ pc[d].step = "admitted"
        /\ LockFree
        /\ Write(d, IF Consumable(token, replays \ dropped)
                    THEN [Change EXCEPT !.dropped = dropped, !.ended = ended,
                                        !.journal = Journal(ended, {}),
                                        !.consumed = {[token |-> token, until |-> RetainedUntil]}]
                    ELSE [Change EXCEPT !.dropped = dropped])

----------------------------------------------------------------------------
(* Reading the journal *)

(* page reads the clock, *)
OpenPage ==
    /\ reader.pc \in {"idle", "more"}
    /\ reader' = IF reader.pc = "idle"
                 THEN [reader EXCEPT !.pc = "first", !.now = clock, !.first = clock]
                 ELSE [reader EXCEPT !.pc = "reading", !.now = clock]
    /\ UNCHANGED <<tables, clock, sequence, lock, pending, pc>>

(* Faulty variant, for sensitivity checks only: the watermark is the last number drawn. *)
ReadWatermarkDrawn ==
    /\ reader.pc = "first"
    /\ reader' = [reader EXCEPT !.pc = "reading", !.through = sequence]
    /\ UNCHANGED <<tables, clock, sequence, lock, pending, pc>>

(* for a first page the watermark, which the cursor then carries, *)
ReadWatermark ==
    /\ reader.pc = "first"
    /\ reader' = [reader EXCEPT !.pc = "reading",
                                !.through = Max({0} \cup {e.sequence : e \in events})]
    /\ UNCHANGED <<tables, clock, sequence, lock, pending, pc>>

(* _read_entries, without its limit. *)
Entries ==
    {e.sequence : e \in {f \in events :
        /\ reader.now < f.at + Retention
        /\ f.at < reader.now
        /\ f.sequence <= reader.through
        /\ reader.before > 0 => f.sequence < reader.before}}

(* and the newest entries; one more than the page holds tells of another page. *)
ReadPage ==
    LET page == {n \in Entries : Cardinality({m \in Entries : m >= n}) <= PageLimit}
        more == page # Entries
    IN  /\ reader.pc = "reading"
        /\ reader' = [reader EXCEPT !.pc = IF more THEN "more" ELSE "done",
                                    !.items = @ \cup page,
                                    !.before = IF more THEN Min(page) ELSE @]
        /\ UNCHANGED <<tables, clock, sequence, lock, pending, pc>>

Tick ==
    /\ clock < MaxTime
    /\ clock' = clock + 1
    /\ UNCHANGED <<tables, sequence, lock, pending, pc, reader>>

----------------------------------------------------------------------------
Identities == {IdentityOf[s] : s \in Handles}

Next ==
    \/ \E h \in Handles :
          \/ Issue(h)
          \/ LockReplace(h)
          \/ \E previous \in {{}} \cup {{s} : s \in sessions} : WriteReplace(h, previous)
    \/ \E c \in Clients :
          \/ \E s \in sessions : LoadExpired(c, s) \/ Delete(c, s)
          \/ \E i \in Identities : Diagnose(c, i)
          \/ DeleteExpired(c) \/ CleanUp(c)
    \/ \E d \in Deliveries : AdmitLogout(d) \/ ConsumeLogout(d)
    \/ \E p \in Processes : Commit(p) \/ Rollback(p)
    \/ OpenPage \/ ReadWatermark \/ ReadPage
    \/ Tick

Spec == Init /\ [][Next]_vars

----------------------------------------------------------------------------
Of(rows, i, action) == {e \in rows : e.who = i /\ e.action = action}

(* Every change of the session table is journaled exactly: one login for a  *)
(* session that starts, one end for each session that ends, whichever of    *)
(* logout, expiry, replacement, eviction and back-channel logout meets it   *)
(* first; and no identity ever holds more than MaxSessions sessions.        *)
SessionsAccounted ==
    [][\A i \in Identities :
          /\ Cardinality(Of(events' \ events, i, "login"))
                = Cardinality(HeldBy(sessions' \ sessions, i))
          /\ Cardinality(Of(events' \ events, i, "end"))
                = Cardinality(HeldBy(sessions \ sessions', i))
          /\ Cardinality(HeldBy(sessions', i)) <= MaxSessions]_vars

(* A logout token takes effect at most once, and then completely: whatever  *)
(* the clocks of the processes, no second delivery is applied although the  *)
(* replay rows expire, and no session it selects is left in the table when  *)
(* it commits.                                                              *)
LogoutsTakeEffectOnce ==
    [][\A d \in Deliveries :
          pc[d].step # "applied" /\ pc'[d].step = "applied"
          => /\ \A o \in Deliveries : TokenOf[o] = TokenOf[d] => pc[o].step # "applied"
             /\ \A s \in sessions' : s.handle \notin TargetOf[TokenOf[d]]]_vars

(* The pages of a finished walk hold every event up to its watermark that   *)
(* occurred before the walk began and is still retained: no transaction     *)
(* that drew its sequence numbers earlier commits behind the reader, since  *)
(* lock_activity is held through the commit.                                *)
PagesSkipNothing ==
    reader.pc = "done" =>
        \A e \in events :
            e.sequence <= reader.through /\ e.at < reader.first /\ clock < e.at + Retention
            => e.sequence \in reader.items

=============================================================================
