--------------------------- MODULE WebhookLedger ---------------------------
(***************************************************************************)
(* The audit ledger and the webhook deliveries recorded in it.             *)
(*                                                                         *)
(* A delivery is committed by one transaction: claim the delivery row,     *)
(* append its audit event under the row lock of the ledger head, store the *)
(* workflow observation under its advisory lock.  Other transactions       *)
(* append events of their own, a cleanup job deletes expired observations, *)
(* and a replay verifies the chain page by page while all of them go on.   *)
(*                                                                         *)
(* The writes of a transaction are kept in tx and applied when it commits; *)
(* the statements of READ COMMITTED transactions see the committed tables. *)
(* An event hash stands for the keys of the chain up to the event.         *)
(***************************************************************************)
EXTENDS Integers, Sequences, FiniteSets

CONSTANTS
    Requests,      \* webhook requests in flight
    Writers,       \* other transactions that append audit events
    IdOf, BodyOf,  \* delivery id and body digest of each request
    Observed,      \* the bodies that carry a completed job or run
    KeyOf,         \* idempotency key of each writer's event
    Inputs,        \* input hashes a writer's event may have
    PageSize,      \* events a replay reads at a time
    None

Processes == Requests \cup Writers

Ids == {IdOf[r] : r \in Requests}

Bodies == {BodyOf[r] : r \in Requests}

(* The idempotency keys: a claim's has a prefix of its own. *)
ClaimKeys == Ids \X Bodies

WriterKeys == {KeyOf[w] : w \in Writers}

Keys == ClaimKeys \cup WriterKeys

(* What a row of audit_events may hold. *)
EventRows ==
    [sequence : Nat, key : Keys, input : Bodies \cup Inputs, previous : Seq(Keys),
     hash : Seq(Keys)]

ASSUME LedgerAssumption ==
    /\ PageSize \in Nat \ {0}
    /\ Requests \cap Writers = {}
    /\ ClaimKeys \cap WriterKeys = {}
    /\ None \notin Requests \cup Writers \cup EventRows

VARIABLES
    deliveries,    \* webhook_deliveries
    events,        \* audit_events
    head,          \* audit_ledger_head
    observations,  \* ci_workflow_observations, by delivery id
    tx,            \* the open transaction of each process
    headLock,      \* the transaction holding the row lock of the ledger head
    cleaning,      \* the observation the cleanup transaction has locked
    answer,        \* what a step that ends a transaction tells its caller
    replay         \* the progress of the replay

vars == <<deliveries, events, head, observations, tx, headLock, cleaning, answer, replay>>

NoTx ==
    [pc |-> "idle", target |-> None, inserted |-> FALSE, input |-> None, event |-> None,
     observe |-> FALSE]

NoReplay == [pc |-> "idle", through |-> 0, hash |-> <<>>, at |-> 0, last |-> <<>>]

Init ==
    /\ deliveries = {}
    /\ events = {}
    /\ head = [revision |-> 0, hash |-> <<>>]
    /\ observations = {}
    /\ tx = [p \in Processes |-> NoTx]
    /\ headLock = None
    /\ cleaning = None
    /\ answer = "none"
    /\ replay = NoReplay

tables == <<deliveries, events, head, observations>>

----------------------------------------------------------------------------
(* The end of a transaction: its locks are released with it. *)

(* Faulty variant, for sensitivity checks only: the head stays locked. *)
EndTxKeepingHead(p, a) ==
    /\ tx' = [tx EXCEPT ![p] = NoTx]
    /\ headLock' = headLock
    /\ answer' = a

EndTx(p, a) ==
    /\ tx' = [tx EXCEPT ![p] = NoTx]
    /\ headLock' = IF headLock = p THEN None ELSE headLock
    /\ answer' = a

(* An insert waits for an uncommitted row with its delivery id or body. *)
MustWait(r) ==
    \E q \in Requests \ {r} :
        tx[q].inserted /\ (IdOf[q] = IdOf[r] \/ BodyOf[q] = BodyOf[r])

(* Faulty variant, for sensitivity checks only: a repeated body is audited under its own id. *)
ClaimTargetOwn(r) == IdOf[r]

(* The delivery whose event a repeated body belongs to. *)
ClaimTarget(r) == (CHOOSE d \in deliveries : d.body = BodyOf[r]).id

(* _PostgresWebhookIngestionRepository.commit up to the audit append: a     *)
(* fresh row, the same delivery again, another body under the id, or the    *)
(* same body under another id.                                              *)
ClaimDelivery(r) ==
    LET sameId == {d \in deliveries : d.id = IdOf[r]}
        sameBody == {d \in deliveries : d.body = BodyOf[r]}
        begin(target, inserted) ==
            /\ tx' = [tx EXCEPT ![r] = [NoTx EXCEPT !.pc = "append", !.target = target,
                                                    !.inserted = inserted]]
            /\ answer' = "none"
            /\ UNCHANGED headLock
    IN  /\ tx[r].pc = "idle"
        /\ ~MustWait(r)
        /\ \/ sameId = {} /\ sameBody = {} /\ begin(IdOf[r], TRUE)
           \/ sameId \cap sameBody # {} /\ begin(IdOf[r], FALSE)
           \/ sameId # {} /\ sameId \cap sameBody = {} /\ EndTx(r, "conflict")
           \/ sameId = {} /\ sameBody # {} /\ begin(ClaimTarget(r), FALSE)
        /\ UNCHANGED <<tables, cleaning, replay>>

(* Another state transition reaches its audit append; a repeated operation  *)
(* may bring another content for its key.                                   *)
BeginWriter(w) ==
    /\ tx[w].pc = "idle"
    /\ \E i \in Inputs : tx' = [tx EXCEPT ![w] = [NoTx EXCEPT !.pc = "append", !.input = i]]
    /\ answer' = "none"
    /\ UNCHANGED <<tables, headLock, cleaning, replay>>

----------------------------------------------------------------------------
EventKey(p) == IF p \in Requests THEN <<tx[p].target, BodyOf[p]>> ELSE KeyOf[p]

EventInput(p) == IF p \in Requests THEN BodyOf[p] ELSE tx[p].input

(* _previous_from_head: the stored predecessor is the one the head names. *)
HeadMatchesPredecessor ==
    head.revision = 0 \/ \E e \in events : e.sequence = head.revision /\ e.hash = head.hash

(* _find_row_by_idempotency_key *)
Stored(key) == {e \in events : e.key = key}

NextEvent(p) ==
    [sequence |-> head.revision + 1, key |-> EventKey(p), input |-> EventInput(p),
     previous |-> head.hash, hash |-> Append(head.hash, EventKey(p))]

Appended(p, event) ==
    tx' = [tx EXCEPT ![p] = [@ EXCEPT !.pc = IF p \in Requests THEN "observe" ELSE "commit",
                                      !.event = event]]

(* Faulty variant, for sensitivity checks only: the head is read without its lock. *)
AppendEventUnlocked(p) ==
    /\ tx[p].pc = "append"
    /\ IF Stored(EventKey(p)) = {} THEN Appended(p, NextEvent(p)) ELSE Appended(p, None)
    /\ answer' = "none"
    /\ UNCHANGED <<tables, headLock, cleaning, replay>>

(* _append: lock the head, then extend it, return the stored event as a     *)
(* duplicate, or refuse.  A writer that is refused rolls back.              *)
AppendEvent(p) ==
    LET stored == Stored(EventKey(p))
    IN  /\ tx[p].pc = "append"
        /\ headLock = None
        /\ IF ~HeadMatchesPredecessor THEN EndTx(p, "unavailable")
           ELSE IF \E e \in stored : e.input # EventInput(p) THEN EndTx(p, "refused")
           ELSE /\ Appended(p, IF stored = {} THEN NextEvent(p) ELSE None)
                /\ headLock' = p
                /\ answer' = "none"
        /\ UNCHANGED <<tables, cleaning, replay>>

ReadyToCommit(r, observe) ==
    /\ tx' = [tx EXCEPT ![r] = [@ EXCEPT !.pc = "commit", !.observe = observe]]
    /\ answer' = "none"
    /\ UNCHANGED headLock

(* Faulty variant, for sensitivity checks only: the observation is read without its lock. *)
ObserveDeliveryUnlocked(r) ==
    /\ tx[r].pc = "observe"
    /\ ReadyToCommit(r, BodyOf[r] \in Observed /\ tx[r].target \notin observations)
    /\ UNCHANGED <<tables, cleaning, replay>>

(* _observation_is_complete: a new delivery without an observation needs no *)
(* lock; otherwise the lock is tried once, and a cleanup that holds it      *)
(* makes the delivery unavailable.                                          *)
ObserveDelivery(r) ==
    /\ tx[r].pc = "observe"
    /\ IF BodyOf[r] \notin Observed /\ tx[r].inserted
       THEN ReadyToCommit(r, FALSE)
       ELSE IF \/ cleaning = tx[r].target
               \/ BodyOf[r] \notin Observed /\ tx[r].target \in observations
            THEN EndTx(r, "unavailable")
            ELSE ReadyToCommit(r, BodyOf[r] \in Observed)
    /\ UNCHANGED <<tables, cleaning, replay>>

----------------------------------------------------------------------------
(* What a transaction makes visible. *)
Publish(p) ==
    /\ deliveries' = IF tx[p].inserted
                     THEN deliveries \cup {[id |-> IdOf[p], body |-> BodyOf[p]]}
                     ELSE deliveries
    /\ events' = IF tx[p].event = None THEN events ELSE events \cup {tx[p].event}
    /\ head' = IF tx[p].event = None
               THEN head
               ELSE [revision |-> tx[p].event.sequence, hash |-> tx[p].event.hash]
    /\ observations' = IF tx[p].observe THEN observations \cup {tx[p].target} ELSE observations

CommittedAnswer(p) ==
    IF p \in Writers \/ tx[p].inserted THEN "claimed" ELSE "duplicate"

(* The commit succeeds; its outcome may still be lost, and the sender is    *)
(* then told that the store is unavailable.                                 *)
Commit(p) ==
    /\ tx[p].pc = "commit"
    /\ Publish(p)
    /\ \E a \in {CommittedAnswer(p), "unavailable"} : EndTx(p, a)
    /\ UNCHANGED <<cleaning, replay>>

(* A failed statement, a failed commit or a cancellation. *)
Rollback(p) ==
    /\ tx[p].pc # "idle"
    /\ EndTx(p, "unavailable")
    /\ UNCHANGED <<tables, cleaning, replay>>

(* delete_expired_observations: the locks of one batch are tried once.      *)
(* Any observation may have expired; its age is not modelled.               *)
ObservationLocked(d) ==
    \E r \in Requests :
        tx[r].pc = "commit" /\ tx[r].target = d /\ (BodyOf[r] \in Observed \/ ~tx[r].inserted)

BeginCleanup(d) ==
    /\ cleaning = None
    /\ d \in observations
    /\ ~ObservationLocked(d)
    /\ cleaning' = d
    /\ answer' = "none"
    /\ UNCHANGED <<tables, tx, headLock, replay>>

EndCleanup ==
    /\ cleaning # None
    /\ observations' \in {observations, observations \ {cleaning}}
    /\ cleaning' = None
    /\ answer' = "none"
    /\ UNCHANGED <<deliveries, events, head, tx, headLock, replay>>

----------------------------------------------------------------------------
(* load_audit_ledger_snapshot: head and maximum in one statement. *)
MaximumSequence ==
    IF events = {} THEN 0 ELSE CHOOSE n \in {e.sequence : e \in events} :
                                  \A e \in events : e.sequence <= n

(* After the last page of a pass the verified chain must end in the frozen  *)
(* head; then the report streams.  No read lies in between.                 *)
EndReplayPass(r) ==
    IF r.at < r.through THEN r
    ELSE IF r.last # r.hash THEN [NoReplay EXCEPT !.pc = "invalid"]
    ELSE IF r.pc = "scan" /\ r.through > 0
         THEN [r EXCEPT !.pc = "stream", !.at = 0, !.last = <<>>]
         ELSE NoReplay

Snapshot ==
    /\ replay.pc = "idle"
    /\ replay' = IF MaximumSequence = head.revision
                 THEN EndReplayPass([NoReplay EXCEPT !.pc = "scan", !.through = head.revision,
                                                     !.hash = head.hash])
                 ELSE [NoReplay EXCEPT !.pc = "invalid"]
    /\ answer' = "none"
    /\ UNCHANGED <<tables, tx, headLock, cleaning>>

(* Faulty variant, for sensitivity checks only: the page is not bounded by the frozen head. *)
LoadPageUnbounded(after, through) ==
    {e \in events : after < e.sequence /\ e.sequence <= after + PageSize}

(* load_audit_records_after *)
LoadPage(after, through) ==
    {e \in events : /\ after < e.sequence /\ e.sequence <= through
                    /\ Cardinality({f \in events : after < f.sequence
                                                     /\ f.sequence <= e.sequence}) <= PageSize}

(* normalize_and_verify_audit_chain_extension: consecutive sequences, every *)
(* event linked to the one before it (last, for the first), a hash of its   *)
(* own content, and no key twice in the page and its predecessor.           *)
ExtendsChain(page, after, last) ==
    /\ {e.sequence : e \in page} = (after + 1) .. (after + Cardinality(page))
    /\ \A e \in page :
          /\ e.sequence = after + 1 => e.previous = last
          /\ \A f \in page : f.sequence = e.sequence + 1 => f.previous = e.hash
          /\ e.hash = Append(e.previous, e.key)
          /\ \A f \in page : f.key = e.key => f = e
          /\ last # <<>> => e.key # last[Len(last)]

(* One iteration of scan_audit_replay, or of iter_verified_replay_events,   *)
(* which reads the same frozen ledger again to write the report.            *)
ReplayPage ==
    LET page == LoadPage(replay.at, replay.through)
        at == replay.at + Cardinality(page)
    IN  /\ replay.pc \in {"scan", "stream"}
        /\ replay.at < replay.through
        /\ replay' = IF /\ page # {}
                        /\ ExtendsChain(page, replay.at, replay.last)
                        /\ at <= replay.through
                     THEN EndReplayPass([replay EXCEPT !.at = at,
                              !.last = (CHOOSE e \in page : e.sequence = at).hash])
                     ELSE [NoReplay EXCEPT !.pc = "invalid"]
        /\ answer' = "none"
        /\ UNCHANGED <<tables, tx, headLock, cleaning>>

----------------------------------------------------------------------------
Next ==
    \/ \E r \in Requests : ClaimDelivery(r) \/ ObserveDelivery(r)
    \/ \E w \in Writers : BeginWriter(w)
    \/ \E p \in Processes : AppendEvent(p) \/ Commit(p) \/ Rollback(p)
    \/ \E d \in Ids : BeginCleanup(d)
    \/ EndCleanup
    \/ Snapshot
    \/ ReplayPage

Spec == Init /\ [][Next]_vars

(* A transaction goes on unless it waits, and the queue of a row lock is    *)
(* served: a waiting append gets its turn.                                  *)
Proceed(p) ==
    \/ AppendEvent(p) \/ Commit(p)
    \/ p \in Requests /\ ObserveDelivery(p)

Fairness == \A p \in Processes : SF_vars(Proceed(p))

FairSpec == Spec /\ Fairness

----------------------------------------------------------------------------
(* The ledger is one chain: sequences without a gap, every event linked to  *)
(* its predecessor, and the head row names the last one.  Every append      *)
(* reads the head under its row lock and keeps the lock until it commits.   *)
LedgerIsOneChain ==
    /\ {e.sequence : e \in events} = 1 .. head.revision
    /\ Cardinality(events) = head.revision
    /\ \A e, f \in events : f.sequence = e.sequence + 1 => f.previous = e.hash
    /\ \A e \in events : e.sequence = head.revision => e.hash = head.hash

(* Delivery rows and claim events come in pairs, a body repeated under      *)
(* another delivery id included: it joins the pair of the first one.  No    *)
(* retry, redelivery or lost commit outcome records an event twice:         *)
(* _append looks the key up under the head lock.                            *)
DeliveriesAudited ==
    /\ {<<d.id, d.body>> : d \in deliveries} = {e.key : e \in events} \ WriterKeys
    /\ \A e, f \in events : e.key = f.key => e = f

(* An answer that stops the sender's redelivery (claimed or duplicate) is   *)
(* given only when the delivery, its event and its workflow observation are *)
(* stored, even while the cleanup deletes observations; and a body is       *)
(* claimed, and so processed, only by the transaction that stores its first *)
(* delivery row.                                                            *)
AcknowledgedIsStored ==
    [][\A r \in Requests :
          tx[r].pc = "commit" /\ tx'[r].pc = "idle"
          /\ answer' \in {"claimed", "duplicate"}
          => /\ \E d \in deliveries' : d.body = BodyOf[r] /\ d.id = tx[r].target
             /\ \E e \in events' : e.key = EventKey(r)
             /\ BodyOf[r] \in Observed => tx[r].target \in observations'
             /\ answer' = "claimed" => \A d \in deliveries : d.body # BodyOf[r]]_vars

(* A replay never reports an intact ledger as invalid: what it reads page   *)
(* by page up to the frozen head is a chain, however many events are        *)
(* appended meanwhile.                                                      *)
ReplayStaysValid == replay.pc # "invalid"

(* No transaction waits for ever: the order delivery row, ledger head,      *)
(* observation (only tried) has no cycle, and every lock is released.       *)
TransactionsEnd ==
    \A p \in Processes : []<>(tx[p].pc = "idle")

============================================================================
