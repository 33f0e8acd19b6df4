------------------------ MODULE WebhookLedgerProofs ------------------------
(***************************************************************************)
(* The ledger, its deliveries and its replay for every set of requests,    *)
(* writers and keys and every page size.                                   *)
(*                                                                         *)
(* LedgerIsOneChain alone is not inductive: what a commit publishes was    *)
(* computed when its transaction read the head.  IInv says that whoever    *)
(* has appended still holds the row lock, and that its event extends the   *)
(* head as it is now.  RecordInv says of every open transaction what its   *)
(* claim and its append have found and that this is still so: a fresh row  *)
(* is nobody else's, a new key is still new.  ReplaySound says that the    *)
(* frozen head and the verified prefix of a replay are points of the chain *)
(* as it has grown since.                                                  *)
(***************************************************************************)
EXTENDS WebhookLedger, FiniteSetTheorems, TLAPS


HasAppended(p) == tx[p].pc \in {"observe", "commit"}

TxShape ==
    /\ DOMAIN tx = Processes
    /\ \A p \in Processes : DOMAIN tx[p] = DOMAIN NoTx

HeadHeld == \A p \in Processes : HasAppended(p) => headLock = p

ExtendsHead(event) ==
    \/ event = None
    \/ event.sequence = head.revision + 1 /\ event.previous = head.hash

PendingExtends == \A p \in Processes : HasAppended(p) => ExtendsHead(tx[p].event)

Counted == head.revision \in Nat /\ IsFiniteSet(events)

IInv == TxShape /\ Counted /\ HeadHeld /\ PendingExtends /\ LedgerIsOneChain

LEMMA InitIInv == Init => IInv
<1> SUFFICES ASSUME Init PROVE IInv
  OBVIOUS
<1>1. TxShape
  BY DEF Init, TxShape
<1>2. HeadHeld /\ PendingExtends
  BY DEF Init, HeadHeld, PendingExtends, HasAppended, NoTx
<1>3. Counted /\ LedgerIsOneChain
  BY FS_EmptySet DEF Init, Counted, LedgerIsOneChain
<1> QED  BY <1>1, <1>2, <1>3 DEF IInv

----------------------------------------------------------------------------
(* The steps of a transaction. *)

(* The transaction of p goes on as q, with the event it had or, under the   *)
(* lock, with the next one.                                                 *)
LEMMA TxGoesOn ==
    ASSUME IInv, NEW p \in Processes, NEW q,
           tx' = [tx EXCEPT ![p] = q], DOMAIN q = DOMAIN NoTx,
           UNCHANGED <<events, head>>,
           q.pc \in {"observe", "commit"} => headLock' = p /\ ExtendsHead(q.event),
           \/ headLock' = headLock
           \/ headLock = None /\ headLock' = p
           \/ headLock = p /\ headLock' = None
    PROVE  IInv'
<1>1. /\ DOMAIN tx' = Processes /\ tx'[p] = q
      /\ \A o \in Processes \ {p} : tx'[o] = tx[o]
  BY DEF IInv, TxShape
<1>2. TxShape'
  BY <1>1 DEF IInv, TxShape
<1>3. ASSUME NEW o \in Processes \ {p}, HasAppended(o)
      PROVE  headLock' = o
  <2>1. headLock = o  BY <1>3 DEF IInv, HeadHeld
  <2>2. None # o  BY LedgerAssumption DEF Processes
  <2> QED  BY <2>1, <2>2
<1>4. HeadHeld'
  BY <1>1, <1>3 DEF HeadHeld, HasAppended
<1>5. PendingExtends'
  BY <1>1 DEF IInv, PendingExtends, HasAppended, ExtendsHead
<1> QED  BY <1>2, <1>4, <1>5 DEF IInv, Counted, LedgerIsOneChain

(* Ending a transaction that publishes nothing. *)
LEMMA EndTxPreserves ==
    ASSUME IInv, NEW p \in Processes, NEW a, EndTx(p, a), UNCHANGED <<events, head>>
    PROVE  IInv'
<1>1. NoTx.pc = "idle"
  BY DEF NoTx
<1>2. tx' = [tx EXCEPT ![p] = NoTx] /\ headLock' = IF headLock = p THEN None ELSE headLock
  BY DEF EndTx
<1> QED  BY <1>1, <1>2, TxGoesOn, Zenon

(* ClaimDelivery and BeginWriter open a transaction that has not appended.  *)
LEMMA BeginPreserves ==
    ASSUME IInv, NEW p \in Processes, NEW q,
           tx' = [tx EXCEPT ![p] = q], DOMAIN q = DOMAIN NoTx, q.pc = "append",
           UNCHANGED <<events, head, headLock>>
    PROVE  IInv'
BY TxGoesOn, Zenon

LEMMA ClaimPreserves == ASSUME IInv, NEW r \in Requests, ClaimDelivery(r) PROVE IInv'
<1>1. r \in Processes /\ UNCHANGED <<events, head>>
  BY DEF ClaimDelivery, tables, Processes
<1>2. ASSUME NEW target, NEW inserted, UNCHANGED headLock,
             tx' = [tx EXCEPT ![r] = [NoTx EXCEPT !.pc = "append", !.target = target,
                                                  !.inserted = inserted]]
      PROVE  IInv'
  <2> DEFINE q == [NoTx EXCEPT !.pc = "append", !.target = target, !.inserted = inserted]
  <2>1. DOMAIN q = DOMAIN NoTx /\ q.pc = "append"
    BY DEF NoTx
  <2>2. tx' = [tx EXCEPT ![r] = q]
    BY <1>2
  <2> HIDE DEF q
  <2> QED  BY <1>1, <1>2, <2>1, <2>2, BeginPreserves, Zenon
<1>3. CASE EndTx(r, "conflict")
  BY <1>1, <1>3, EndTxPreserves
<1> QED  BY <1>2, <1>3, Zenon DEF ClaimDelivery

LEMMA WriterPreserves == ASSUME IInv, NEW w \in Writers, BeginWriter(w) PROVE IInv'
<1>1. w \in Processes /\ UNCHANGED <<events, head, headLock>>
  BY DEF BeginWriter, tables, Processes
<1>2. PICK i \in Inputs : tx' = [tx EXCEPT ![w] = [NoTx EXCEPT !.pc = "append", !.input = i]]
  BY Zenon DEF BeginWriter
<1> DEFINE q == [NoTx EXCEPT !.pc = "append", !.input = i]
<1>3. DOMAIN q = DOMAIN NoTx /\ q.pc = "append"
  BY DEF NoTx
<1>4. tx' = [tx EXCEPT ![w] = q]
  BY <1>2
<1> HIDE DEF q
<1> QED  BY <1>1, <1>3, <1>4, BeginPreserves, Zenon

(* _append reads the head under the lock it keeps. *)
LEMMA AppendPreserves == ASSUME IInv, NEW p \in Processes, AppendEvent(p) PROVE IInv'
<1>1. UNCHANGED <<events, head>> /\ headLock = None
  BY DEF AppendEvent, tables
<1>2. ASSUME NEW a, EndTx(p, a) PROVE IInv'
  BY <1>1, <1>2, EndTxPreserves
<1>3. ASSUME NEW event, event \in {NextEvent(p), None}, Appended(p, event), headLock' = p
      PROVE  IInv'
  <2> DEFINE q == [tx[p] EXCEPT !.pc = IF p \in Requests THEN "observe" ELSE "commit",
                                !.event = event]
  <2>1. tx' = [tx EXCEPT ![p] = q]
    BY <1>3 DEF Appended, IInv, TxShape
  <2>2. DOMAIN q = DOMAIN NoTx /\ q.event = event
    <3>1. "event" \in DOMAIN tx[p] /\ DOMAIN tx[p] = DOMAIN NoTx
      BY DEF IInv, TxShape, NoTx
    <3> QED  BY <3>1
  <2>3. ExtendsHead(event)
    BY <1>3 DEF ExtendsHead, NextEvent
  <2> HIDE DEF q
  <2> QED  BY <1>1, <1>3, <2>1, <2>2, <2>3, TxGoesOn, Zenon
<1> QED  BY <1>2, <1>3 DEF AppendEvent

LEMMA ObservePreserves == ASSUME IInv, NEW r \in Requests, ObserveDelivery(r) PROVE IInv'
<1>1. r \in Processes /\ UNCHANGED <<events, head>> /\ tx[r].pc = "observe"
  BY DEF ObserveDelivery, tables, Processes
<1>2. CASE EndTx(r, "unavailable")
  BY <1>1, <1>2, EndTxPreserves
<1>3. ASSUME NEW observe, ReadyToCommit(r, observe) PROVE IInv'
  <2> DEFINE q == [tx[r] EXCEPT !.pc = "commit", !.observe = observe]
  <2>1. tx' = [tx EXCEPT ![r] = q] /\ UNCHANGED headLock
    BY <1>1, <1>3 DEF ReadyToCommit, IInv, TxShape
  <2>2. DOMAIN q = DOMAIN NoTx /\ q.event = tx[r].event
    BY <1>1 DEF IInv, TxShape, NoTx
  <2>3. headLock = r /\ ExtendsHead(tx[r].event)
    BY <1>1 DEF IInv, HeadHeld, PendingExtends, HasAppended
  <2> HIDE DEF q
  <2> QED  BY <1>1, <2>1, <2>2, <2>3, TxGoesOn, Zenon
<1> QED  BY <1>2, <1>3, Zenon DEF ObserveDelivery

----------------------------------------------------------------------------
(* The head advanced by an event that extends it. *)
LEMMA ChainExtends ==
    ASSUME Counted, LedgerIsOneChain, NEW event,
           event.sequence = head.revision + 1, event.previous = head.hash,
           events' = events \cup {event},
           head' = [revision |-> event.sequence, hash |-> event.hash]
    PROVE  Counted' /\ LedgerIsOneChain'
<1>1. head.revision \in Nat /\ head'.revision = head.revision + 1 /\ head'.hash = event.hash
  BY DEF Counted
<1>2. \A e \in events : e.sequence \in 1 .. head.revision
  BY DEF LedgerIsOneChain
<1>3. event \notin events
  BY <1>1, <1>2
<1>4. IsFiniteSet(events') /\ Cardinality(events') = head'.revision
  BY <1>1, <1>3, FS_AddElement DEF Counted, LedgerIsOneChain
<1>5. {e.sequence : e \in events'} = 1 .. head'.revision
  <2>1. {e.sequence : e \in events'} = (1 .. head.revision) \cup {head.revision + 1}
    BY DEF LedgerIsOneChain
  <2> QED  BY <1>1, <2>1
<1>6. \A e, f \in events' : f.sequence = e.sequence + 1 => f.previous = e.hash
  <2> SUFFICES ASSUME NEW e \in events', NEW f \in events', f.sequence = e.sequence + 1
               PROVE  f.previous = e.hash
    OBVIOUS
  <2>1. CASE e = event
    BY <1>1, <1>2, <2>1
  <2>2. CASE e \in events /\ f = event
    <3>1. e.sequence = head.revision
      BY <1>1, <1>2, <2>2
    <3> QED  BY <2>2, <3>1 DEF LedgerIsOneChain
  <2>3. CASE e \in events /\ f \in events
    BY <2>3 DEF LedgerIsOneChain
  <2> QED  BY <2>1, <2>2, <2>3
<1>7. \A e \in events' : e.sequence = head'.revision => e.hash = head'.hash
  BY <1>1, <1>2
<1> QED  BY <1>1, <1>4, <1>5, <1>6, <1>7 DEF Counted, LedgerIsOneChain

(* A commit publishes under the lock: nobody else has appended. *)
LEMMA CommitPreserves == ASSUME IInv, NEW p \in Processes, Commit(p) PROVE IInv'
<1>1. PICK a : EndTx(p, a)
  BY DEF Commit
<1>2. headLock = p /\ ExtendsHead(tx[p].event)
  BY DEF Commit, IInv, HeadHeld, PendingExtends, HasAppended
<1>3. CASE tx[p].event = None
  <2>1. UNCHANGED <<events, head>>
    BY <1>3 DEF Commit, Publish
  <2> QED  BY <1>1, <2>1, EndTxPreserves
<1>4. CASE tx[p].event # None
  <2>1. Counted' /\ LedgerIsOneChain'
    <3>1. /\ events' = events \cup {tx[p].event}
          /\ head' = [revision |-> tx[p].event.sequence, hash |-> tx[p].event.hash]
      BY <1>4 DEF Commit, Publish
    <3> QED  BY <1>2, <1>4, <3>1, ChainExtends DEF IInv, ExtendsHead
  <2>2. /\ tx'[p] = NoTx /\ DOMAIN tx' = Processes
        /\ \A o \in Processes \ {p} : tx'[o] = tx[o]
    BY <1>1 DEF EndTx, IInv, TxShape
  <2>3. \A o \in Processes : ~HasAppended(o)'
    BY <1>2, <2>2 DEF IInv, HeadHeld, HasAppended, NoTx
  <2>4. TxShape'
    BY <2>2 DEF IInv, TxShape
  <2> QED  BY <2>1, <2>3, <2>4 DEF IInv, HeadHeld, PendingExtends
<1> QED  BY <1>3, <1>4

LEMMA NextIInv == ASSUME IInv, [Next]_vars PROVE IInv'
<1>1. ASSUME UNCHANGED <<events, head, tx, headLock>> PROVE IInv'
  BY <1>1 DEF IInv, TxShape, Counted, HeadHeld, PendingExtends, HasAppended, ExtendsHead,
              LedgerIsOneChain
<1>2. CASE UNCHANGED vars
  BY <1>1, <1>2 DEF vars
<1>3. CASE \E d \in Ids : BeginCleanup(d)
  BY <1>1, <1>3 DEF BeginCleanup, tables
<1>4. CASE EndCleanup \/ Snapshot \/ ReplayPage
  BY <1>1, <1>4 DEF EndCleanup, Snapshot, ReplayPage, tables
<1>5. ASSUME NEW p \in Processes, Rollback(p) PROVE IInv'
  BY <1>5, EndTxPreserves DEF Rollback, tables
<1> QED
  BY <1>2, <1>3, <1>4, <1>5, ClaimPreserves, ObservePreserves, WriterPreserves,
     AppendPreserves, CommitPreserves DEF Next

LEMMA ChainInvariance == Spec => []IInv
<1>1. IInv /\ [Next]_vars => IInv'
  BY NextIInv
<1> QED  BY <1>1, InitIInv, PTL DEF Spec

(* For every set of requests, writers and keys, and however transactions    *)
(* interleave, roll back or lose their outcome, the audit events form one   *)
(* chain that ends in the ledger head: _append holds the head's row lock    *)
(* from reading it to the commit.                                           *)
THEOREM OneChain == Spec => []LedgerIsOneChain
<1>1. IInv => LedgerIsOneChain
  BY DEF IInv
<1> QED  BY <1>1, ChainInvariance, PTL

----------------------------------------------------------------------------
(* What an open transaction has found, and what it will publish. *)

(* A request's claim: a fresh row that nobody else has or inserts, or a     *)
(* stored row.                                                              *)
ClaimSound(r) ==
    /\ tx[r].pc # "idle" =>
          /\ tx[r].target \in Ids
          /\ tx[r].inserted => /\ tx[r].target = IdOf[r]
                               /\ \A d \in deliveries : d.id # IdOf[r] /\ d.body # BodyOf[r]
          /\ ~tx[r].inserted => \E d \in deliveries : d.id = tx[r].target /\ d.body = BodyOf[r]
    /\ tx[r].inserted => tx[r].pc # "idle"
    /\ tx[r].pc = "commit" /\ BodyOf[r] \in Observed => tx[r].observe

Exclusive ==
    \A q, r \in Requests :
        q # r /\ tx[q].inserted /\ tx[r].inserted => IdOf[q] # IdOf[r] /\ BodyOf[q] # BodyOf[r]

(* The event a transaction carries is new and complete, or stored already.  *)
AppendSound(p) ==
    HasAppended(p) =>
        \/ tx[p].event = None /\ \E e \in events : e.key = EventKey(p)
        \/ /\ tx[p].event \in EventRows
           /\ tx[p].event.key = EventKey(p)
           /\ tx[p].event.hash = Append(tx[p].event.previous, tx[p].event.key)
           /\ \A e \in events : e.key # EventKey(p)

TxSound(p) ==
    /\ p \in Requests => ClaimSound(p)
    /\ p \in Writers => ~tx[p].inserted /\ (tx[p].pc # "idle" => tx[p].input \in Inputs)
    /\ AppendSound(p)

(* Every stored event is a row of its own, hashed over its content. *)
RowsSound ==
    /\ events \subseteq EventRows
    /\ head.hash \in Seq(Keys)
    /\ head.revision = 0 => head.hash = <<>>
    /\ \A e \in events : /\ e.hash = Append(e.previous, e.key)
                         /\ e.sequence = 1 => e.previous = <<>>
    /\ \A e, f \in events : e.sequence = f.sequence => e = f

RecordInv ==
    /\ \A p \in Processes : TxSound(p)
    /\ Exclusive
    /\ RowsSound
    /\ \A d \in deliveries : d.id \in Ids /\ d.body \in Bodies
    /\ DeliveriesAudited

LEMMA InitRecord == Init => RecordInv
<1> SUFFICES ASSUME Init PROVE RecordInv
  OBVIOUS
<1>1. \A p \in Processes : tx[p] = NoTx
  BY DEF Init
<1>2. NoTx.pc = "idle" /\ NoTx.inserted = FALSE
  BY DEF NoTx
<1>3. \A p \in Processes : TxSound(p)
  BY <1>1, <1>2 DEF TxSound, ClaimSound, AppendSound, HasAppended, Processes
<1>4. Exclusive
  BY <1>1, <1>2 DEF Exclusive, Processes
<1>5. RowsSound
  BY DEF Init, RowsSound
<1>6. DeliveriesAudited /\ deliveries = {}
  BY DEF Init, DeliveriesAudited
<1> QED  BY <1>3, <1>4, <1>5, <1>6 DEF RecordInv

(* One transaction goes on and publishes nothing. *)
LEMMA RecordGoesOn ==
    ASSUME IInv, RecordInv, NEW p \in Processes, NEW q, tx' = [tx EXCEPT ![p] = q],
           UNCHANGED <<deliveries, events, head>>, TxSound(p)',
           p \in Requests /\ q.inserted => tx[p].inserted \/ ~MustWait(p)
    PROVE  RecordInv'
<1>1. tx'[p] = q /\ \A o \in Processes \ {p} : tx'[o] = tx[o]
  BY DEF IInv, TxShape
<1>2. ASSUME NEW o \in Processes \ {p} PROVE TxSound(o)'
  <2>1. TxSound(o) /\ tx'[o] = tx[o]
    BY <1>1 DEF RecordInv
  <2>2. EventKey(o)' = EventKey(o)
    BY <2>1 DEF EventKey
  <2>3. ClaimSound(o)' = ClaimSound(o)
    BY <2>1 DEF ClaimSound
  <2>4. AppendSound(o)' = AppendSound(o)
    BY <2>1, <2>2 DEF AppendSound, HasAppended
  <2> QED  BY <2>1, <2>3, <2>4 DEF TxSound
<1>3. Exclusive'
  <2> SUFFICES ASSUME NEW a \in Requests, NEW b \in Requests, a # b,
                      tx'[a].inserted, tx'[b].inserted
               PROVE  IdOf[a] # IdOf[b] /\ BodyOf[a] # BodyOf[b]
    BY DEF Exclusive
  <2>1. a \in Processes /\ b \in Processes
    BY DEF Processes
  <2>2. CASE tx[a].inserted /\ tx[b].inserted
    BY <2>2 DEF RecordInv, Exclusive
  <2>3. CASE ~tx[a].inserted
    <3>1. a = p /\ tx[b].inserted /\ ~MustWait(a)
      BY <1>1, <2>1, <2>3
    <3> QED  BY <3>1 DEF MustWait
  <2>4. CASE ~tx[b].inserted
    <3>1. b = p /\ tx[a].inserted /\ ~MustWait(b)
      BY <1>1, <2>1, <2>4
    <3> QED  BY <3>1 DEF MustWait
  <2> QED  BY <2>2, <2>3, <2>4
<1>4. RowsSound'
  BY DEF RecordInv, RowsSound
<1>5. DeliveriesAudited' /\ \A d \in deliveries' : d.id \in Ids /\ d.body \in Bodies
  BY DEF RecordInv, DeliveriesAudited
<1> QED  BY <1>2, <1>3, <1>4, <1>5 DEF RecordInv

LEMMA IdleSound ==
    ASSUME NEW p \in Processes, tx'[p] = NoTx
    PROVE  TxSound(p)' /\ tx'[p].inserted = FALSE
<1>1. tx'[p].pc = "idle" /\ tx'[p].inserted = FALSE
  BY DEF NoTx
<1> QED  BY <1>1 DEF TxSound, ClaimSound, AppendSound, HasAppended

LEMMA RecordEnds ==
    ASSUME IInv, RecordInv, NEW p \in Processes, NEW a, EndTx(p, a),
           UNCHANGED <<deliveries, events, head>>
    PROVE  RecordInv'
<1>1. tx' = [tx EXCEPT ![p] = NoTx] /\ NoTx.inserted = FALSE
  BY DEF EndTx, NoTx
<1>2. tx'[p] = NoTx
  BY <1>1 DEF IInv, TxShape
<1> QED  BY <1>1, <1>2, IdleSound, RecordGoesOn, Zenon

LEMMA RecordClaim == ASSUME IInv, RecordInv, NEW r \in Requests, ClaimDelivery(r) PROVE RecordInv'
<1>1. /\ r \in Processes /\ UNCHANGED <<deliveries, events, head>> /\ ~MustWait(r)
      /\ IdOf[r] \in Ids /\ r \notin Writers
  BY LedgerAssumption DEF ClaimDelivery, tables, Processes, Ids
<1>2. ASSUME NEW target \in Ids, NEW inserted \in BOOLEAN,
             tx' = [tx EXCEPT ![r] = [NoTx EXCEPT !.pc = "append", !.target = target,
                                                  !.inserted = inserted]],
             inserted => /\ target = IdOf[r]
                         /\ \A d \in deliveries : d.id # IdOf[r] /\ d.body # BodyOf[r],
             ~inserted => \E d \in deliveries : d.id = target /\ d.body = BodyOf[r]
      PROVE  RecordInv'
  <2> DEFINE q == [NoTx EXCEPT !.pc = "append", !.target = target, !.inserted = inserted]
  <2>1. q.pc = "append" /\ q.target = target /\ q.inserted = inserted
    BY DEF NoTx
  <2>2. tx' = [tx EXCEPT ![r] = q]
    BY <1>2
  <2> HIDE DEF q
  <2>3. tx'[r] = q
    BY <1>1, <2>2 DEF IInv, TxShape
  <2>4. ClaimSound(r)'
    BY <1>1, <1>2, <2>1, <2>3 DEF ClaimSound
  <2>5. TxSound(r)'
    BY <1>1, <2>1, <2>3, <2>4 DEF TxSound, AppendSound, HasAppended
  <2> QED  BY <1>1, <2>2, <2>5, RecordGoesOn, Zenon
<1>3. CASE EndTx(r, "conflict")
  BY <1>1, <1>3, RecordEnds
<1> DEFINE sameId == {d \in deliveries : d.id = IdOf[r]}
           sameBody == {d \in deliveries : d.body = BodyOf[r]}
<1>4. ASSUME sameBody # {} PROVE \E d \in deliveries : d.id = ClaimTarget(r) /\ d.body = BodyOf[r]
  BY <1>4, Zenon DEF ClaimTarget
<1>5. ASSUME sameBody # {} PROVE ClaimTarget(r) \in Ids
  BY <1>4, <1>5 DEF RecordInv
<1>6. CASE /\ sameId = {} /\ sameBody = {}
           /\ tx' = [tx EXCEPT ![r] = [NoTx EXCEPT !.pc = "append", !.target = IdOf[r],
                                                   !.inserted = TRUE]]
  BY <1>1, <1>2, <1>6, Zenon
<1>7. CASE /\ sameId \cap sameBody # {}
           /\ tx' = [tx EXCEPT ![r] = [NoTx EXCEPT !.pc = "append", !.target = IdOf[r],
                                                   !.inserted = FALSE]]
  BY <1>1, <1>2, <1>7, Zenon
<1>8. CASE /\ sameBody # {}
           /\ tx' = [tx EXCEPT ![r] = [NoTx EXCEPT !.pc = "append", !.target = ClaimTarget(r),
                                                   !.inserted = FALSE]]
  BY <1>2, <1>4, <1>5, <1>8, Zenon
<1> QED  BY <1>3, <1>6, <1>7, <1>8 DEF ClaimDelivery

LEMMA RecordWriter == ASSUME IInv, RecordInv, NEW w \in Writers, BeginWriter(w) PROVE RecordInv'
<1>1. w \in Processes /\ UNCHANGED <<deliveries, events, head>> /\ w \notin Requests
  BY LedgerAssumption DEF BeginWriter, tables, Processes
<1>2. PICK i \in Inputs : tx' = [tx EXCEPT ![w] = [NoTx EXCEPT !.pc = "append", !.input = i]]
  BY Zenon DEF BeginWriter
<1> DEFINE q == [NoTx EXCEPT !.pc = "append", !.input = i]
<1>3. q.pc = "append" /\ q.input = i /\ q.inserted = FALSE
  BY DEF NoTx
<1>4. tx' = [tx EXCEPT ![w] = q]
  BY <1>2
<1> HIDE DEF q
<1>5. tx'[w] = q
  BY <1>1, <1>4 DEF IInv, TxShape
<1>6. TxSound(w)'
  BY <1>1, <1>3, <1>5 DEF TxSound, AppendSound, HasAppended
<1> QED  BY <1>1, <1>4, <1>6, RecordGoesOn, Zenon

(* The event that _append makes of the head is a complete row. *)
LEMMA NextEventRow ==
    ASSUME IInv, RecordInv, NEW p \in Processes, tx[p].pc = "append"
    PROVE  /\ NextEvent(p) \in EventRows
           /\ NextEvent(p).key = EventKey(p)
           /\ NextEvent(p).hash = Append(NextEvent(p).previous, NextEvent(p).key)
<1>1. EventKey(p) \in Keys /\ EventInput(p) \in Bodies \cup Inputs
  <2>1. CASE p \in Requests
    <3>1. tx[p].target \in Ids
      BY <2>1 DEF RecordInv, TxSound, ClaimSound
    <3>2. BodyOf[p] \in Bodies
      BY <2>1 DEF Bodies
    <3> QED  BY <2>1, <3>1, <3>2 DEF EventKey, EventInput, Keys, ClaimKeys
  <2>2. CASE p \notin Requests
    <3>1. p \in Writers /\ tx[p].input \in Inputs
      BY <2>2 DEF RecordInv, TxSound, Processes
    <3> QED  BY <2>2, <3>1 DEF EventKey, EventInput, Keys, WriterKeys
  <2> QED  BY <2>1, <2>2
<1>2. head.hash \in Seq(Keys) /\ head.revision + 1 \in Nat
  BY DEF RecordInv, RowsSound, IInv, Counted
<1>3. Append(head.hash, EventKey(p)) \in Seq(Keys)
  BY <1>1, <1>2
<1>4. NextEvent(p) \in EventRows
  BY <1>1, <1>2, <1>3 DEF NextEvent, EventRows
<1> QED  BY <1>4 DEF NextEvent

LEMMA RecordAppend == ASSUME IInv, RecordInv, NEW p \in Processes, AppendEvent(p) PROVE RecordInv'
<1>1. UNCHANGED <<deliveries, events, head>> /\ tx[p].pc = "append" /\ TxSound(p)
  BY DEF AppendEvent, tables, RecordInv
<1>2. ASSUME NEW a, EndTx(p, a) PROVE RecordInv'
  BY <1>1, <1>2, RecordEnds
<1>3. ASSUME NEW event, Appended(p, event),
             \/ event = None /\ Stored(EventKey(p)) # {}
             \/ event = NextEvent(p) /\ Stored(EventKey(p)) = {}
      PROVE  RecordInv'
  <2> DEFINE pc == IF p \in Requests THEN "observe" ELSE "commit"
             q == [tx[p] EXCEPT !.pc = pc, !.event = event]
  <2>1. tx' = [tx EXCEPT ![p] = q]
    BY <1>3 DEF Appended, IInv, TxShape
  <2>2. /\ q.pc = pc /\ q.event = event /\ q.target = tx[p].target
        /\ q.inserted = tx[p].inserted /\ q.input = tx[p].input
    <3>1. DOMAIN tx[p] = {"pc", "target", "inserted", "input", "event", "observe"}
      BY DEF IInv, TxShape, NoTx
    <3> QED  BY <3>1
  <2> HIDE DEF q
  <2>3. tx'[p] = q
    BY <2>1 DEF IInv, TxShape
  <2>4. EventKey(p)' = EventKey(p)
    BY <2>2, <2>3 DEF EventKey
  <2>5. AppendSound(p)'
    <3>1. CASE event = None /\ Stored(EventKey(p)) # {}
      BY <1>1, <2>2, <2>3, <2>4, <3>1 DEF AppendSound, Stored
    <3>2. CASE event = NextEvent(p) /\ Stored(EventKey(p)) = {}
      BY <1>1, <2>2, <2>3, <2>4, <3>2, NextEventRow DEF AppendSound, Stored
    <3> QED  BY <1>3, <3>1, <3>2
  <2>6. p \in Requests => ClaimSound(p)'
    BY <1>1, <2>2, <2>3 DEF TxSound, ClaimSound
  <2>7. TxSound(p)'
    BY <1>1, <2>2, <2>3, <2>5, <2>6 DEF TxSound
  <2> QED  BY <1>1, <2>1, <2>2, <2>7, RecordGoesOn, Zenon
<1> QED  BY <1>2, <1>3 DEF AppendEvent

LEMMA RecordObserve == ASSUME IInv, RecordInv, NEW r \in Requests, ObserveDelivery(r) PROVE RecordInv'
<1>1. /\ r \in Processes /\ UNCHANGED <<deliveries, events, head>> /\ tx[r].pc = "observe"
      /\ TxSound(r)
  BY DEF ObserveDelivery, tables, Processes, RecordInv
<1>2. CASE EndTx(r, "unavailable")
  BY <1>1, <1>2, RecordEnds
<1>3. ASSUME NEW observe, ReadyToCommit(r, observe), BodyOf[r] \in Observed => observe
      PROVE  RecordInv'
  <2> DEFINE q == [tx[r] EXCEPT !.pc = "commit", !.observe = observe]
  <2>1. tx' = [tx EXCEPT ![r] = q]
    BY <1>1, <1>3 DEF ReadyToCommit, IInv, TxShape
  <2>2. /\ q.pc = "commit" /\ q.event = tx[r].event /\ q.target = tx[r].target
        /\ q.inserted = tx[r].inserted /\ q.input = tx[r].input /\ q.observe = observe
    <3>1. DOMAIN tx[r] = {"pc", "target", "inserted", "input", "event", "observe"}
      BY <1>1 DEF IInv, TxShape, NoTx
    <3> QED  BY <3>1
  <2> HIDE DEF q
  <2>3. tx'[r] = q
    BY <1>1, <2>1 DEF IInv, TxShape
  <2>4. EventKey(r)' = EventKey(r)
    BY <2>2, <2>3 DEF EventKey
  <2>5. AppendSound(r)'
    BY <1>1, <2>2, <2>3, <2>4, Zenon DEF TxSound, AppendSound, HasAppended
  <2>6. ClaimSound(r)'
    BY <1>1, <1>3, <2>2, <2>3 DEF TxSound, ClaimSound
  <2>7. TxSound(r)'
    BY <1>1, <2>2, <2>3, <2>5, <2>6 DEF TxSound
  <2> QED  BY <1>1, <2>1, <2>2, <2>7, RecordGoesOn, Zenon
<1> QED  BY <1>2, <1>3, Zenon DEF ObserveDelivery

(* What a commit adds to the two tables that DeliveriesAudited relates. *)
LEMMA PairsKept ==
    ASSUME IInv, RecordInv, NEW p \in Processes, tx[p].pc = "commit", Publish(p)
    PROVE  /\ {<<d.id, d.body>> : d \in deliveries'} = {e.key : e \in events'} \ WriterKeys
           /\ \A e, f \in events' : e.key = f.key => e = f
<1> DEFINE pairs == {<<d.id, d.body>> : d \in deliveries}
           keys == {e.key : e \in events}
           event == tx[p].event
<1>1. TxSound(p) /\ AppendSound(p) /\ HasAppended(p)
  BY DEF RecordInv, TxSound, HasAppended
<1>2. pairs = keys \ WriterKeys /\ \A e, f \in events : e.key = f.key => e = f
  BY DEF RecordInv, DeliveriesAudited
<1>3. /\ event = None => events' = events /\ EventKey(p) \in keys
      /\ event # None => /\ events' = events \cup {event} /\ event.key = EventKey(p)
                         /\ EventKey(p) \notin keys
  <2>1. event = None => events' = events
    BY DEF Publish
  <2>2. event # None => events' = events \cup {event}
    BY DEF Publish
  <2>3. None \notin EventRows
    BY LedgerAssumption
  <2> QED  BY <1>1, <2>1, <2>2, <2>3 DEF AppendSound
<1>4. \A e, f \in events' : e.key = f.key => e = f
  BY <1>2, <1>3
<1>5. {e.key : e \in events'} = keys \cup {EventKey(p)}
  BY <1>3
<1>6. CASE p \in Writers
  <2>1. EventKey(p) \in WriterKeys /\ p \notin Requests
    BY <1>6, LedgerAssumption DEF EventKey, WriterKeys
  <2>2. deliveries' = deliveries
    BY <1>1, <1>6 DEF Publish, TxSound
  <2>3. {<<d.id, d.body>> : d \in deliveries'} = pairs
    BY <2>2
  <2> HIDE DEF pairs, keys
  <2> QED  BY <1>2, <1>4, <1>5, <2>1, <2>3
<1>7. CASE p \in Requests
  <2>1. ClaimSound(p) /\ EventKey(p) = <<tx[p].target, BodyOf[p]>>
    BY <1>1, <1>7 DEF TxSound, EventKey
  <2>2. EventKey(p) \notin WriterKeys
    <3>1. tx[p].target \in Ids /\ BodyOf[p] \in Bodies
      BY <1>7, <2>1 DEF ClaimSound, Bodies
    <3>2. EventKey(p) \in ClaimKeys
      BY <2>1, <3>1 DEF ClaimKeys
    <3> QED  BY <3>2, LedgerAssumption
  <2>3. CASE tx[p].inserted
    <3> DEFINE row == [id |-> IdOf[p], body |-> BodyOf[p]]
    <3>1. deliveries' = deliveries \cup {row} /\ EventKey(p) = <<IdOf[p], BodyOf[p]>>
      BY <2>1, <2>3 DEF Publish, ClaimSound
    <3>2. EventKey(p) = <<row.id, row.body>>
      BY <3>1
    <3> HIDE DEF row
    <3>3. {<<d.id, d.body>> : d \in deliveries'} = pairs \cup {EventKey(p)}
      BY <3>1, <3>2
    <3> HIDE DEF pairs, keys
    <3> QED  BY <1>2, <1>4, <1>5, <2>2, <3>3
  <2>4. CASE ~tx[p].inserted
    <3>1. deliveries' = deliveries /\ EventKey(p) \in pairs
      BY <2>1, <2>4 DEF Publish, ClaimSound
    <3> QED  BY <1>2, <1>4, <1>5, <2>2, <3>1, ZenonT(30)
  <2> QED  BY <2>3, <2>4
<1> QED  BY <1>6, <1>7 DEF Processes

(* The published event is a row of its own at the end of the chain. *)
LEMMA RowsKept ==
    ASSUME IInv, RecordInv, NEW p \in Processes, tx[p].pc = "commit", Publish(p)
    PROVE  RowsSound'
<1> DEFINE event == tx[p].event
<1>1. TxSound(p) /\ HasAppended(p) /\ ExtendsHead(event)
  BY DEF RecordInv, HasAppended, IInv, PendingExtends
<1>2. CASE event = None
  BY <1>2 DEF Publish, RecordInv, RowsSound
<1>3. CASE event # None
  <2>1. /\ event \in EventRows /\ event.hash = Append(event.previous, event.key)
        /\ event.sequence = head.revision + 1 /\ event.previous = head.hash
    BY <1>1, <1>3 DEF TxSound, AppendSound, ExtendsHead
  <2>2. /\ events' = events \cup {event}
        /\ head'.revision = event.sequence /\ head'.hash = event.hash
    BY <1>3 DEF Publish
  <2>3. head.revision \in Nat /\ \A e \in events : e.sequence \in 1 .. head.revision
    BY DEF IInv, Counted, LedgerIsOneChain
  <2>4. event.hash \in Seq(Keys)
    BY <2>1 DEF EventRows
  <2>5. events' \subseteq EventRows
    BY <2>1, <2>2 DEF RecordInv, RowsSound
  <2>6. event.sequence = 1 => event.previous = <<>>
    BY <2>1, <2>3 DEF RecordInv, RowsSound
  <2>7. \A e, f \in events' : e.sequence = f.sequence => e = f
    <3>1. \A e \in events : e.sequence # event.sequence
      BY <2>1, <2>3
    <3>2. \A e, f \in events : e.sequence = f.sequence => e = f
      BY Zenon DEF RecordInv, RowsSound
    <3> QED  BY <2>2, <3>1, <3>2, Zenon
  <2>8. \A e \in events' : /\ e.hash = Append(e.previous, e.key)
                           /\ e.sequence = 1 => e.previous = <<>>
    BY <2>1, <2>2, <2>6, Zenon DEF RecordInv, RowsSound
  <2>9. head'.revision # 0
    BY <2>1, <2>2, <2>3
  <2> QED  BY <2>2, <2>4, <2>5, <2>7, <2>8, <2>9 DEF RowsSound
<1> QED  BY <1>2, <1>3

LEMMA RecordCommit == ASSUME IInv, RecordInv, NEW p \in Processes, Commit(p) PROVE RecordInv'
<1>1. tx[p].pc = "commit" /\ Publish(p) /\ \E a : EndTx(p, a)
  BY DEF Commit
<1>2. tx'[p] = NoTx /\ \A o \in Processes \ {p} : tx'[o] = tx[o]
  BY <1>1 DEF EndTx, IInv, TxShape
<1>3. \A o \in Processes \ {p} : ~HasAppended(o)
  BY <1>1 DEF IInv, HeadHeld, HasAppended
<1>4. /\ \A d \in deliveries : d \in deliveries'
      /\ \A d \in deliveries' : \/ d \in deliveries
                                \/ tx[p].inserted /\ d.id = IdOf[p] /\ d.body = BodyOf[p]
  BY <1>1 DEF Publish
<1>5. p \in Writers => ~tx[p].inserted
  BY DEF RecordInv, TxSound
<1>6. ASSUME NEW o \in Processes \ {p} PROVE TxSound(o)'
  <2>1. TxSound(o) /\ tx'[o] = tx[o] /\ ~HasAppended(o)
    BY <1>2, <1>3 DEF RecordInv
  <2>2. AppendSound(o)'
    BY <2>1 DEF AppendSound, HasAppended
  <2>3. ASSUME o \in Requests PROVE ClaimSound(o)'
    <3>1. ClaimSound(o)
      BY <2>1, <2>3 DEF TxSound
    <3>2. ASSUME tx[o].inserted, tx[p].inserted
          PROVE  IdOf[p] # IdOf[o] /\ BodyOf[p] # BodyOf[o]
      <4>1. p \in Requests
        BY <1>5, <3>2 DEF Processes
      <4> QED  BY <2>3, <3>2, <4>1 DEF RecordInv, Exclusive
    <3> QED  BY <1>4, <2>1, <3>1, <3>2 DEF ClaimSound
  <2> QED  BY <2>1, <2>2, <2>3 DEF TxSound
<1>7. TxSound(p)'
  BY <1>2, IdleSound
<1>8. Exclusive'
  <2>1. tx'[p].inserted = FALSE
    BY <1>2, IdleSound, Zenon
  <2> QED  BY <1>2, <2>1 DEF RecordInv, Exclusive, Processes
<1>9. \A d \in deliveries' : d.id \in Ids /\ d.body \in Bodies
  <2>1. tx[p].inserted => IdOf[p] \in Ids /\ BodyOf[p] \in Bodies
    BY <1>5 DEF Processes, Ids, Bodies
  <2> QED  BY <1>4, <2>1 DEF RecordInv
<1>10. RowsSound' /\ DeliveriesAudited'
  BY <1>1, RowsKept, PairsKept DEF DeliveriesAudited
<1> QED  BY <1>6, <1>7, <1>8, <1>9, <1>10 DEF RecordInv

LEMMA NextRecord == ASSUME IInv, RecordInv, [Next]_vars PROVE RecordInv'
<1>1. ASSUME UNCHANGED <<deliveries, events, head, tx>> PROVE RecordInv'
  <2>1. \A p \in Processes : EventKey(p)' = EventKey(p)
    BY <1>1 DEF EventKey
  <2>2. \A p \in Processes : TxSound(p)'
    <3> SUFFICES ASSUME NEW p \in Processes PROVE TxSound(p)'
      OBVIOUS
    <3>1. TxSound(p)
      BY DEF RecordInv
    <3>2. AppendSound(p)'
      BY <1>1, <2>1, <3>1 DEF TxSound, AppendSound, HasAppended
    <3>3. ASSUME p \in Requests PROVE ClaimSound(p)'
      BY <1>1, <3>1, <3>3 DEF TxSound, ClaimSound
    <3> QED  BY <1>1, <3>1, <3>2, <3>3 DEF TxSound
  <2> QED  BY <1>1, <2>2 DEF RecordInv, Exclusive, RowsSound, DeliveriesAudited
<1>2. CASE UNCHANGED vars
  BY <1>1, <1>2 DEF vars
<1>3. CASE \E d \in Ids : BeginCleanup(d)
  BY <1>1, <1>3 DEF BeginCleanup, tables
<1>4. CASE EndCleanup \/ Snapshot \/ ReplayPage
  BY <1>1, <1>4 DEF EndCleanup, Snapshot, ReplayPage, tables
<1>5. ASSUME NEW p \in Processes, Rollback(p) PROVE RecordInv'
  BY <1>5, RecordEnds DEF Rollback, tables
<1> QED
  BY <1>2, <1>3, <1>4, <1>5, RecordClaim, RecordObserve, RecordWriter, RecordAppend,
     RecordCommit DEF Next

LEMMA RecordInvariance == Spec => [](IInv /\ RecordInv)
<1>1. IInv /\ RecordInv /\ [Next]_vars => RecordInv'
  BY NextRecord
<1> QED  BY <1>1, InitRecord, ChainInvariance, PTL DEF Spec

(* Delivery rows and claim events come in pairs and no key is recorded      *)
(* twice, for every set of requests, whatever ids and bodies they share:    *)
(* commit claims the row and _append looks the key up under the head lock,  *)
(* in one transaction.                                                      *)
THEOREM DeliveriesPaired == Spec => []DeliveriesAudited
<1>1. RecordInv => DeliveriesAudited
  BY DEF RecordInv
<1> QED  BY <1>1, RecordInvariance, PTL

(* What an answer that stops the redelivery of r stands for. *)
AcknowledgedStored(r) ==
    tx[r].pc = "commit" /\ tx'[r].pc = "idle" /\ answer' \in {"claimed", "duplicate"}
    => /\ \E d \in deliveries' : d.body = BodyOf[r] /\ d.id = tx[r].target
       /\ \E e \in events' : e.key = EventKey(r)
       /\ BodyOf[r] \in Observed => tx[r].target \in observations'
       /\ answer' = "claimed" => \A d \in deliveries : d.body # BodyOf[r]

LEMMA CommitStores ==
    ASSUME IInv, RecordInv, NEW r \in Requests, Commit(r)
    PROVE  AcknowledgedStored(r)
<1>1. tx[r].pc = "commit" /\ Publish(r) /\ r \in Processes /\ r \notin Writers
  BY LedgerAssumption DEF Commit, Processes
<1>2. ClaimSound(r) /\ AppendSound(r) /\ HasAppended(r)
  BY <1>1 DEF RecordInv, TxSound, HasAppended
<1>3. \E d \in deliveries' : d.body = BodyOf[r] /\ d.id = tx[r].target
  <2>1. CASE tx[r].inserted
    <3>1. [id |-> IdOf[r], body |-> BodyOf[r]] \in deliveries' /\ tx[r].target = IdOf[r]
      BY <1>1, <1>2, <2>1 DEF Publish, ClaimSound
    <3> QED  BY <3>1
  <2>2. CASE ~tx[r].inserted
    BY <1>1, <1>2, <2>2 DEF Publish, ClaimSound
  <2> QED  BY <2>1, <2>2
<1>4. \E e \in events' : e.key = EventKey(r)
  BY <1>1, <1>2, LedgerAssumption DEF Publish, AppendSound
<1>5. BodyOf[r] \in Observed => tx[r].target \in observations'
  BY <1>1, <1>2 DEF Publish, ClaimSound
<1>6. answer' = "claimed" => \A d \in deliveries : d.body # BodyOf[r]
  <2>1. answer' \in {CommittedAnswer(r), "unavailable"}
    BY DEF Commit, EndTx
  <2>2. CASE tx[r].inserted
    BY <1>1, <1>2, <2>2 DEF ClaimSound
  <2>3. CASE ~tx[r].inserted
    BY <1>1, <2>1, <2>3 DEF CommittedAnswer
  <2> QED  BY <2>2, <2>3
<1> QED  BY <1>3, <1>4, <1>5, <1>6 DEF AcknowledgedStored

(* An acknowledgement is given only when the delivery, its event and its    *)
(* observation are stored, for every instance and whatever the cleanup      *)
(* deletes: the answer of commit is that of the transaction that stores     *)
(* what is still missing.                                                   *)
THEOREM AcknowledgementsStored == Spec => AcknowledgedIsStored
<1>1. IInv /\ RecordInv /\ [Next]_vars => [\A r \in Requests : AcknowledgedStored(r)]_vars
  <2> SUFFICES ASSUME IInv, RecordInv, Next, NEW r \in Requests
               PROVE  AcknowledgedStored(r)
    OBVIOUS
  <2>p. r \in Processes /\ DOMAIN tx = Processes
    BY DEF Processes, IInv, TxShape
  <2>1. CASE UNCHANGED tx
    BY <2>1 DEF AcknowledgedStored
  <2>2. ASSUME NEW p \in Processes, p # r, NEW q, tx' = [tx EXCEPT ![p] = q]
        PROVE  AcknowledgedStored(r)
    BY <2>p, <2>2 DEF AcknowledgedStored
  <2>3. ASSUME NEW a, a \notin {"claimed", "duplicate"}, answer' = a
        PROVE  AcknowledgedStored(r)
    BY <2>3 DEF AcknowledgedStored
  <2>4. ASSUME NEW p \in Processes, Commit(p) PROVE AcknowledgedStored(r)
    BY <2>2, <2>4, CommitStores, Zenon DEF Commit, EndTx
  <2>5. ASSUME NEW p \in Processes, AppendEvent(p) \/ Rollback(p) PROVE AcknowledgedStored(r)
    BY <2>3, <2>5 DEF AppendEvent, Rollback, EndTx
  <2>6. ASSUME NEW q \in Requests, ClaimDelivery(q) \/ ObserveDelivery(q)
        PROVE  AcknowledgedStored(r)
    BY <2>3, <2>6 DEF ClaimDelivery, ObserveDelivery, EndTx, ReadyToCommit
  <2>7. CASE \/ \E w \in Writers : BeginWriter(w)
             \/ \E d \in Ids : BeginCleanup(d)
             \/ EndCleanup \/ Snapshot \/ ReplayPage
    BY <2>3, <2>7, Zenon DEF BeginWriter, BeginCleanup, EndCleanup, Snapshot, ReplayPage
  <2> QED  BY <2>4, <2>5, <2>6, <2>7 DEF Next
<1> QED
  BY <1>1, RecordInvariance, PTL DEF Spec, AcknowledgedIsStored, AcknowledgedStored

----------------------------------------------------------------------------
(* The replay. *)

(* hash is the chain hash after n events. *)
HashAt(n, hash) ==
    \/ n = 0 /\ hash = <<>>
    \/ \E e \in events : e.sequence = n /\ e.hash = hash

(* The frozen head and the verified prefix are points of the chain. *)
Sound(r) ==
    /\ r.pc \in {"idle", "scan", "stream"}
    /\ r.pc # "idle" =>
          /\ r.through \in 0 .. head.revision /\ HashAt(r.through, r.hash)
          /\ r.at \in 0 .. r.through /\ HashAt(r.at, r.last)

ReplaySound == Sound(replay)

Fields(r) == DOMAIN r = {"pc", "through", "hash", "at", "last"}

ReplayFields == Fields(replay)

(* The chain has one event for each sequence number, and one hash.          *)
LEMMA EventAt ==
    ASSUME IInv, RecordInv, NEW n \in 1 .. head.revision
    PROVE  \E e \in events : e.sequence = n
<1>1. n \in {e.sequence : e \in events}
  BY DEF IInv, LedgerIsOneChain
<1> QED  BY <1>1

LEMMA SequencesInRange ==
    ASSUME IInv
    PROVE  head.revision \in Nat /\ \A e \in events : e.sequence \in 1 .. head.revision
  BY DEF IInv, Counted, LedgerIsOneChain

LEMMA OneHash ==
    ASSUME IInv, RecordInv, NEW n \in Nat, NEW g, NEW h, HashAt(n, g), HashAt(n, h)
    PROVE  g = h
<1>1. \A e \in events : e.sequence # 0
  BY SequencesInRange
<1> QED  BY <1>1 DEF HashAt, RecordInv, RowsSound

(* The events between two sequence numbers, counted. *)
Between(a, b) == {e \in events : a < e.sequence /\ e.sequence <= b}

LEMMA BetweenCounted ==
    ASSUME IInv, RecordInv, NEW a \in Nat, NEW b \in Nat, a <= b, b <= head.revision
    PROVE  /\ IsFiniteSet(Between(a, b)) /\ Cardinality(Between(a, b)) = b - a
           /\ {e.sequence : e \in Between(a, b)} = (a + 1) .. b
<1>1. {e.sequence : e \in Between(a, b)} = (a + 1) .. b
  <2>1. ASSUME NEW n \in (a + 1) .. b PROVE \E e \in Between(a, b) : e.sequence = n
    <3>1. n \in 1 .. head.revision
      BY <2>1, SequencesInRange
    <3>2. PICK e \in events : e.sequence = n
      BY <3>1, EventAt
    <3>3. e \in Between(a, b)
      BY <3>2 DEF Between
    <3> QED  BY <3>2, <3>3
  <2>2. ASSUME NEW e \in Between(a, b) PROVE e.sequence \in (a + 1) .. b
    BY SequencesInRange DEF Between
  <2> QED  BY <2>1, <2>2
<1> DEFINE f == [e \in Between(a, b) |-> e.sequence]
<1>2. f \in Bijection(Between(a, b), (a + 1) .. b)
  <2>1. f \in [Between(a, b) -> (a + 1) .. b]
    BY <1>1
  <2>2. \A e, g \in Between(a, b) : f[e] = f[g] => e = g
    BY DEF RecordInv, RowsSound, Between
  <2>3. \A n \in (a + 1) .. b : \E e \in Between(a, b) : f[e] = n
    <3> SUFFICES ASSUME NEW n \in (a + 1) .. b PROVE \E e \in Between(a, b) : f[e] = n
      OBVIOUS
    <3>1. n \in {e.sequence : e \in Between(a, b)}
      BY <1>1
    <3> QED  BY <3>1
  <2> QED  BY <2>1, <2>2, <2>3 DEF Bijection, Injection, Surjection, IsInjective
<1>3. IsFiniteSet((a + 1) .. b) /\ Cardinality((a + 1) .. b) = b - a
  <2>1. /\ IsFiniteSet((a + 1) .. b)
        /\ Cardinality((a + 1) .. b) = IF a + 1 > b THEN 0 ELSE b - (a + 1) + 1
    BY FS_Interval
  <2> QED  BY <2>1
<1>4. IsFiniteSet(Between(a, b))
  BY FS_Subset DEF IInv, Counted, Between
<1>5. Cardinality(Between(a, b)) = b - a
  <2>1. ExistsBijection(Between(a, b), (a + 1) .. b)
    BY <1>2 DEF ExistsBijection
  <2> QED  BY <1>3, <1>4, <2>1, FS_Bijection
<1> QED  BY <1>1, <1>4, <1>5

(* A page is the next events, up to PageSize of them and the frozen head. *)
LEMMA PageIsBetween ==
    ASSUME IInv, RecordInv, NEW at \in Nat, NEW through \in Nat,
           at < through, through <= head.revision
    PROVE  \E last \in (at + 1) .. through : LoadPage(at, through) = Between(at, last)
<1> DEFINE last == IF at + PageSize <= through THEN at + PageSize ELSE through
<1>1. last \in (at + 1) .. through /\ \A n \in Nat : n <= through => (n - at <= PageSize <=> n <= last)
  BY LedgerAssumption
<1>2. ASSUME NEW e \in events, at < e.sequence, e.sequence <= through
      PROVE  Cardinality({f \in events : at < f.sequence /\ f.sequence <= e.sequence})
                = e.sequence - at
  <2>1. e.sequence \in Nat /\ at <= e.sequence /\ e.sequence <= head.revision
    BY <1>2, SequencesInRange
  <2> QED  BY <2>1, BetweenCounted, Zenon DEF Between
<1>3. \A e \in events : e.sequence \in Nat
  BY SequencesInRange
<1> HIDE DEF last
<1>4. ASSUME NEW e \in events PROVE e \in LoadPage(at, through) <=> e \in Between(at, last)
  <2>1. e.sequence \in Nat /\ last \in Nat /\ last <= through
    BY <1>1, <1>3
  <2>2. CASE at < e.sequence /\ e.sequence <= through
    BY <1>1, <1>2, <2>1, <2>2 DEF LoadPage, Between
  <2>3. CASE ~(at < e.sequence /\ e.sequence <= through)
    BY <2>1, <2>3 DEF LoadPage, Between
  <2> QED  BY <2>2, <2>3
<1>5. LoadPage(at, through) = Between(at, last)
  BY <1>4 DEF LoadPage, Between
<1> QED  BY <1>1, <1>5

(* The events after a verified prefix extend it. *)
LEMMA NextPageExtends ==
    ASSUME IInv, RecordInv, NEW at \in Nat, NEW hash, HashAt(at, hash),
           NEW to \in (at + 1) .. head.revision
    PROVE  ExtendsChain(Between(at, to), at, hash)
<1> DEFINE page == Between(at, to)
<1>1. to \in Nat /\ at <= to /\ to <= head.revision
  BY SequencesInRange
<1>2. {e.sequence : e \in page} = (at + 1) .. (at + Cardinality(page))
  <2>1. Cardinality(page) = to - at /\ {e.sequence : e \in page} = (at + 1) .. to
    BY <1>1, BetweenCounted
  <2> QED  BY <1>1, <2>1
<1>3. page \subseteq events /\ \A e \in page : e.sequence > at
  BY DEF Between
<1>4. ASSUME NEW e \in page, e.sequence = at + 1 PROVE e.previous = hash
  <2>1. CASE at = 0 /\ hash = <<>>
    BY <1>3, <1>4, <2>1 DEF RecordInv, RowsSound
  <2>2. ASSUME NEW f \in events, f.sequence = at, f.hash = hash PROVE e.previous = hash
    BY <1>3, <1>4, <2>2 DEF IInv, LedgerIsOneChain
  <2> QED  BY <2>1, <2>2 DEF HashAt
<1>5. ASSUME NEW e \in page, hash # <<>> PROVE e.key # hash[Len(hash)]
  <2>1. PICK f \in events : f.sequence = at /\ f.hash = hash
    BY <1>5 DEF HashAt
  <2>2. hash = Append(f.previous, f.key) /\ f.previous \in Seq(Keys) /\ f.key \in Keys
    BY <2>1 DEF RecordInv, RowsSound, EventRows
  <2>3. hash[Len(hash)] = f.key
    BY <2>2
  <2>4. e \in events /\ e # f
    BY <1>3, <2>1
  <2>5. e.key # f.key
    BY <2>4 DEF RecordInv, DeliveriesAudited
  <2> QED  BY <2>3, <2>5
<1>6. \A e, f \in page : f.sequence = e.sequence + 1 => f.previous = e.hash
  BY <1>3 DEF IInv, LedgerIsOneChain
<1>7. \A e \in page : e.hash = Append(e.previous, e.key) /\ \A f \in page : f.key = e.key => f = e
  BY <1>3 DEF RecordInv, RowsSound, DeliveriesAudited
<1> HIDE DEF page
<1> QED  BY <1>2, <1>4, <1>5, <1>6, <1>7 DEF ExtendsChain, page

(* The chain only grows, so its points stay. *)
LEMMA PointsKept ==
    ASSUME IInv, IInv', RecordInv, ReplaySound, UNCHANGED replay, events \subseteq events',
           head'.revision >= head.revision
    PROVE  ReplaySound'
<1>1. \A n, h : HashAt(n, h) => HashAt(n, h)'
  BY DEF HashAt
<1>2. head.revision \in Nat /\ head'.revision \in Nat
  BY DEF IInv, Counted
<1> QED  BY <1>1, <1>2 DEF ReplaySound, Sound

LEMMA Successors == \A n \in Nat : n >= n /\ n + 1 >= n
  OBVIOUS

LEMMA NoReplayFine == Sound(NoReplay) /\ Fields(NoReplay)
<1>1. NoReplay.pc = "idle" /\ DOMAIN NoReplay = {"pc", "through", "hash", "at", "last"}
  BY DEF NoReplay
<1> QED  BY <1>1, Zenon DEF Sound, Fields

(* A pass over sound points ends as it should. *)
LEMMA PassEnds ==
    ASSUME IInv, RecordInv, NEW r, Fields(r), Sound(r), r.pc \in {"scan", "stream"}
    PROVE  Sound(EndReplayPass(r)) /\ Fields(EndReplayPass(r))
<1>1. /\ r.through \in 0 .. head.revision /\ HashAt(r.through, r.hash)
      /\ r.at \in 0 .. r.through /\ HashAt(r.at, r.last)
  BY DEF Sound
<1>2. CASE r.at < r.through
  BY <1>2 DEF EndReplayPass
<1>3. CASE ~(r.at < r.through)
  <2>1. r.at = r.through /\ r.through \in Nat
    BY <1>1, <1>3, SequencesInRange
  <2>2. r.last = r.hash
    BY <1>1, <2>1, OneHash
  <2>3. CASE r.pc = "scan" /\ r.through > 0
    <3> DEFINE q == [r EXCEPT !.pc = "stream", !.at = 0, !.last = <<>>]
    <3>1. EndReplayPass(r) = q
      BY <1>3, <2>2, <2>3 DEF EndReplayPass
    <3>2. /\ q.pc = "stream" /\ q.through = r.through /\ q.hash = r.hash
          /\ q.at = 0 /\ q.last = <<>> /\ Fields(q)
      BY DEF Fields
    <3>3. HashAt(0, <<>>)
      BY DEF HashAt
    <3> HIDE DEF q
    <3>4. Sound(q)
      BY <1>1, <2>1, <3>2, <3>3 DEF Sound
    <3> QED  BY <3>1, <3>2, <3>4
  <2>4. CASE ~(r.pc = "scan" /\ r.through > 0)
    <3>1. EndReplayPass(r) = NoReplay
      BY <1>3, <2>2, <2>4 DEF EndReplayPass
    <3> QED  BY <3>1, NoReplayFine, Zenon
  <2> QED  BY <2>3, <2>4
<1> QED  BY <1>2, <1>3

LEMMA ReplaySnapshot == ASSUME IInv, RecordInv, Snapshot PROVE ReplaySound' /\ ReplayFields'
<1>1. UNCHANGED <<events, head>>
  BY DEF Snapshot, tables
<1>2. MaximumSequence = head.revision
  <2>1. CASE events = {}
    <3>1. 1 .. head.revision = {}
      BY <2>1 DEF IInv, LedgerIsOneChain
    <3>2. head.revision = 0
      BY <3>1, SequencesInRange
    <3> QED  BY <2>1, <3>2 DEF MaximumSequence
  <2>2. CASE events # {}
    <3> DEFINE S == {e.sequence : e \in events}
    <3>1. S = 1 .. head.revision /\ head.revision \in Nat /\ S # {}
      BY <2>2, SequencesInRange DEF IInv, LedgerIsOneChain
    <3>2. head.revision \in S /\ \A e \in events : e.sequence <= head.revision
      BY <3>1, SequencesInRange
    <3>3. ASSUME NEW n \in S, \A e \in events : e.sequence <= n PROVE n = head.revision
      <4>1. head.revision <= n
        BY <3>2, <3>3
      <4>2. n \in 1 .. head.revision
        BY <3>1
      <4> QED  BY <3>1, <4>1, <4>2
    <3>4. (CHOOSE n \in S : \A e \in events : e.sequence <= n) = head.revision
      BY <3>2, <3>3
    <3> QED  BY <2>2, <3>4, Zenon DEF MaximumSequence
  <2> QED  BY <2>1, <2>2
<1>3. PICK r : /\ r = [NoReplay EXCEPT !.pc = "scan", !.through = head.revision, !.hash = head.hash]
               /\ replay' = EndReplayPass(r)
  BY <1>2 DEF Snapshot
<1>4. /\ r.pc = "scan" /\ r.through = head.revision /\ r.hash = head.hash
      /\ r.at = 0 /\ r.last = <<>> /\ Fields(r)
  BY <1>3 DEF NoReplay, Fields
<1>5. HashAt(head.revision, head.hash)
  <2>1. CASE head.revision = 0
    BY <2>1 DEF HashAt, RecordInv, RowsSound
  <2>2. CASE head.revision # 0
    <3>1. PICK e \in events : e.sequence = head.revision
      BY <2>2, EventAt, SequencesInRange
    <3>2. e.hash = head.hash
      BY <3>1 DEF IInv, LedgerIsOneChain
    <3> QED  BY <3>1, <3>2 DEF HashAt
  <2> QED  BY <2>1, <2>2
<1>6. Sound(r)
  BY <1>4, <1>5, SequencesInRange DEF Sound, HashAt
<1>7. Sound(replay') /\ Fields(replay')
  BY <1>3, <1>4, <1>6, PassEnds, Zenon
<1> QED  BY <1>1, <1>7 DEF ReplaySound, Sound, HashAt, ReplayFields, Fields

LEMMA ReplayReads ==
    ASSUME IInv, RecordInv, ReplaySound, ReplayFields, ReplayPage
    PROVE  ReplaySound' /\ ReplayFields'
<1>1. UNCHANGED <<events, head>> /\ replay.pc \in {"scan", "stream"}
  BY DEF ReplayPage, tables
<1>2. /\ replay.at \in Nat /\ replay.through \in Nat /\ replay.at < replay.through
      /\ replay.through <= head.revision /\ HashAt(replay.at, replay.last)
  BY <1>1, SequencesInRange DEF ReplayPage, ReplaySound, Sound
<1>3. PICK to \in (replay.at + 1) .. replay.through :
         LoadPage(replay.at, replay.through) = Between(replay.at, to)
  BY <1>2, PageIsBetween
<1> DEFINE page == Between(replay.at, to)
<1>4. /\ Cardinality(page) = to - replay.at /\ {e.sequence : e \in page} = (replay.at + 1) .. to
      /\ replay.at + Cardinality(page) = to /\ to \in 0 .. replay.through
  <2>1. to \in Nat /\ replay.at <= to /\ to <= head.revision /\ to <= replay.through
    BY <1>2, <1>3, SequencesInRange
  <2>2. /\ Cardinality(page) = to - replay.at
        /\ {e.sequence : e \in page} = (replay.at + 1) .. to
    BY <1>2, <2>1, BetweenCounted
  <2> QED  BY <1>2, <2>1, <2>2
<1>5. ExtendsChain(page, replay.at, replay.last)
  BY <1>2, <1>3, NextPageExtends, SequencesInRange
<1>6. PICK e \in page : e.sequence = to
  <2>1. to \in (replay.at + 1) .. to
    BY <1>2, <1>3
  <2> QED  BY <1>4, <2>1
<1>7. PICK r : /\ r = [replay EXCEPT !.at = to, !.last = (CHOOSE f \in page : f.sequence = to).hash]
               /\ replay' = EndReplayPass(r)
  <2>1. page # {} /\ replay.at + Cardinality(page) <= replay.through
    BY <1>2, <1>4, <1>6
  <2> HIDE DEF page
  <2> QED  BY <1>3, <1>4, <1>5, <2>1, Zenon DEF ReplayPage, page
<1>8. \E f \in page : /\ f.sequence = to
                      /\ (CHOOSE g \in page : g.sequence = to).hash = f.hash
  BY <1>6, Zenon
<1>9. /\ r.pc = replay.pc /\ r.through = replay.through /\ r.hash = replay.hash /\ r.at = to
      /\ r.last = (CHOOSE f \in page : f.sequence = to).hash /\ Fields(r)
  BY <1>7 DEF ReplayFields, Fields
<1>10. HashAt(to, r.last)
  BY <1>8, <1>9, Zenon DEF HashAt, Between
<1>11. Sound(r)
  <2>1. replay.through \in 0 .. head.revision /\ HashAt(replay.through, replay.hash)
    BY <1>1 DEF ReplaySound, Sound
  <2> QED  BY <1>1, <1>4, <1>9, <1>10, <2>1, Zenon DEF Sound
<1>12. Sound(replay') /\ Fields(replay')
  BY <1>1, <1>7, <1>9, <1>11, PassEnds, Zenon
<1> QED  BY <1>1, <1>12 DEF ReplaySound, Sound, HashAt, ReplayFields, Fields

LEMMA ReplayInvariance == Spec => [](ReplaySound /\ ReplayFields)
<1>1. Init => ReplaySound /\ ReplayFields
  BY NoReplayFine, Zenon DEF Init, ReplaySound, ReplayFields
<1>2. ASSUME IInv, IInv', RecordInv, ReplaySound, ReplayFields, [Next]_vars
      PROVE  ReplaySound' /\ ReplayFields'
  <2> DEFINE Kept == ReplaySound' /\ ReplayFields'
  <2>0. head.revision \in Nat
    BY <1>2, SequencesInRange
  <2>1. ASSUME UNCHANGED <<replay, events, head>> PROVE Kept
    <3>1. events \subseteq events' /\ head'.revision >= head.revision /\ UNCHANGED replay
      BY <2>0, <2>1
    <3> QED  BY <1>2, <3>1, PointsKept DEF ReplayFields, Fields
  <2>2. ASSUME NEW p \in Processes, Commit(p) PROVE Kept
    <3>1. UNCHANGED replay /\ Publish(p) /\ HasAppended(p)
      BY <2>2 DEF Commit, HasAppended
    <3>2. ExtendsHead(tx[p].event)
      BY <1>2, <3>1 DEF IInv, PendingExtends
    <3>3. events \subseteq events'
      BY <3>1 DEF Publish
    <3>4. head'.revision >= head.revision
      <4>1. head' = head \/ head'.revision = head.revision + 1
        BY <3>1, <3>2, Zenon DEF Publish, ExtendsHead
      <4> QED  BY <2>0, <4>1, Successors, Zenon
    <3> QED  BY <1>2, <3>1, <3>3, <3>4, PointsKept DEF ReplayFields, Fields
  <2> HIDE DEF Kept
  <2>3. ASSUME NEW r \in Requests, ClaimDelivery(r) \/ ObserveDelivery(r) PROVE Kept
    BY <2>1, <2>3, Zenon DEF ClaimDelivery, ObserveDelivery, tables
  <2>4. ASSUME NEW p \in Processes, AppendEvent(p) \/ Rollback(p) PROVE Kept
    BY <2>1, <2>4 DEF AppendEvent, Rollback, tables
  <2>5. ASSUME \/ \E w \in Writers : BeginWriter(w)
               \/ \E d \in Ids : BeginCleanup(d)
               \/ EndCleanup \/ UNCHANGED vars
        PROVE  Kept
    BY <2>1, <2>5, Zenon DEF BeginWriter, BeginCleanup, EndCleanup, vars, tables
  <2>6. ASSUME Snapshot \/ ReplayPage PROVE Kept
    BY <1>2, <2>6, ReplaySnapshot, ReplayReads DEF Kept
  <2>7. Kept
    BY <1>2, <2>2, <2>3, <2>4, <2>5, <2>6 DEF Next
  <2> QED  BY <2>7 DEF Kept
<1> QED  BY <1>1, <1>2, RecordInvariance, PTL DEF Spec

(* A replay never reports an intact ledger as invalid, for every page size  *)
(* and every interleaving with appends: the page after a verified prefix    *)
(* extends it, and the last one ends in the head the snapshot froze.        *)
THEOREM ReplayValid == Spec => []ReplayStaysValid
<1>1. ReplaySound => ReplayStaysValid
  BY DEF ReplaySound, Sound, ReplayStaysValid
<1> QED  BY <1>1, ReplayInvariance, PTL

============================================================================
