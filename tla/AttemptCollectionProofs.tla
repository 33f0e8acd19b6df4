---------------------- MODULE AttemptCollectionProofs -----------------------
(***************************************************************************)
(* The evidence of a source follows its row, a purged source never has a   *)
(* row again, and a report carries the signal of the policy current at its *)
(* commit, for every set of sources, tasks and reports, every policy with  *)
(* the bounds the code demands and every quota.                            *)
(*                                                                         *)
(* The facts are not inductive alone: a report being written has to keep   *)
(* its row, which the row lock ensures, and the revision it has read has   *)
(* to stay the current one, which the lock of the budget scope ensures;    *)
(* and a purge has to come after the window of the source for good.        *)
(***************************************************************************)
EXTENDS AttemptCollection, TLAPS


Statuses == Open \cup Final \cup {"absent", "expired"}
RowType == [status : Statuses, attempts : Nat, backoff : Nat, at : Nat]
ClaimType == [pc : {"claimed", "storing", "rejecting"}, source : Sources,
              attempt : Nat, expires : Nat]

TypeInv ==
    /\ now \in Nat /\ policy \in Nat
    /\ row \in [Sources -> RowType]
    /\ task \in [Tasks -> ClaimType \cup {Idle}]
    /\ snapshots \subseteq Sources /\ purged \subseteq Sources
    /\ reports \subseteq Reports
    /\ signals \subseteq Reports \X Nat
    /\ writing \in [Reports -> Nat \cup {NoRevision}]

(* A report being written is not stored yet, has read the current policy    *)
(* and has a row that is there and not expired.                             *)
WritersHold ==
    \A r \in Reports : writing[r] # NoRevision =>
        /\ row[SourceOf[r]].status \notin {"absent", "expired"}
        /\ writing[r] = policy
        /\ r \notin reports

PurgedIsPast == \A s \in purged : TombstoneUntil(s) <= now

(* The inductive invariant. *)
IInv == TypeInv /\ WritersHold /\ PurgedIsPast /\ EvidenceFollowsRow

(* What registration, claims and their settlement may do to a row: status   *)
(* moves between those without evidence and without an end.                 *)
Unheld == Open \cup {"absent", "terminal_unavailable"}
RowsMove ==
    /\ row' \in [Sources -> RowType]
    /\ \A s \in Sources : row'[s].status # row[s].status =>
          /\ row[s].status \in Unheld
          /\ row'[s].status \in Unheld \ {"absent"}
          /\ row[s].status = "absent" => s \notin purged

USE CollectionAssumption

LEMMA Times ==
    ASSUME NEW s \in Sources
    PROVE  /\ Deadline(s) \in Nat /\ EvidenceUntil(s) \in Nat /\ TombstoneUntil(s) \in Nat
           /\ Deadline(s) < EvidenceUntil(s) /\ EvidenceUntil(s) < TombstoneUntil(s)
  BY DEF Deadline, EvidenceUntil, TombstoneUntil

LEMMA InitIInv == Init => IInv
  BY DEF Init, IInv, TypeInv, WritersHold, PurgedIsPast, EvidenceFollowsRow, RowType,
         Statuses, Absent, Open, Final, ClaimType, NoRevision

(* A step that only moves rows, ticks or moves tasks keeps the invariant. *)
LEMMA RowsMovePreserves ==
    ASSUME IInv, RowsMove, UNCHANGED <<evidence, budgets, purged>>,
           now' \in Nat, now <= now', task' \in [Tasks -> ClaimType \cup {Idle}]
    PROVE  IInv'
<1>1. TypeInv'
  BY DEF IInv, TypeInv, RowsMove, evidence, budgets
<1>2. WritersHold'
  BY DEF IInv, TypeInv, WritersHold, RowsMove, evidence, budgets, Unheld, Open
<1>3. PurgedIsPast'
  <2> SUFFICES ASSUME NEW s \in purged PROVE TombstoneUntil(s) <= now'
    BY DEF PurgedIsPast, TombstoneUntil, EvidenceUntil
  <2>1. s \in Sources /\ TombstoneUntil(s) <= now /\ now \in Nat
    BY DEF IInv, TypeInv, PurgedIsPast
  <2> QED  BY <2>1, Times
<1>4. EvidenceFollowsRow'
  <2>1. \A s \in Sources : s \in snapshots' <=> row'[s].status = "captured"
    BY DEF IInv, TypeInv, EvidenceFollowsRow, RowsMove, evidence, Unheld, Open
  <2>2. \A r \in reports' : row'[SourceOf[r]].status \notin {"absent", "expired"}
    BY DEF IInv, TypeInv, EvidenceFollowsRow, RowsMove, evidence, Unheld, Open
  <2>3. \A g \in signals' : g[1] \in reports'
    BY DEF IInv, EvidenceFollowsRow, evidence
  <2>4. \A s \in purged' : row'[s].status = "absent"
    BY DEF IInv, TypeInv, EvidenceFollowsRow, RowsMove, evidence
  <2> QED  BY <2>1, <2>2, <2>3, <2>4 DEF EvidenceFollowsRow
<1> QED  BY <1>1, <1>2, <1>3, <1>4 DEF IInv

(* A purged source is past its window. *)
LEMMA PurgedNotInWindow ==
    ASSUME IInv, NEW s \in Sources, InWindow(s)
    PROVE  s \notin purged
<1>1. now \in Nat /\ now < Deadline(s)
  BY DEF IInv, TypeInv, InWindow
<1>2. s \in purged => TombstoneUntil(s) <= now
  BY DEF IInv, PurgedIsPast
<1> QED  BY <1>1, <1>2, Times

LEMMA RegisteredMoves ==
    ASSUME IInv, NEW S \in SUBSET Sources, Registered(S),
           \A s \in S : row[s].status = "absent" /\ InWindow(s)
    PROVE  RowsMove
<1>1. [Absent EXCEPT !.status = "pending", !.at = now] \in RowType
  BY Zenon DEF IInv, TypeInv, RowType, Statuses, Absent, Open
<1>2. [Absent EXCEPT !.status = "pending", !.at = now].status = "pending"
  BY DEF Absent
<1>3. row' \in [Sources -> RowType]
  BY <1>1 DEF IInv, TypeInv, Registered
<1>4. \A s \in Sources : row'[s].status # row[s].status =>
         s \in S /\ row'[s].status = "pending"
  BY <1>2 DEF Registered
<1> QED  BY <1>3, <1>4, PurgedNotInWindow DEF RowsMove, Unheld, Open

LEMMA TerminalRow ==
    ASSUME NEW r \in RowType
    PROVE  Terminal(r) \in RowType /\ Terminal(r).status = "terminal_unavailable"
  BY Zenon DEF Terminal, RowType, Statuses, Final

LEMMA LeasedRow ==
    ASSUME NEW r \in RowType, NEW e \in Nat
    PROVE  /\ [r EXCEPT !.status = "leased", !.attempts = @ + 1, !.at = e] \in RowType
           /\ [r EXCEPT !.status = "leased", !.attempts = @ + 1, !.at = e].status = "leased"
<1>1. r.attempts + 1 \in Nat  BY DEF RowType
<1> QED  BY <1>1, Zenon DEF RowType, Statuses, Open

LEMMA AcquiredRow ==
    ASSUME IInv, NEW s \in Sources
    PROVE  /\ Acquire(s) \in RowType
           /\ Acquire(s).status \in {"leased", "terminal_unavailable"}
<1>1. row[s] \in RowType /\ now \in Nat /\ now + Lease \in Nat
  BY DEF IInv, TypeInv
<1>2. Terminal(row[s]) \in RowType /\ Terminal(row[s]).status = "terminal_unavailable"
  BY <1>1, TerminalRow
<1>3. /\ [row[s] EXCEPT !.status = "leased", !.attempts = @ + 1, !.at = now + Lease]
           \in RowType
      /\ [row[s] EXCEPT !.status = "leased", !.attempts = @ + 1, !.at = now + Lease].status
           = "leased"
  BY <1>1, LeasedRow, Zenon
<1> QED  BY <1>2, <1>3 DEF Acquire

LEMMA ClaimNextPreserves ==
    ASSUME IInv, NEW t \in Tasks, ClaimNext(t)
    PROVE  IInv'
<1>1. \A s \in Examined : s \in Sources /\ row[s].status \in Open
  BY DEF Examined, Due
<1>2. row' = [s \in Sources |-> IF s \in Examined THEN Acquire(s) ELSE row[s]]
  BY DEF ClaimNext
<1>3. row' \in [Sources -> RowType]
  BY <1>2, AcquiredRow DEF IInv, TypeInv
<1>4. RowsMove
  <2> SUFFICES ASSUME NEW s \in Sources, row'[s].status # row[s].status
               PROVE  /\ row[s].status \in Open
                      /\ row'[s].status \in {"leased", "terminal_unavailable"}
    BY <1>3 DEF RowsMove, Unheld, Open
  <2>1. s \in Examined  BY <1>2
  <2> QED  BY <2>1, <1>1, <1>2, AcquiredRow
<1>5. task' \in [Tasks -> ClaimType \cup {Idle}]
  <2>1. PICK s \in Examined :
          IF row'[s].status = "leased"
          THEN task' = [task EXCEPT ![t] = [pc |-> "claimed", source |-> s,
                                            attempt |-> row'[s].attempts, expires |-> row'[s].at]]
          ELSE (\A u \in Examined : row'[u].status # "leased") /\ UNCHANGED task
    BY Zenon DEF ClaimNext
  <2>2. s \in Sources /\ row'[s].attempts \in Nat /\ row'[s].at \in Nat
    BY <1>1, <1>3 DEF RowType
  <2>3. [pc |-> "claimed", source |-> s, attempt |-> row'[s].attempts, expires |-> row'[s].at]
          \in ClaimType
    BY <2>2 DEF ClaimType
  <2> QED  BY <2>1, <2>3 DEF IInv, TypeInv
<1> QED  BY <1>4, <1>5, RowsMovePreserves DEF ClaimNext, IInv, TypeInv

LEMMA DeferredRow ==
    ASSUME IInv, NEW r \in RowType, NEW s \in Sources, NEW d \in RetryDelays(r.backoff)
    PROVE  /\ Deferred(r, s, d) \in RowType
           /\ Deferred(r, s, d).status \in {"deferred", "terminal_unavailable"}
<1>1. now \in Nat /\ r.backoff \in Nat
  BY DEF IInv, TypeInv, RowType
<1>2. d \in Nat
  <2>1. (r.backoff + 1) \div 2 \in Nat  BY <1>1
  <2> QED  BY <1>1, <2>1 DEF RetryDelays
<1> DEFINE a == now + d
           b == IF 2 * r.backoff < MaxBackoff THEN 2 * r.backoff ELSE MaxBackoff
           q == [r EXCEPT !.status = "deferred", !.at = a, !.backoff = b]
<1>3. a \in Nat /\ b \in Nat  BY <1>1, <1>2
<1>4. q \in RowType /\ q.status = "deferred"
  <2> HIDE DEF a, b
  <2> QED  BY <1>3, Zenon DEF RowType, Statuses, Open
<1>5. Terminal(r) \in RowType /\ Terminal(r).status = "terminal_unavailable"
  BY TerminalRow
<1>6. Deferred(r, s, d) = Terminal(r) \/ Deferred(r, s, d) = q
  BY DEF Deferred
<1> HIDE DEF q
<1> QED  BY <1>4, <1>5, <1>6

(* The row of an active claim is leased. *)
LEMMA ActiveIsLeased ==
    ASSUME IInv, NEW t \in Tasks, task[t].pc \in {"claimed", "storing", "rejecting"}
    PROVE  /\ task[t] \in ClaimType /\ task[t].source \in Sources
           /\ Active(t) => row[task[t].source].status = "leased"
  BY DEF IInv, TypeInv, ClaimType, Idle, Active

(* One row of an open status becomes another of an unheld status. *)
LEMMA OneRowMoves ==
    ASSUME IInv, NEW s \in Sources, row[s].status = "leased", NEW q \in RowType,
           q.status \in Unheld \ {"absent"}, row' = [row EXCEPT ![s] = q]
    PROVE  RowsMove
<1>1. row' \in [Sources -> RowType]
  BY DEF IInv, TypeInv
<1>2. \A u \in Sources : row'[u] = IF u = s THEN q ELSE row[u]
  BY DEF IInv, TypeInv
<1> QED  BY <1>1, <1>2 DEF RowsMove, Unheld, Open

LEMMA NoRowMoves == ASSUME IInv, UNCHANGED row PROVE RowsMove
  BY DEF RowsMove, IInv, TypeInv

LEMMA DeferPreserves ==
    ASSUME IInv, NEW t \in Tasks, DeferClaim(t)
    PROVE  IInv'
<1> DEFINE s == task[t].source
<1>1. s \in Sources /\ (Active(t) => row[s].status = "leased")
  BY ActiveIsLeased DEF DeferClaim
<1>2. RowsMove
  <2>1. CASE Active(t)
    <3>1. PICK d \in RetryDelays(row[s].backoff) : row' = [row EXCEPT ![s] = Deferred(@, s, d)]
      BY <2>1 DEF DeferClaim
    <3>2. row[s] \in RowType  BY <1>1 DEF IInv, TypeInv
    <3>3. /\ Deferred(row[s], s, d) \in RowType
          /\ Deferred(row[s], s, d).status \in {"deferred", "terminal_unavailable"}
      BY <1>1, <3>2, DeferredRow
    <3>4. row' = [row EXCEPT ![s] = Deferred(row[s], s, d)]
      BY <3>1
    <3>5. Deferred(row[s], s, d).status \in Unheld \ {"absent"}
      BY <3>3 DEF Unheld, Open
    <3> HIDE DEF s
    <3> QED  BY <1>1, <2>1, <3>3, <3>4, <3>5, OneRowMoves, Zenon
  <2>2. CASE ~Active(t)
    BY <2>2, NoRowMoves DEF DeferClaim
  <2> QED  BY <2>1, <2>2
<1>3. task' \in [Tasks -> ClaimType \cup {Idle}]
  BY DEF DeferClaim, IInv, TypeInv
<1> QED  BY <1>2, <1>3, RowsMovePreserves DEF DeferClaim, IInv, TypeInv

LEMMA LockClaimPreserves ==
    ASSUME IInv, NEW t \in Tasks, LockClaim(t)
    PROVE  IInv'
<1>1. task[t] \in ClaimType
  BY ActiveIsLeased DEF LockClaim
<1>2. [task[t] EXCEPT !.pc = "storing"] \in ClaimType
  BY <1>1 DEF ClaimType
<1>3. task' \in [Tasks -> ClaimType \cup {Idle}]
  BY <1>2 DEF LockClaim, IInv, TypeInv
<1> QED  BY <1>3, NoRowMoves, RowsMovePreserves DEF LockClaim, IInv, TypeInv

LEMMA RejectPreserves ==
    ASSUME IInv, NEW t \in Tasks, RejectClaim(t)
    PROVE  IInv'
<1> DEFINE s == task[t].source
<1>1. s \in Sources /\ (Active(t) => row[s].status = "leased")
  BY ActiveIsLeased DEF RejectClaim
<1>2. RowsMove
  <2>1. CASE Active(t)
    <3>1. row[s] \in RowType  BY <1>1 DEF IInv, TypeInv
    <3>2. Terminal(row[s]) \in RowType /\ Terminal(row[s]).status \in Unheld \ {"absent"}
      BY <3>1, TerminalRow DEF Unheld
    <3>3. row' = [row EXCEPT ![s] = Terminal(row[s])]
      BY <2>1 DEF RejectClaim
    <3> HIDE DEF s
    <3> QED  BY <1>1, <2>1, <3>2, <3>3, OneRowMoves, Zenon
  <2>2. CASE ~Active(t)
    BY <2>2, NoRowMoves DEF RejectClaim
  <2> QED  BY <2>1, <2>2
<1>3. task' \in [Tasks -> ClaimType \cup {Idle}]
  BY DEF RejectClaim, IInv, TypeInv
<1> QED  BY <1>2, <1>3, RowsMovePreserves DEF RejectClaim, IInv, TypeInv

(* Only the commit of a live claim stores the snapshot, with the row. *)
LEMMA RecordSnapshotPreserves ==
    ASSUME IInv, NEW t \in Tasks, RecordSnapshot(t)
    PROVE  IInv'
<1> DEFINE s == task[t].source
<1>1. /\ task[t] \in ClaimType /\ s \in Sources
      /\ Active(t) => row[s].status = "leased"
  BY ActiveIsLeased DEF RecordSnapshot
<1>2. [task[t] EXCEPT !.pc = "rejecting"] \in ClaimType
  BY <1>1 DEF ClaimType
<1>3. task' \in [Tasks -> ClaimType \cup {Idle}]
  <2>1. CASE SnapshotTaken(s)
    <3>1. task' = [task EXCEPT ![t] = [task[t] EXCEPT !.pc = "rejecting"]]
      BY <2>1 DEF RecordSnapshot
    <3> QED  BY <1>2, <3>1 DEF IInv, TypeInv
  <2>2. CASE ~SnapshotTaken(s)
    <3>1. task' = [task EXCEPT ![t] = Idle]  BY <2>2 DEF RecordSnapshot
    <3> QED  BY <3>1 DEF IInv, TypeInv
  <2> QED  BY <2>1, <2>2
<1>4. CASE SnapshotTaken(s) \/ ~Active(t)
  <2>1. UNCHANGED <<row, snapshots>>  BY <1>4 DEF RecordSnapshot
  <2> QED
    BY <1>3, <2>1, NoRowMoves, RowsMovePreserves
       DEF RecordSnapshot, IInv, TypeInv, evidence
<1>5. CASE ~SnapshotTaken(s) /\ Active(t)
  <2>1. snapshots' = snapshots \cup {s}
    BY <1>5 DEF RecordSnapshot
  <2>2. row' = [row EXCEPT ![s] = [row[s] EXCEPT !.status = "captured", !.at = 0]]
    BY <1>1, <1>5, Zenon DEF RecordSnapshot, IInv, TypeInv
  <2>3. row[s] \in RowType /\ row[s].status = "leased"
    BY <1>1, <1>5 DEF IInv, TypeInv
  <2> DEFINE q == [row[s] EXCEPT !.status = "captured", !.at = 0]
  <2>4. q \in RowType /\ q.status = "captured"
    BY <2>3, Zenon DEF RowType, Statuses, Final
  <2> HIDE DEF s, q
  <2>5. row' = [row EXCEPT ![s] = q]  BY <2>2 DEF q
  <2>6. row' \in [Sources -> RowType] /\ \A u \in Sources : row'[u] = IF u = s THEN q ELSE row[u]
    BY <1>1, <2>4, <2>5 DEF IInv, TypeInv
  <2>7. UNCHANGED <<now, reports, signals, policy, writing, purged>>
    BY DEF RecordSnapshot, budgets
  <2>8. TypeInv'
    BY <1>1, <1>3, <2>1, <2>6, <2>7 DEF IInv, TypeInv
  <2>9. WritersHold'
    BY <2>4, <2>6, <2>7 DEF IInv, WritersHold
  <2>10. PurgedIsPast'
    BY <2>7 DEF IInv, PurgedIsPast, TombstoneUntil, EvidenceUntil
  <2>11. EvidenceFollowsRow'
    <3>1. \A u \in Sources : u \in snapshots' <=> row'[u].status = "captured"
      BY <2>1, <2>4, <2>6 DEF IInv, EvidenceFollowsRow
    <3>2. \A r \in reports' : row'[SourceOf[r]].status \notin {"absent", "expired"}
      BY <2>4, <2>6, <2>7 DEF IInv, TypeInv, EvidenceFollowsRow
    <3>3. \A u \in purged' : row'[u].status = "absent"
      BY <2>3, <2>6, <2>7 DEF IInv, TypeInv, EvidenceFollowsRow
    <3> QED  BY <3>1, <3>2, <3>3, <2>7 DEF IInv, EvidenceFollowsRow
  <2> QED  BY <2>8, <2>9, <2>10, <2>11 DEF IInv
<1> QED  BY <1>4, <1>5

LEMMA BeginReportPreserves ==
    ASSUME IInv, NEW r \in Reports, BeginReport(r)
    PROVE  IInv'
<1>1. UNCHANGED <<now, row, task, snapshots, reports, signals, policy, purged>>
  BY DEF BeginReport, evidence
<1>2. writing' = [writing EXCEPT ![r] = policy]
  BY DEF BeginReport
<1>3. TypeInv'
  BY <1>1, <1>2 DEF IInv, TypeInv
<1>4. WritersHold'
  BY <1>1, <1>2 DEF IInv, TypeInv, WritersHold, BeginReport
<1>5. PurgedIsPast' /\ EvidenceFollowsRow'
  BY <1>1 DEF IInv, PurgedIsPast, EvidenceFollowsRow, TombstoneUntil, EvidenceUntil
<1> QED  BY <1>3, <1>4, <1>5 DEF IInv

(* What ending the writer of a report does. *)
LEMMA WriterEnds ==
    ASSUME IInv, NEW r \in Reports, writing' = [writing EXCEPT ![r] = NoRevision],
           UNCHANGED <<row, policy>>, reports' \subseteq reports \cup {r}
    PROVE  WritersHold'
  BY DEF IInv, TypeInv, WritersHold

LEMMA RecordReportPreserves ==
    ASSUME IInv, NEW r \in Reports, RecordReport(r)
    PROVE  IInv'
<1>1. UNCHANGED <<now, row, task, snapshots, policy, purged>>
  BY DEF RecordReport
<1>2. writing' = [writing EXCEPT ![r] = NoRevision] /\ writing[r] # NoRevision
  BY DEF RecordReport
<1>3. /\ writing[r] \in Nat
      /\ row[SourceOf[r]].status \notin {"absent", "expired"}
  BY <1>2 DEF IInv, TypeInv, WritersHold
<1>4. \/ UNCHANGED <<reports, signals>>
      \/ /\ reports' = reports \cup {r}
         /\ signals' = signals \cup ({<<r, writing[r]>>} \ {<<r, 0>>})
  BY DEF RecordReport
<1>5. TypeInv'
  BY <1>1, <1>2, <1>3, <1>4 DEF IInv, TypeInv
<1>6. WritersHold'
  BY <1>1, <1>2, <1>4, WriterEnds, Zenon
<1>7. PurgedIsPast'
  BY <1>1 DEF IInv, PurgedIsPast, TombstoneUntil, EvidenceUntil
<1>8. EvidenceFollowsRow'
  BY <1>1, <1>3, <1>4 DEF IInv, EvidenceFollowsRow
<1> QED  BY <1>5, <1>6, <1>7, <1>8 DEF IInv

LEMMA AbandonReportPreserves ==
    ASSUME IInv, NEW r \in Reports, AbandonReport(r)
    PROVE  IInv'
<1>1. UNCHANGED <<now, row, task, snapshots, reports, signals, policy, purged>>
  BY DEF AbandonReport, evidence
<1>2. writing' = [writing EXCEPT ![r] = NoRevision]
  BY DEF AbandonReport
<1>3. TypeInv'
  BY <1>1, <1>2 DEF IInv, TypeInv
<1>4. WritersHold'
  BY <1>1, <1>2, WriterEnds, Zenon
<1>5. PurgedIsPast' /\ EvidenceFollowsRow'
  BY <1>1 DEF IInv, PurgedIsPast, EvidenceFollowsRow, TombstoneUntil, EvidenceUntil
<1> QED  BY <1>3, <1>4, <1>5 DEF IInv

(* The policy only changes while no report is being written. *)
LEMMA ConfigurePolicyPreserves ==
    ASSUME IInv, ConfigurePolicy
    PROVE  IInv'
<1>1. UNCHANGED <<now, row, task, snapshots, reports, signals, writing, purged>>
  BY DEF ConfigurePolicy, evidence
<1>2. TypeInv' /\ WritersHold'
  BY <1>1 DEF IInv, TypeInv, WritersHold, ConfigurePolicy
<1>3. PurgedIsPast' /\ EvidenceFollowsRow'
  BY <1>1 DEF IInv, PurgedIsPast, EvidenceFollowsRow, TombstoneUntil, EvidenceUntil
<1> QED  BY <1>2, <1>3 DEF IInv

(* Expiry spares the row of a report being written, and takes the evidence  *)
(* with the status.                                                         *)
LEMMA ExpirePreserves ==
    ASSUME IInv, ExpireEvidence
    PROVE  IInv'
<1>1. PICK S \in SUBSET Sources :
        /\ \A s \in S : row[s].status \in Final /\ ~Locked(s)
        /\ row' = [s \in Sources |->
                     IF s \in S THEN [row[s] EXCEPT !.status = "expired"] ELSE row[s]]
        /\ snapshots' = snapshots \ S
        /\ reports' = {r \in reports : SourceOf[r] \notin S}
        /\ signals' = {g \in signals : SourceOf[g[1]] \notin S}
        /\ UNCHANGED <<now, task, policy, writing, purged>>
  BY Zenon DEF ExpireEvidence, budgets
<1>2. \A s \in S : /\ [row[s] EXCEPT !.status = "expired"] \in RowType
                    /\ [row[s] EXCEPT !.status = "expired"].status = "expired"
  BY DEF IInv, TypeInv, RowType, Statuses
<1>3. /\ row' \in [Sources -> RowType]
      /\ \A s \in S : row'[s].status = "expired"
      /\ \A s \in Sources \ S : row'[s] = row[s]
  BY <1>1, <1>2 DEF IInv, TypeInv
<1>4. TypeInv'
  BY <1>1, <1>3 DEF IInv, TypeInv
<1>5. WritersHold'
  <2>1. \A r \in Reports : writing[r] # NoRevision => SourceOf[r] \in Sources \ S
    BY <1>1 DEF Locked
  <2> QED  BY <1>1, <1>3, <2>1 DEF IInv, WritersHold
<1>6. PurgedIsPast'
  BY <1>1 DEF IInv, PurgedIsPast, TombstoneUntil, EvidenceUntil
<1>7. EvidenceFollowsRow'
  <2>1. \A s \in Sources : s \in snapshots' <=> row'[s].status = "captured"
    BY <1>1, <1>3 DEF IInv, EvidenceFollowsRow
  <2>2. \A r \in reports' : row'[SourceOf[r]].status \notin {"absent", "expired"}
    <3>1. \A r \in reports' : r \in reports /\ SourceOf[r] \in Sources \ S
      BY <1>1 DEF IInv, TypeInv
    <3> QED  BY <1>3, <3>1 DEF IInv, EvidenceFollowsRow
  <2>3. \A g \in signals' : g[1] \in reports'
    BY <1>1 DEF IInv, EvidenceFollowsRow
  <2>4. \A s \in purged' : row'[s].status = "absent"
    <3>1. \A s \in purged : s \in Sources \ S
      BY <1>1 DEF IInv, TypeInv, EvidenceFollowsRow, Final
    <3> QED  BY <1>1, <1>3, <3>1 DEF IInv, EvidenceFollowsRow
  <2> QED  BY <2>1, <2>2, <2>3, <2>4 DEF EvidenceFollowsRow
<1> QED  BY <1>4, <1>5, <1>6, <1>7 DEF IInv

(* A purge takes expired rows whose tombstone has run out. *)
LEMMA PurgePreserves ==
    ASSUME IInv, PurgeTombstones
    PROVE  IInv'
<1>1. PICK S \in SUBSET Sources :
        /\ \A s \in S : /\ row[s].status = "expired" /\ ~Locked(s)
                         /\ TombstoneUntil(s) <= now
        /\ row' = [s \in Sources |-> IF s \in S THEN Absent ELSE row[s]]
        /\ purged' = purged \cup S
        /\ UNCHANGED <<now, task, snapshots, reports, signals, policy, writing>>
  BY Zenon DEF PurgeTombstones, budgets, evidence
<1>2. Absent \in RowType /\ Absent.status = "absent"
  BY DEF Absent, RowType, Statuses
<1>3. /\ row' \in [Sources -> RowType]
      /\ \A s \in S : row'[s].status = "absent"
      /\ \A s \in Sources \ S : row'[s] = row[s]
  BY <1>1, <1>2 DEF IInv, TypeInv
<1>4. TypeInv'
  BY <1>1, <1>3 DEF IInv, TypeInv
<1>5. WritersHold'
  <2>1. \A r \in Reports : writing[r] # NoRevision => SourceOf[r] \in Sources \ S
    BY <1>1 DEF Locked
  <2> QED  BY <1>1, <1>3, <2>1 DEF IInv, WritersHold
<1>6. PurgedIsPast'
  BY <1>1 DEF IInv, PurgedIsPast, TombstoneUntil, EvidenceUntil
<1>7. EvidenceFollowsRow'
  <2>1. \A s \in Sources : s \in snapshots' <=> row'[s].status = "captured"
    BY <1>1, <1>3, Zenon DEF IInv, EvidenceFollowsRow
  <2>2. \A r \in reports' : row'[SourceOf[r]].status \notin {"absent", "expired"}
    <3>1. \A r \in reports : SourceOf[r] \in Sources \ S
      BY <1>1 DEF IInv, TypeInv, EvidenceFollowsRow
    <3> QED  BY <1>1, <1>3, <3>1 DEF IInv, EvidenceFollowsRow
  <2>3. \A s \in purged' : row'[s].status = "absent"
    BY <1>1, <1>3, Zenon DEF IInv, TypeInv, EvidenceFollowsRow
  <2> QED  BY <1>1, <2>1, <2>2, <2>3, Zenon DEF IInv, EvidenceFollowsRow
<1> QED  BY <1>4, <1>5, <1>6, <1>7 DEF IInv

LEMMA TickPreserves == ASSUME IInv, Tick PROVE IInv'
<1>1. UNCHANGED <<row, task, evidence, budgets, purged>>
  BY DEF Tick
<1>2. now' \in Nat /\ now <= now' /\ task \in [Tasks -> ClaimType \cup {Idle}]
  BY DEF Tick, IInv, TypeInv
<1> QED  BY <1>1, <1>2, NoRowMoves, RowsMovePreserves

LEMMA RegisterPreserves ==
    ASSUME IInv, RegisterEligible \/ \E s \in Sources : RegisterProviderSource(s)
    PROVE  IInv'
<1>1. UNCHANGED <<now, task, evidence, budgets, purged>>
  BY Zenon DEF RegisterEligible, RegisterProviderSource
<1>2. PICK S \in SUBSET Sources :
        Registered(S) /\ \A s \in S : row[s].status = "absent" /\ InWindow(s)
  <2>1. CASE RegisterEligible
    <3>1. PICK concluded \in SUBSET {s \in Sources : s.kind = "reconciliation"} :
            \E S \in SUBSET {s \in concluded : row[s].status = "absent" /\ InWindow(s)} :
              Registered(S)
      BY <2>1 DEF RegisterEligible
    <3> QED  BY <3>1
  <2>2. CASE \E s \in Sources : RegisterProviderSource(s)
    <3>1. PICK s \in Sources : Registered({s}) /\ row[s].status = "absent" /\ InWindow(s)
      BY <2>2, Zenon DEF RegisterProviderSource
    <3> WITNESS {s} \in SUBSET Sources
    <3> QED  BY <3>1
  <2> QED  BY <2>1, <2>2
<1>3. now \in Nat /\ task \in [Tasks -> ClaimType \cup {Idle}]
  BY DEF IInv, TypeInv
<1>4. RowsMove
  BY <1>2, RegisteredMoves
<1> QED  BY <1>1, <1>3, <1>4, RowsMovePreserves

LEMMA AbandonPreserves == ASSUME IInv, NEW t \in Tasks, Abandon(t) PROVE IInv'
<1>1. now \in Nat /\ task' \in [Tasks -> ClaimType \cup {Idle}]
  BY DEF Abandon, IInv, TypeInv
<1>2. UNCHANGED <<now, row, evidence, budgets, purged>>
  BY DEF Abandon
<1> QED  BY <1>1, <1>2, NoRowMoves, RowsMovePreserves

LEMMA NextIInv == IInv /\ [Next]_vars => IInv'
<1> SUFFICES ASSUME IInv, [Next]_vars PROVE IInv'
  OBVIOUS
<1>1. CASE UNCHANGED vars
  <2>1. UNCHANGED <<now, row, task, evidence, budgets, purged>>
    BY <1>1 DEF vars, evidence, budgets
  <2> QED  BY <2>1, NoRowMoves, RowsMovePreserves DEF IInv, TypeInv
<1>2. CASE \E t \in Tasks : ClaimNext(t) \/ Settle(t) \/ Abandon(t)
  BY <1>2, ClaimNextPreserves, DeferPreserves, LockClaimPreserves, RecordSnapshotPreserves,
     RejectPreserves, AbandonPreserves DEF Settle
<1>3. CASE \E r \in Reports : BeginReport(r) \/ RecordReport(r) \/ AbandonReport(r)
  BY <1>3, BeginReportPreserves, RecordReportPreserves, AbandonReportPreserves
<1> QED
  BY <1>1, <1>2, <1>3, TickPreserves, RegisterPreserves, ConfigurePolicyPreserves,
     ExpirePreserves, PurgePreserves DEF Next

LEMMA AlwaysIInv == Spec => []IInv
  BY InitIInv, NextIInv, PTL DEF Spec

(* For every instance the evidence of a source follows its row: the         *)
(* rollback of record_snapshot, the row lock of the report writer, the      *)
(* deletions of expire_evidence and the window anchored at the creation of  *)
(* the source are together enough.                                          *)
THEOREM EvidenceFollows == Spec => []EvidenceFollowsRow
  BY AlwaysIInv, PTL DEF IInv

(* For every instance a stored report carries exactly the signal of the     *)
(* policy revision current at its commit, and keeps it: the advisory locks  *)
(* taken by record_measurement_report and configure_policy suffice.         *)
THEOREM SignalsFollow == Spec => SignalsMatchPolicy
<1> DEFINE Match ==
         /\ \A r \in reports' \ reports :
               {g \in signals' : g[1] = r} = {<<r, policy'>>} \ {<<r, 0>>}
         /\ \A r \in reports' \cap reports :
               {g \in signals' : g[1] = r} = {g \in signals : g[1] = r}
<1>1. ASSUME IInv, [Next]_vars PROVE [Match]_vars
  <2>1. CASE UNCHANGED <<reports, signals>>
    BY <2>1
  <2>2. ASSUME NEW q \in Reports, RecordReport(q), ~UNCHANGED <<reports, signals>>
        PROVE  Match
    <3>1. /\ reports' = reports \cup {q} /\ policy' = policy
          /\ signals' = signals \cup ({<<q, writing[q]>>} \ {<<q, 0>>})
          /\ writing[q] # NoRevision
      BY <2>2 DEF RecordReport
    <3>2. writing[q] = policy /\ q \notin reports
      BY <1>1, <3>1 DEF IInv, WritersHold
    <3>3. \A g \in signals : g[1] # q
      BY <1>1, <3>2 DEF IInv, EvidenceFollowsRow
    <3>4. {g \in signals' : g[1] = q} = {<<q, policy'>>} \ {<<q, 0>>}
      BY <3>1, <3>2, <3>3
    <3>5. \A r \in reports : {g \in signals' : g[1] = r} = {g \in signals : g[1] = r}
      BY <3>1, <3>2
    <3> QED  BY <3>1, <3>4, <3>5
  <2>3. ASSUME ExpireEvidence PROVE Match
    <3>1. PICK S : /\ reports' = {r \in reports : SourceOf[r] \notin S}
                   /\ signals' = {g \in signals : SourceOf[g[1]] \notin S}
      BY <2>3, Zenon DEF ExpireEvidence
    <3> QED  BY <3>1
  <2>4. \/ UNCHANGED <<reports, signals>>
        \/ ExpireEvidence
        \/ \E q \in Reports : RecordReport(q)
    BY <1>1, Zenon DEF Next, vars, evidence, Tick, RegisterEligible, RegisterProviderSource,
       ClaimNext, Settle, DeferClaim, LockClaim, RecordSnapshot, RejectClaim, Abandon,
       BeginReport, AbandonReport, ConfigurePolicy, PurgeTombstones
  <2> QED  BY <2>1, <2>2, <2>3, <2>4
<1> QED  BY <1>1, AlwaysIInv, PTL DEF Spec, SignalsMatchPolicy

=============================================================================
