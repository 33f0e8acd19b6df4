------------------------ MODULE ReconciliationProofs -----------------------
(***************************************************************************)
(* Verdicts, recorded results and rows for any number of subjects,         *)
(* replicas and observations.                                              *)
(*                                                                         *)
(* A recorded success is witnessed.  The argument (IInv) needs no row lock *)
(* and no lease: a round classifies a snapshot that the retained           *)
(* observations contain, retained observations only grow, and a result     *)
(* counts for a row only as long as its revision, the size of the          *)
(* snapshot, is the size of what is retained - when the two sets are       *)
(* therefore the same.                                                     *)
(*                                                                         *)
(* That rows stay readable and that stale owners are fenced does rest on   *)
(* both (ConvInv): a claim whose generation is the row's knows the row's   *)
(* attempts, and a round that is recording holds the row lock and with it  *)
(* the lease.                                                              *)
(***************************************************************************)
EXTENDS Reconciliation, FiniteSetTheorems, TLAPS


----------------------------------------------------------------------------
(* What classify_observed_state promises. *)

(* A finite set has more than one element exactly when two of its elements  *)
(* differ: the form in which the checks of the code count.                  *)
LEMMA MoreThanOne ==
    ASSUME NEW S, IsFiniteSet(S)
    PROVE  Cardinality(S) > 1 <=> \E x, y \in S : x # y
<1>1. Cardinality(S) \in Nat
  BY FS_CardinalityType
<1>2. Cardinality(S) = 0 <=> S = {}
  BY FS_EmptySet
<1>3. Cardinality(S) = 1 <=> \E x : S = {x}
  BY FS_Singleton
<1>4. (\E x, y \in S : x # y) <=> S # {} /\ ~ \E x : S = {x}
  <2>1. ASSUME S # {}, ~ \E x : S = {x}
        PROVE  \E x, y \in S : x # y
    <3>1. PICK x \in S : TRUE
      BY <2>1
    <3>2. S # {x}
      BY <2>1
    <3>3. QED
      BY <3>1, <3>2
  <2>2. QED
    BY <2>1, Zenon
<1>5. Cardinality(S) > 1 <=> Cardinality(S) # 0 /\ Cardinality(S) # 1
  BY <1>1
<1>6. QED
  BY <1>2, <1>3, <1>4, <1>5

(* There are three kinds of conclusion. *)
LEMMA ConclusionsFinite == IsFiniteSet(Conclusions)
<1>1. IsFiniteSet({"none"}) /\ IsFiniteSet({"success"}) /\ IsFiniteSet({"failure"})
  BY FS_Singleton, Zenon
<1>2. IsFiniteSet({"none"} \cup {"success"})
  BY <1>1, FS_Union, Zenon
<1>3. IsFiniteSet(({"none"} \cup {"success"}) \cup {"failure"})
  BY <1>1, <1>2, FS_Union, Zenon
<1>4. Conclusions = ({"none"} \cup {"success"}) \cup {"failure"}
  BY DEF Conclusions
<1>5. QED
  BY <1>3, <1>4

(* A signal is ambiguous exactly when two of its observations name          *)
(* different jobs.                                                          *)
LEMMA AmbiguousMeans ==
    ASSUME NEW observed \in SUBSET Observations, NEW signal
    PROVE  Ambiguous(observed, signal)
              <=> \E o, p \in observed : o.signal = signal /\ p.signal = signal /\ o.job # p.job
<1> DEFINE S == {o.job : o \in OfSignal(observed, signal)}
<1>1. S \in SUBSET Jobs
  BY DEF OfSignal, Observations
<1>2. IsFiniteSet(S)
  BY <1>1, FS_Subset, VerdictAssumption
<1>3. Cardinality(S) > 1 <=> \E x, y \in S : x # y
  <2> HIDE DEF S
  <2> QED
    BY <1>2, MoreThanOne
<1>4. (\E x, y \in S : x # y)
         <=> \E o, p \in observed : o.signal = signal /\ p.signal = signal /\ o.job # p.job
  BY DEF OfSignal
<1>5. QED
  BY <1>3, <1>4, Zenon DEF Ambiguous

(* A signal of one job is contradictory exactly when two of its             *)
(* observations ended differently.                                          *)
LEMMA ContradictoryMeans ==
    ASSUME NEW observed \in SUBSET Observations, NEW signal
    PROVE  Contradictory(observed, signal)
              <=> /\ ~Ambiguous(observed, signal)
                  /\ \E o, p \in observed :
                        /\ o.signal = signal /\ o.conclusion # "none"
                        /\ p.signal = signal /\ p.conclusion # "none"
                        /\ o.conclusion # p.conclusion
<1> DEFINE S == {o.conclusion : o \in Completed(observed, signal)}
<1>1. S \in SUBSET Conclusions
  BY DEF Completed, OfSignal, Observations
<1>2. IsFiniteSet(S)
  BY <1>1, FS_Subset, ConclusionsFinite
<1>3. Cardinality(S) > 1 <=> \E x, y \in S : x # y
  <2> HIDE DEF S
  <2> QED
    BY <1>2, MoreThanOne
<1>4. (\E x, y \in S : x # y)
         <=> \E o, p \in observed :
                /\ o.signal = signal /\ o.conclusion # "none"
                /\ p.signal = signal /\ p.conclusion # "none"
                /\ o.conclusion # p.conclusion
  BY Zenon DEF Completed, OfSignal
<1>5. QED
  BY <1>3, <1>4 DEF Contradictory

(* classify_observed_state says success exactly when the observations       *)
(* witness it: the precedence of its checks hides nothing.                  *)
THEOREM SuccessIffWitnessed ==
    ASSUME NEW observed \in SUBSET Observations
    PROVE  Verdict(observed) = "success" <=> Witnessed(observed)
<1> DEFINE Settled(signal) ==
             \E j \in Jobs :
                /\ [signal |-> signal, job |-> j, conclusion |-> "success"] \in observed
                /\ \A o \in observed : o.signal = signal => o.job = j /\ o.conclusion # "failure"
<1>1. ASSUME NEW signal \in Expected
      PROVE  Settled(signal)
                <=> /\ ~Contradictory(observed, signal)
                    /\ ~SignalFailed(observed, signal)
                    /\ ~SignalPending(observed, signal)
  <2>1. ASSUME Settled(signal)
        PROVE  /\ ~Contradictory(observed, signal)
               /\ ~SignalFailed(observed, signal)
               /\ ~SignalPending(observed, signal)
    <3>1. PICK j \in Jobs :
             /\ [signal |-> signal, job |-> j, conclusion |-> "success"] \in observed
             /\ \A o \in observed : o.signal = signal => o.job = j /\ o.conclusion # "failure"
      BY <2>1
    <3>2. ~Ambiguous(observed, signal)
      BY <3>1, AmbiguousMeans
    <3>3. \A o \in observed : o.signal = signal /\ o.conclusion # "none"
                                  => o.conclusion = "success"
      BY <3>1 DEF Observations, Conclusions
    <3>4. ~Contradictory(observed, signal)
      BY <3>3, ContradictoryMeans
    <3>5. ~SignalFailed(observed, signal)
      BY <3>2, <3>3 DEF SignalFailed, Completed, OfSignal
    <3>6. ~SignalPending(observed, signal)
      BY <3>1 DEF SignalPending, Completed, OfSignal
    <3>7. QED
      BY <3>4, <3>5, <3>6
  <2>2. ASSUME ~Contradictory(observed, signal), ~SignalFailed(observed, signal),
               ~SignalPending(observed, signal)
        PROVE  Settled(signal)
    <3>1. ~Ambiguous(observed, signal)
      BY <2>2 DEF SignalFailed
    <3>2. PICK o \in observed : o.signal = signal /\ o.conclusion # "none"
      BY <2>2, <3>1 DEF SignalPending, Completed, OfSignal
    <3>3. \A p \in observed : p.signal = signal => p.job = o.job
      BY <3>1, <3>2, AmbiguousMeans
    <3>4. \A p \in observed : p.signal = signal => p.conclusion \in {"none", "success"}
      BY <2>2 DEF SignalFailed, Completed, OfSignal
    <3>5. o \in Observations /\ o.conclusion = "success" /\ o.job \in Jobs
      BY <3>2, <3>4 DEF Observations
    <3>6. o = [signal |-> signal, job |-> o.job, conclusion |-> "success"]
      BY <3>2, <3>5 DEF Observations
    <3>7. QED
      BY <3>3, <3>4, <3>5, <3>6
  <2>3. QED
    BY <2>1, <2>2, Zenon
<1>2. Witnessed(observed)
         <=> /\ Expected # {}
             /\ \A o \in observed : o.signal \notin Omitted
             /\ \A signal \in Expected : Settled(signal)
  BY DEF Witnessed
<1>3. Verdict(observed) = "success"
         <=> /\ Expected # {}
             /\ \A o \in observed : o.signal \notin Omitted
             /\ \A signal \in Expected :
                   /\ ~Contradictory(observed, signal)
                   /\ ~SignalFailed(observed, signal)
                   /\ ~SignalPending(observed, signal)
  BY DEF Verdict
<1> HIDE DEF Settled
<1>4. QED
  BY <1>1, <1>2, <1>3

(* Evidence never excuses: once classify_observed_state says failure or     *)
(* conflict, no further observation makes it pending or success.            *)
THEOREM VerdictNeverRelaxes ==
    ASSUME NEW observed \in SUBSET Observations, NEW later \in SUBSET Observations,
           observed \subseteq later,
           Verdict(observed) \in {"failure", "conflict"}
    PROVE  Verdict(later) \in {"failure", "conflict"}
<1>1. CASE \E o \in observed : o.signal \in Omitted
  BY <1>1 DEF Verdict
<1>2. CASE Expected = {}
  BY <1>2 DEF Verdict
<1>3. ASSUME NEW signal \in Expected,
             Contradictory(later, signal) \/ SignalFailed(later, signal)
      PROVE  Verdict(later) \in {"failure", "conflict"}
  BY <1>3 DEF Verdict
<1>4. ASSUME NEW signal \in Expected, Ambiguous(observed, signal)
      PROVE  SignalFailed(later, signal)
  <2>1. Ambiguous(later, signal)
    BY <1>4, AmbiguousMeans
  <2>2. QED
    BY <2>1 DEF SignalFailed
<1>5. ASSUME NEW signal \in Expected, Contradictory(observed, signal)
      PROVE  Contradictory(later, signal) \/ SignalFailed(later, signal)
  <2>1. CASE Ambiguous(later, signal)
    BY <2>1 DEF SignalFailed
  <2>2. CASE ~Ambiguous(later, signal)
    BY <1>5, <2>2, ContradictoryMeans
  <2>3. QED
    BY <2>1, <2>2
<1>6. ASSUME NEW signal \in Expected, SignalFailed(observed, signal)
      PROVE  Contradictory(later, signal) \/ SignalFailed(later, signal)
  <2>1. CASE Ambiguous(observed, signal)
    BY <1>4, <2>1
  <2>2. CASE ~Ambiguous(observed, signal)
    BY <1>6, <2>2 DEF SignalFailed, Completed, OfSignal
  <2>3. QED
    BY <2>1, <2>2
<1>7. \/ \E o \in observed : o.signal \in Omitted
      \/ Expected = {}
      \/ \E signal \in Expected :
            Contradictory(observed, signal) \/ SignalFailed(observed, signal)
  BY DEF Verdict
<1>8. QED
  BY <1>1, <1>2, <1>3, <1>5, <1>6, <1>7

----------------------------------------------------------------------------
(* The evidence of a recorded success. *)

(* A success counts only for the evidence it was concluded from. *)
Supported(r, x) ==
    x.verdict = "success" =>
        /\ x.revision \in Nat
        /\ x.revision <= Revision(r)
        /\ x.revision = Revision(r) => Witnessed(r.observed)

RowSound(r) ==
    /\ DOMAIN r = DOMAIN NoRow
    /\ r.observed \in SUBSET Observations
    /\ IsFiniteSet(r.observed)
    /\ ~r.registered => r.observed = {} /\ r.results = {}
    /\ \A x \in r.results : Supported(r, x)

Busy == {"claimed", "load", "append", "record", "recording", "defer"}

RoundSound(me, rows) ==
    /\ DOMAIN me = DOMAIN Idle
    /\ me.pc = "scanned" => \A c \in me.seen : c.subject \in Subjects
    /\ me.pc \in Busy => me.claim.subject \in Subjects /\ rows[me.claim.subject].registered
    /\ me.pc = "claimed" => me.claim.terminal \in {None, "timed_out", "exhausted"}
    /\ me.pc = "append" => me.snapshot \subseteq rows[me.claim.subject].observed
    /\ me.pc \in {"record", "recording"} => Supported(rows[me.claim.subject], me.result)

IInv ==
    /\ DOMAIN row = Subjects /\ DOMAIN worker = Workers
    /\ \A s \in Subjects : RowSound(row[s])
    /\ \A w \in Workers : RoundSound(worker[w], row)

(* What any step does to a row. *)
Grows(r, q) == r.observed \subseteq q.observed /\ (r.registered => q.registered)

LEMMA InitIInv == Init => IInv
<1> SUFFICES ASSUME Init PROVE IInv
  OBVIOUS
<1>1. RowSound(NoRow)
  BY FS_EmptySet DEF RowSound, NoRow
<1>2. ASSUME NEW w \in Workers PROVE RoundSound(worker[w], row)
  <2>1. worker[w] = Idle /\ Idle.pc = "idle"
    BY DEF Init, Idle
  <2> QED  BY <2>1 DEF RoundSound, Busy
<1> QED  BY <1>1, <1>2 DEF Init, IInv

----------------------------------------------------------------------------
(* Evidence that grows keeps a success supported: either its revision is    *)
(* behind now, or nothing was added.                                        *)
LEMMA SupportKept ==
    ASSUME NEW r, NEW q, IsFiniteSet(q.observed), r.observed \subseteq q.observed,
           NEW x, Supported(r, x)
    PROVE  Supported(q, x)
<1>1. /\ IsFiniteSet(r.observed)
      /\ Cardinality(r.observed) <= Cardinality(q.observed)
      /\ Cardinality(q.observed) = Cardinality(r.observed) => q.observed = r.observed
  BY FS_Subset
<1>2. Cardinality(r.observed) \in Nat /\ Cardinality(q.observed) \in Nat
  BY <1>1, FS_CardinalityType
<1> QED  BY <1>1, <1>2 DEF Supported, Revision

LEMMA RoundKept ==
    ASSUME NEW rows, NEW later, NEW me, RoundSound(me, rows),
           \A s \in Subjects : RowSound(later[s]) /\ Grows(rows[s], later[s])
    PROVE  RoundSound(me, later)
<1>1. ASSUME me.pc \in {"record", "recording"}
      PROVE  Supported(later[me.claim.subject], me.result)
  <2>1. me.claim.subject \in Subjects /\ Supported(rows[me.claim.subject], me.result)
    BY <1>1 DEF RoundSound, Busy
  <2> QED  BY <2>1, SupportKept DEF RowSound, Grows
<1>2. ASSUME me.pc = "append" PROVE me.snapshot \subseteq later[me.claim.subject].observed
  BY <1>2 DEF RoundSound, Busy, Grows
<1> QED  BY <1>1, <1>2 DEF RoundSound, Grows

(* A row whose evidence and results stay. *)
LEMMA RowKept ==
    ASSUME NEW r, NEW q, RowSound(r), DOMAIN q = DOMAIN NoRow, q.observed = r.observed,
           q.results = r.results, q.registered = r.registered
    PROVE  RowSound(q)
BY DEF RowSound, Supported, Revision

(* One round goes on, with at most one row changed. *)
LEMMA RoundGoesOn ==
    ASSUME IInv, NEW w \in Workers, NEW me,
           worker' = [worker EXCEPT ![w] = me], RoundSound(me, row'),
           DOMAIN row' = Subjects,
           \A s \in Subjects : RowSound(row'[s]) /\ Grows(row[s], row'[s])
    PROVE  IInv'
<1>1. DOMAIN worker' = Workers /\ worker'[w] = me
      /\ \A v \in Workers \ {w} : worker'[v] = worker[v]
  BY DEF IInv
<1>2. ASSUME NEW v \in Workers \ {w} PROVE RoundSound(worker'[v], row')
  <2>1. RoundSound(worker[v], row)
    BY DEF IInv
  <2>2. RoundSound(worker[v], row')
    BY <2>1, RoundKept
  <2> QED  BY <1>1, <2>2
<1> QED  BY <1>1, <1>2 DEF IInv

LEMMA RoundOnly ==
    ASSUME IInv, NEW w \in Workers, NEW me,
           worker' = [worker EXCEPT ![w] = me], RoundSound(me, row), row' = row
    PROVE  IInv'
BY RoundGoesOn DEF IInv, Grows

LEMMA RowChanges ==
    ASSUME IInv, NEW w \in Workers, NEW me, NEW s \in Subjects, NEW q,
           worker' = [worker EXCEPT ![w] = me], row' = [row EXCEPT ![s] = q],
           RowSound(q), Grows(row[s], q), RoundSound(me, row')
    PROVE  IInv'
BY RoundGoesOn, Zenon DEF IInv, Grows

LEMMA IdleSound == ASSUME NEW rows PROVE RoundSound(Idle, rows)
BY DEF RoundSound, Idle, Busy

LEMMA EndPreserves == ASSUME IInv, NEW w \in Workers, EndRound(w), row' = row PROVE IInv'
BY IdleSound, RoundOnly, Zenon DEF EndRound

----------------------------------------------------------------------------
(* What a round goes on to do. *)

LEMMA GoDeferPreserves ==
    ASSUME IInv, NEW w \in Workers, worker[w].pc \in Busy, GoDefer(w), row' = row
    PROVE  IInv'
<1> DEFINE me == [worker[w] EXCEPT !.pc = "defer", !.toAppend = {}, !.snapshot = {}]
<1>1. worker' = [worker EXCEPT ![w] = me]
  BY DEF GoDefer, IInv
<1>2. /\ DOMAIN worker[w] = DOMAIN Idle
      /\ worker[w].claim.subject \in Subjects /\ row[worker[w].claim.subject].registered
  BY DEF IInv, RoundSound
<1>3. DOMAIN me = DOMAIN Idle /\ me.pc = "defer" /\ me.claim = worker[w].claim
  BY <1>2 DEF Idle
<1> HIDE DEF me
<1>4. RoundSound(me, row)
  BY <1>2, <1>3 DEF RoundSound, Busy
<1> QED  BY <1>1, <1>4, RoundOnly, Zenon

LEMMA GoRecordPreserves ==
    ASSUME IInv, NEW w \in Workers, worker[w].pc \in Busy, row' = row,
           NEW revision, NEW verdict, GoRecord(w, revision, verdict),
           Supported(row[worker[w].claim.subject], [revision |-> revision, verdict |-> verdict])
    PROVE  IInv'
<1> DEFINE x == [revision |-> revision, verdict |-> verdict]
           me == [worker[w] EXCEPT !.pc = "record", !.toAppend = {}, !.snapshot = {},
                                   !.result = x]
<1>1. worker' = [worker EXCEPT ![w] = me]
  BY DEF GoRecord, IInv
<1>2. /\ DOMAIN worker[w] = DOMAIN Idle
      /\ worker[w].claim.subject \in Subjects /\ row[worker[w].claim.subject].registered
  BY DEF IInv, RoundSound
<1> HIDE DEF x
<1>3. DOMAIN me = DOMAIN Idle /\ me.pc = "record" /\ me.claim = worker[w].claim /\ me.result = x
  BY <1>2 DEF Idle
<1>4. Supported(row[worker[w].claim.subject], x)
  BY DEF x
<1> HIDE DEF me
<1>5. RoundSound(me, row)
  BY <1>2, <1>3, <1>4 DEF RoundSound, Busy
<1> QED  BY <1>1, <1>5, RoundOnly, Zenon

(* Any verdict but success needs no support. *)
LEMMA GoFailPreserves ==
    ASSUME IInv, NEW w \in Workers, worker[w].pc \in Busy, row' = row,
           NEW revision, NEW verdict, verdict # "success", GoRecord(w, revision, verdict)
    PROVE  IInv'
<1>1. Supported(row[worker[w].claim.subject], [revision |-> revision, verdict |-> verdict])
  BY DEF Supported
<1> QED  BY <1>1, GoRecordPreserves

----------------------------------------------------------------------------
(* The actions. *)

LEMMA RegisterPreserves == ASSUME IInv, NEW s \in Subjects, Register(s) PROVE IInv'
<1>1. PICK now : row' = [row EXCEPT ![s] = InitialRow(now)]
  BY Zenon DEF Register
<1>2. RowSound(row[s]) /\ ~row[s].registered /\ worker' = worker
  BY DEF Register, IInv
<1>3. RowSound(InitialRow(now)) /\ InitialRow(now).observed = row[s].observed
  BY <1>2, FS_EmptySet DEF InitialRow, RowSound, NoRow
<1>4. \A t \in Subjects : RowSound(row'[t]) /\ Grows(row[t], row'[t])
  BY <1>1, <1>2, <1>3 DEF IInv, Grows
<1>5. \A w \in Workers : RoundSound(worker[w], row')
  BY <1>4, RoundKept DEF IInv
<1> QED  BY <1>1, <1>2, <1>4, <1>5, Zenon DEF IInv

LEMMA ScanPreserves == ASSUME IInv, NEW w \in Workers, ScanDue(w) PROVE IInv'
<1> DEFINE due == {s \in Subjects : Due(row[s], clock) /\ ~Resolved(row[s])}
           seen == {[subject |-> s, nextAt |-> row[s].nextAt] : s \in due}
           me == [Idle EXCEPT !.pc = "scanned", !.seenAt = clock, !.seen = seen]
<1>1. worker' = [worker EXCEPT ![w] = me] /\ row' = row
  BY DEF ScanDue
<1>2. \A c \in seen : c.subject \in Subjects
  OBVIOUS
<1> HIDE DEF seen
<1>3. DOMAIN me = DOMAIN Idle /\ me.pc = "scanned" /\ me.seen = seen
  BY DEF Idle
<1> HIDE DEF me
<1>4. RoundSound(me, row)
  BY <1>2, <1>3 DEF RoundSound, Busy
<1> QED  BY <1>1, <1>4, RoundOnly, Zenon

LEMMA ClaimPreserves == ASSUME IInv, NEW w \in Workers, ClaimLocked(w) PROVE IInv'
<1>1. CASE EndRound(w) /\ UNCHANGED row
  BY <1>1, EndPreserves
<1>2. ASSUME NEW c \in worker[w].seen,
             Lockable(c, worker[w].seenAt),
             row' = [row EXCEPT ![c.subject] = Acquired(row[c.subject], w, clock)],
             worker' = [worker EXCEPT ![w] =
                [Idle EXCEPT !.pc = "claimed",
                    !.claim = ClaimOn(c.subject, Acquired(row[c.subject], w, clock),
                                      TerminalReason(row[c.subject], clock))]]
      PROVE  IInv'
  <2> DEFINE s == c.subject
             q == Acquired(row[s], w, clock)
             reason == TerminalReason(row[s], clock)
             claim == ClaimOn(s, q, reason)
             me == [Idle EXCEPT !.pc = "claimed", !.claim = claim]
  <2>1. s \in Subjects
    BY Zenon DEF ClaimLocked, IInv, RoundSound
  <2>2. RowSound(row[s]) /\ row[s].registered
    BY <1>2, <2>1 DEF IInv, Lockable, Due
  <2>3. /\ DOMAIN q = DOMAIN NoRow /\ q.observed = row[s].observed
        /\ q.results = row[s].results /\ q.registered = row[s].registered
    BY <2>2, Zenon DEF RowSound, NoRow, Acquired
  <2>4. reason \in {None, "timed_out", "exhausted"}
    BY DEF TerminalReason
  <2>5. claim.subject = s /\ claim.terminal = reason
    BY DEF ClaimOn
  <2>6. row' = [row EXCEPT ![s] = q] /\ worker' = [worker EXCEPT ![w] = me]
    BY <1>2
  <2> HIDE DEF q, reason, claim
  <2>7. RowSound(q)
    BY <2>2, <2>3, RowKept, Zenon
  <2>8. DOMAIN me = DOMAIN Idle /\ me.pc = "claimed" /\ me.claim = claim
    BY DEF Idle
  <2> HIDE DEF me
  <2>9. RoundSound(me, row')
    <3>1. row'[s].registered
      BY <2>1, <2>2, <2>3, <2>6, Zenon DEF IInv
    <3> QED  BY <2>1, <2>4, <2>5, <2>8, <3>1 DEF RoundSound, Busy
  <2>10. Grows(row[s], q)
    BY <2>3 DEF Grows
  <2> QED  BY <2>1, <2>6, <2>7, <2>9, <2>10, RowChanges, Zenon
<1> QED  BY <1>1, <1>2, Zenon DEF ClaimLocked

LEMMA PollPreserves ==
    ASSUME IInv, NEW w \in Workers,
           FailTerminalClaim(w) \/ PollUnavailable(w) \/ PollAmbiguous(w) \/ PollObserves(w)
    PROVE  IInv'
<1>1. worker[w].pc = "claimed" /\ worker[w].pc \in Busy /\ row' = row
  BY Zenon DEF FailTerminalClaim, PollUnavailable, PollAmbiguous, PollObserves, Busy
<1>2. CASE FailTerminalClaim(w)
  <2>1. worker[w].claim.terminal \in {"timed_out", "exhausted"}
    BY <1>1, <1>2 DEF FailTerminalClaim, IInv, RoundSound
  <2>2. worker[w].claim.terminal # "success"
    BY <2>1
  <2> QED  BY <1>1, <1>2, <2>2, GoFailPreserves DEF FailTerminalClaim
<1>3. CASE PollUnavailable(w)
  BY <1>1, <1>3, GoFailPreserves, GoDeferPreserves DEF PollUnavailable
<1>4. CASE PollAmbiguous(w)
  <2>1. PICK verdict \in {"timed_out", "ambiguous"} :
           GoRecord(w, worker[w].claim.revision, verdict)
    BY <1>4 DEF PollAmbiguous
  <2> QED  BY <1>1, <2>1, GoFailPreserves
<1>5. CASE PollObserves(w)
  <2>1. PICK view : worker' = [worker EXCEPT ![w] =
                                  [worker[w] EXCEPT !.pc = "load", !.toAppend = view]]
    BY <1>5, Zenon DEF PollObserves, IInv
  <2> DEFINE me == [worker[w] EXCEPT !.pc = "load", !.toAppend = view]
  <2>2. /\ DOMAIN worker[w] = DOMAIN Idle
        /\ worker[w].claim.subject \in Subjects /\ row[worker[w].claim.subject].registered
    BY <1>1 DEF IInv, RoundSound
  <2>3. DOMAIN me = DOMAIN Idle /\ me.pc = "load" /\ me.claim = worker[w].claim
    BY <2>2 DEF Idle
  <2> HIDE DEF me
  <2>4. RoundSound(me, row)
    BY <2>2, <2>3 DEF RoundSound, Busy
  <2> QED  BY <1>1, <2>1, <2>4, RoundOnly, Zenon DEF me
<1> QED  BY <1>2, <1>3, <1>4, <1>5

LEMMA LoadPreserves == ASSUME IInv, NEW w \in Workers, LoadSnapshot(w) PROVE IInv'
<1> DEFINE observed == row[worker[w].claim.subject].observed
           me == [worker[w] EXCEPT !.pc = "append", !.snapshot = observed]
<1>1. row' = row /\ worker[w].pc = "load"
  BY DEF LoadSnapshot
<1>2. /\ DOMAIN worker[w] = DOMAIN Idle
      /\ worker[w].claim.subject \in Subjects /\ row[worker[w].claim.subject].registered
  BY <1>1 DEF IInv, RoundSound, Busy
<1>3. CASE EndRound(w)
  BY <1>1, <1>3, EndPreserves
<1>4. CASE worker' = [worker EXCEPT ![w] = me]
  <2>1. /\ DOMAIN me = DOMAIN Idle /\ me.pc = "append"
        /\ me.claim = worker[w].claim /\ me.snapshot = observed
    BY <1>2 DEF Idle
  <2> HIDE DEF me
  <2>2. RoundSound(me, row)
    BY <1>2, <2>1 DEF RoundSound, Busy
  <2> QED  BY <1>1, <1>4, <2>2, RoundOnly, Zenon
<1> QED  BY <1>3, <1>4 DEF LoadSnapshot, IInv

(* Evidence gains one observation: every retained result is behind. *)
LEMMA RowGains ==
    ASSUME NEW r, RowSound(r), r.registered, NEW o \in Observations, NEW q,
           DOMAIN q = DOMAIN NoRow, q.observed = r.observed \cup {o},
           q.results = r.results, q.registered = r.registered
    PROVE  RowSound(q)
<1>1. IsFiniteSet(q.observed)
  BY FS_AddElement DEF RowSound
<1>2. \A x \in q.results : Supported(q, x)
  BY <1>1, SupportKept DEF RowSound
<1> QED  BY <1>1, <1>2 DEF RowSound

LEMMA AppendPreserves ==
    ASSUME IInv, NEW w \in Workers, NEW o \in Observations, AppendObservation(w, o)
    PROVE  IInv'
<1> DEFINE s == worker[w].claim.subject
           Next2(snapshot) == [worker[w] EXCEPT !.toAppend = worker[w].toAppend \ {o},
                                                !.snapshot = snapshot]
<1>1. worker[w].pc = "append"
  BY DEF AppendObservation
<1>2. DOMAIN worker[w] = DOMAIN Idle /\ s \in Subjects /\ row[s].registered
  BY <1>1 DEF IInv, RoundSound, Busy
<1>3. ASSUME NEW snapshot, NEW rows, snapshot \subseteq rows[s].observed, rows[s].registered
      PROVE  RoundSound(Next2(snapshot), rows)
  <2> DEFINE me == Next2(snapshot)
  <2>1. /\ DOMAIN me = DOMAIN Idle /\ me.pc = "append"
        /\ me.claim = worker[w].claim /\ me.snapshot = snapshot
    BY <1>1, <1>2 DEF Idle
  <2> HIDE DEF me
  <2>2. RoundSound(me, rows)
    BY <1>2, <1>3, <2>1 DEF RoundSound, Busy
  <2> QED  BY <2>2 DEF me
<1>4. CASE EndRound(w) /\ UNCHANGED row
  BY <1>4, EndPreserves
<1>5. CASE worker' = [worker EXCEPT ![w] = Next2(row[s].observed)] /\ UNCHANGED row
  <2> DEFINE me == Next2(row[s].observed)
  <2>1. RoundSound(me, row)
    BY <1>2, <1>3, Zenon
  <2>2. worker' = [worker EXCEPT ![w] = me] /\ row' = row
    BY <1>5
  <2> HIDE DEF me
  <2> QED  BY <2>1, <2>2, RoundOnly, Zenon
<1>6. CASE /\ worker' = [worker EXCEPT ![w] = Next2(row[s].observed \cup {o})]
           /\ row' = [row EXCEPT ![s].observed = @ \cup {o}]
           /\ ActiveClaim(w, clock)
  <2> DEFINE q == [row[s] EXCEPT !.observed = @ \cup {o}]
             me == Next2(row[s].observed \cup {o})
  <2>1. RowSound(row[s]) /\ row' = [row EXCEPT ![s] = q]
    BY <1>2, <1>6 DEF IInv
  <2>2. /\ DOMAIN q = DOMAIN NoRow /\ q.observed = row[s].observed \cup {o}
        /\ q.results = row[s].results /\ q.registered = row[s].registered
    BY <2>1 DEF RowSound, NoRow
  <2> HIDE DEF q
  <2>3. RowSound(q)
    BY <1>2, <2>1, <2>2, RowGains, Zenon
  <2>4. row'[s].observed = row[s].observed \cup {o} /\ row'[s].registered
    BY <1>2, <2>1, <2>2, Zenon DEF IInv
  <2>5. RoundSound(me, row')
    BY <1>3, <2>4, Zenon
  <2>6. worker' = [worker EXCEPT ![w] = me]
    BY <1>6
  <2>7. Grows(row[s], q)
    BY <2>2 DEF Grows
  <2> HIDE DEF me
  <2> QED  BY <1>2, <2>1, <2>3, <2>5, <2>6, <2>7, RowChanges, Zenon
<1> QED  BY <1>4, <1>5, <1>6 DEF AppendObservation, IInv

LEMMA ConcludePreserves == ASSUME IInv, NEW w \in Workers, Conclude(w) PROVE IInv'
<1> DEFINE s == worker[w].claim.subject
           snapshot == worker[w].snapshot
<1>1. worker[w].pc = "append" /\ worker[w].pc \in Busy /\ row' = row
  BY DEF Conclude, Busy
<1>2. s \in Subjects /\ snapshot \subseteq row[s].observed
  BY <1>1 DEF IInv, RoundSound
<1>3. IsFiniteSet(row[s].observed) /\ row[s].observed \in SUBSET Observations
  BY <1>2 DEF IInv, RowSound
<1>4. /\ IsFiniteSet(snapshot)
      /\ Cardinality(snapshot) <= Cardinality(row[s].observed)
      /\ Cardinality(row[s].observed) = Cardinality(snapshot) => row[s].observed = snapshot
  <2> HIDE DEF snapshot, s
  <2> QED  BY <1>2, <1>3, FS_Subset
<1>5. Cardinality(snapshot) \in Nat
  BY <1>4, FS_CardinalityType
<1>6. Verdict(snapshot) = "success" => Witnessed(snapshot)
  <2>1. snapshot \in SUBSET Observations
    BY <1>2, <1>3
  <2> HIDE DEF snapshot
  <2> QED  BY <2>1, SuccessIffWitnessed
<1>7. ASSUME NEW verdict, verdict = Verdict(snapshot),
             GoRecord(w, Cardinality(snapshot), verdict)
      PROVE  IInv'
  <2> DEFINE x == [revision |-> Cardinality(snapshot), verdict |-> verdict]
  <2>1. x.revision = Cardinality(snapshot) /\ x.verdict = verdict
    OBVIOUS
  <2>2. Supported(row[s], x)
    <3> HIDE DEF x, snapshot, s
    <3> QED  BY <1>4, <1>5, <1>6, <1>7, <2>1 DEF Supported, Revision
  <2> QED  BY <1>1, <1>7, <2>2, GoRecordPreserves
<1>8. ASSUME NEW verdict \in {"timed_out", "exhausted"},
             GoRecord(w, Cardinality(snapshot), verdict)
      PROVE  IInv'
  BY <1>1, <1>8, GoFailPreserves
<1>9. \/ \E verdict : verdict = Verdict(snapshot) /\ GoRecord(w, Cardinality(snapshot), verdict)
      \/ \E verdict \in {"timed_out", "exhausted"} : GoRecord(w, Cardinality(snapshot), verdict)
      \/ GoDefer(w)
  BY DEF Conclude
<1> QED  BY <1>1, <1>7, <1>8, <1>9, GoDeferPreserves

LEMMA DeferPreserves == ASSUME IInv, NEW w \in Workers, Defer(w) PROVE IInv'
<1> DEFINE s == worker[w].claim.subject
<1>1. worker[w].pc = "defer" /\ worker[w].pc \in Busy
  BY DEF Defer, Busy
<1>2. s \in Subjects /\ RowSound(row[s])
  BY <1>1 DEF IInv, RoundSound
<1>3. CASE EndRound(w) /\ UNCHANGED row
  BY <1>3, EndPreserves
<1>4. CASE GoRecord(w, Revision(row[s]), "timed_out") /\ UNCHANGED row
  BY <1>1, <1>4, GoFailPreserves
<1>5. ASSUME NEW delay, row' = [row EXCEPT ![s] = Deferred(row[s], clock, delay)], EndRound(w)
      PROVE  IInv'
  <2> DEFINE q == Deferred(row[s], clock, delay)
  <2>1. /\ DOMAIN q = DOMAIN NoRow /\ q.observed = row[s].observed
        /\ q.results = row[s].results /\ q.registered = row[s].registered
    BY <1>2 DEF RowSound, NoRow, Deferred
  <2>2. row' = [row EXCEPT ![s] = q]
    BY <1>5
  <2> HIDE DEF q
  <2>3. RowSound(q) /\ Grows(row[s], q)
    BY <1>2, <2>1, RowKept DEF Grows
  <2> QED  BY <1>2, <1>5, <2>2, <2>3, IdleSound, RowChanges, Zenon DEF EndRound
<1> QED  BY <1>3, <1>4, <1>5 DEF Defer

LEMMA LockPreserves == ASSUME IInv, NEW w \in Workers, LockResult(w) PROVE IInv'
<1>1. worker[w].pc = "record" /\ row' = row
  BY DEF LockResult
<1>2. CASE EndRound(w)
  BY <1>1, <1>2, EndPreserves
<1>3. CASE worker' = [worker EXCEPT ![w].pc = "recording"]
  <2> DEFINE me == [worker[w] EXCEPT !.pc = "recording"]
  <2>1. worker' = [worker EXCEPT ![w] = me] /\ RoundSound(worker[w], row)
    BY <1>3 DEF IInv
  <2>2. /\ DOMAIN me = DOMAIN Idle /\ me.pc = "recording"
        /\ me.claim = worker[w].claim /\ me.result = worker[w].result
    BY <2>1 DEF Idle, RoundSound
  <2> HIDE DEF me
  <2>3. RoundSound(me, row)
    BY <1>1, <2>1, <2>2 DEF RoundSound, Busy
  <2> QED  BY <1>1, <2>1, <2>3, RoundOnly, Zenon
<1> QED  BY <1>2, <1>3 DEF LockResult

LEMMA CommitPreserves == ASSUME IInv, NEW w \in Workers, CommitResult(w) PROVE IInv'
<1> DEFINE s == worker[w].claim.subject
           x == worker[w].result
           q == [row[s] EXCEPT !.lease = NoLease, !.results = @ \cup {x}]
<1>1. worker[w].pc = "recording" /\ EndRound(w)
  BY DEF CommitResult
<1>2. s \in Subjects /\ row[s].registered /\ Supported(row[s], x)
  BY <1>1 DEF IInv, RoundSound, Busy
<1>3. RowSound(row[s]) /\ row' = [row EXCEPT ![s] = q]
  BY <1>2, Zenon DEF CommitResult, IInv
<1>4. /\ DOMAIN q = DOMAIN NoRow /\ q.observed = row[s].observed
      /\ q.results = row[s].results \cup {x} /\ q.registered = row[s].registered
  BY <1>3, Zenon DEF RowSound, NoRow
<1> HIDE DEF q, x
<1>5. RowSound(q) /\ Grows(row[s], q)
  BY <1>2, <1>3, <1>4, Zenon DEF RowSound, Supported, Revision, Grows
<1> QED  BY <1>1, <1>2, <1>3, <1>5, IdleSound, RowChanges, Zenon DEF EndRound

LEMMA NextIInv == ASSUME IInv, [Next]_vars PROVE IInv'
<1>1. ASSUME UNCHANGED <<row, worker>> PROVE IInv'
  BY <1>1 DEF IInv
<1>2. CASE UNCHANGED vars
  BY <1>1, <1>2 DEF vars
<1>3. CASE Tick
  BY <1>1, <1>3 DEF Tick
<1>4. ASSUME NEW w \in Workers, Crash(w) PROVE IInv'
  BY <1>4, EndPreserves DEF Crash
<1>5. ASSUME NEW w \in Workers, Round(w) PROVE IInv'
  BY <1>5, ScanPreserves, ClaimPreserves, PollPreserves, LoadPreserves, AppendPreserves,
     ConcludePreserves, DeferPreserves, LockPreserves, CommitPreserves DEF Round
<1> QED  BY <1>2, <1>3, <1>4, <1>5, RegisterPreserves DEF Next

(* For every set of subjects, replicas, signals and jobs, a success that is *)
(* retained at the current revision of a subject is one the retained        *)
(* observations witness: record_result cannot store the verdict of a        *)
(* round's snapshot over other evidence.                                    *)
THEOREM SuccessWitnessed == Spec => []SuccessIsWitnessed
<1>1. Init => IInv
  BY InitIInv
<1>2. IInv /\ [Next]_vars => IInv'
  BY NextIInv
<1>3. IInv => SuccessIsWitnessed
  BY DEF IInv, RowSound, SuccessIsWitnessed, Supported, ResultAt, Revision
<1> QED  BY <1>1, <1>2, <1>3, PTL DEF Spec

----------------------------------------------------------------------------
(* The schedule, leases and locks. *)

USE ConvergenceAssumption

(* A row that ReconciliationConvergenceState.__post_init__ accepts. *)
Readable(r) ==
    /\ r \in Rows
    /\ r.registered =>
         /\ r.created <= r.nextAt /\ r.nextAt <= DeadlineAt(r)
         /\ r.attempts <= r.generation
         /\ r.lease # NoLease => r.created <= r.lease.at /\ r.lease.at < r.lease.expires

(* While its generation is the row's, a claim knows the row's attempts. *)
ClaimFine(claim, r) ==
    /\ claim.attempts \in 0 .. MaxAttempts /\ claim.generation \in Nat /\ claim.revision \in Nat
    /\ claim.generation <= r.generation
    /\ claim.generation = r.generation => r.attempts = claim.attempts

RoundFine(w, me, rows, lock, now) ==
    /\ me.pc = "scanned" => me.seenAt \in Nat /\ me.seenAt <= now
    /\ me.pc \in Busy => ClaimFine(me.claim, rows[me.claim.subject])
    /\ me.pc = "defer" => me.claim.attempts < MaxAttempts
    /\ me.pc \in {"record", "recording"} => me.result \in Results
    /\ me.pc = "recording" =>
          /\ lock[me.claim.subject] = w
          /\ rows[me.claim.subject].generation = me.claim.generation
          /\ rows[me.claim.subject].lease.holder = w

ConvInv ==
    /\ clock \in Nat
    /\ DOMAIN locked = Subjects
    /\ \A s \in Subjects : Readable(row[s])
    /\ \A w \in Workers : RoundFine(w, worker[w], row, locked, clock)

(* What a step does to a row: a change of attempts is a new generation. *)
Advances(r, q) == r.generation <= q.generation /\ (r.generation = q.generation => q.attempts = r.attempts)

(* What a step of another worker leaves to the one that holds the lock. *)
LockKept(v, s) ==
    locked[s] = v => /\ locked'[s] = v
                     /\ row'[s].generation = row[s].generation
                     /\ row'[s].lease.holder = row[s].lease.holder

LEMMA Squeezed ==
    ASSUME NEW k \in Nat, NEW m \in Nat, NEW n \in Nat, k <= m, m <= n
    PROVE  k <= n /\ (k = n => k = m /\ m = n)
  OBVIOUS

LEMMA NoRowReadable == Readable(NoRow)
<1>1. NoLease \in Leases
  BY DEF NoLease, Leases
<1>2. NoRow \in Rows
  BY <1>1 DEF NoRow, Rows
<1>3. NoRow.registered = FALSE
  BY DEF NoRow
<1> QED  BY <1>2, <1>3, Zenon DEF Readable

LEMMA ConvInit == Init => ConvInv
<1> SUFFICES ASSUME Init PROVE ConvInv
  OBVIOUS
<1>1. ASSUME NEW w \in Workers PROVE RoundFine(w, worker[w], row, locked, clock)
  <2>1. worker[w] = Idle /\ Idle.pc = "idle"
    BY DEF Init, Idle
  <2> QED  BY <2>1 DEF RoundFine, Busy
<1> QED  BY <1>1, NoRowReadable DEF Init, ConvInv

LEMMA ReadableInts ==
    ASSUME NEW r, Readable(r)
    PROVE  /\ r.generation \in Nat /\ r.attempts \in 0 .. MaxAttempts /\ r.created \in Nat
           /\ r.nextAt \in Nat /\ r.backoff \in 1 .. MaxBackoff /\ r.backoff \in Nat /\ r.lease \in Leases
           /\ r.observed \in SUBSET Observations /\ r.results \in SUBSET Results
           /\ r.registered \in BOOLEAN
  BY DEF Readable, Rows

LEMMA AdvancesSelf == ASSUME NEW r, Readable(r) PROVE Advances(r, r)
<1>1. r.generation \in Nat
  BY ReadableInts
<1> QED  BY <1>1 DEF Advances

(* A leased row is held by somebody. *)
LEMMA HeldByWorker == ASSUME NEW lease, lease.holder \in Workers PROVE lease # NoLease
<1>1. NoLease.holder = None
  BY DEF NoLease
<1>2. None \notin Workers
  BY ConvergenceAssumption
<1> QED  BY <1>1, <1>2

(* A round that does not move keeps what it knows. *)
LEMMA OtherFine ==
    ASSUME IInv, ConvInv, NEW v \in Workers, clock' \in Nat, clock <= clock',
           \A s \in Subjects : Readable(row'[s]) /\ Advances(row[s], row'[s]) /\ LockKept(v, s)
    PROVE  RoundFine(v, worker[v], row', locked', clock')
<1> DEFINE me == worker[v]
           s == me.claim.subject
<1>1. RoundFine(v, me, row, locked, clock) /\ RoundSound(me, row)
  BY DEF ConvInv, IInv
<1> HIDE DEF me
<1>2. ASSUME me.pc = "scanned" PROVE me.seenAt \in Nat /\ me.seenAt <= clock'
  <2>1. me.seenAt \in Nat /\ me.seenAt <= clock /\ clock \in Nat
    BY <1>1, <1>2 DEF RoundFine, ConvInv
  <2> QED  BY <2>1
<1>3. ASSUME me.pc \in Busy PROVE ClaimFine(me.claim, row'[s])
  <2>1. s \in Subjects /\ ClaimFine(me.claim, row[s])
    BY <1>1, <1>3 DEF RoundFine, RoundSound
  <2>2. row[s].generation \in Nat /\ row'[s].generation \in Nat
    BY <2>1, ReadableInts DEF ConvInv
  <2>3. Advances(row[s], row'[s])
    BY <2>1, Zenon
  <2>4. /\ me.claim.generation \in Nat /\ me.claim.generation <= row[s].generation
        /\ row[s].generation <= row'[s].generation
    BY <2>1, <2>3, Zenon DEF ClaimFine, Advances
  <2>5. /\ me.claim.generation <= row'[s].generation
        /\ me.claim.generation = row'[s].generation =>
              /\ me.claim.generation = row[s].generation
              /\ row[s].generation = row'[s].generation
    <3>1. PICK k, m, n : k = me.claim.generation /\ m = row[s].generation /\ n = row'[s].generation
      BY Zenon
    <3>2. k \in Nat /\ m \in Nat /\ n \in Nat /\ k <= m /\ m <= n
      BY <2>2, <2>4, <3>1, Zenon
    <3>3. k <= n /\ (k = n => k = m /\ m = n)
      BY <3>2, Squeezed, Zenon
    <3> QED  BY <3>1, <3>3, Zenon
  <2> QED  BY <2>1, <2>3, <2>5, Zenon DEF ClaimFine, Advances
<1>4. ASSUME me.pc = "recording"
      PROVE  /\ locked'[s] = v /\ row'[s].generation = me.claim.generation
             /\ row'[s].lease.holder = v
  <2>1. s \in Subjects
    BY <1>1, <1>4 DEF RoundSound, Busy
  <2> QED  BY <1>1, <1>4, <2>1 DEF RoundFine, LockKept
<1>5. (me.pc = "defer" => me.claim.attempts < MaxAttempts)
      /\ (me.pc \in {"record", "recording"} => me.result \in Results)
  BY <1>1 DEF RoundFine
<1>6. RoundFine(v, me, row', locked', clock')
  BY <1>2, <1>3, <1>4, <1>5 DEF RoundFine
<1> QED  BY <1>6 DEF me

LEMMA RoundMoves ==
    ASSUME IInv, ConvInv, NEW w \in Workers, NEW me,
           worker' = [worker EXCEPT ![w] = me], clock' = clock, DOMAIN locked' = Subjects,
           \A s \in Subjects : Readable(row'[s]) /\ Advances(row[s], row'[s]),
           \A v \in Workers \ {w}, s \in Subjects : LockKept(v, s),
           RoundFine(w, me, row', locked', clock)
    PROVE  ConvInv'
<1>1. worker'[w] = me /\ \A v \in Workers \ {w} : worker'[v] = worker[v]
  BY DEF IInv
<1>2. clock \in Nat /\ clock <= clock'
  BY DEF ConvInv
<1>3. ASSUME NEW v \in Workers \ {w} PROVE RoundFine(v, worker'[v], row', locked', clock')
  <2>1. RoundFine(v, worker[v], row', locked', clock')
    BY <1>2, OtherFine
  <2> QED  BY <1>1, <2>1
<1>4. RoundFine(w, worker'[w], row', locked', clock')
  BY <1>1
<1> QED  BY <1>2, <1>3, <1>4 DEF ConvInv

LEMMA RoundMovesAlone ==
    ASSUME IInv, ConvInv, NEW w \in Workers, NEW me,
           worker' = [worker EXCEPT ![w] = me], UNCHANGED <<clock, row, locked>>,
           RoundFine(w, me, row, locked, clock)
    PROVE  ConvInv'
<1>1. \A s \in Subjects : Readable(row'[s]) /\ Advances(row[s], row'[s])
  BY AdvancesSelf DEF ConvInv
<1>2. \A v \in Workers, s \in Subjects : LockKept(v, s)
  BY DEF LockKept
<1> QED  BY <1>1, <1>2, RoundMoves DEF ConvInv

(* A row changes that is not locked, or whose generation and holder stay.   *)
LEMMA RoundMovesRow ==
    ASSUME IInv, ConvInv, NEW w \in Workers, NEW me, NEW s \in Subjects, NEW q,
           worker' = [worker EXCEPT ![w] = me], row' = [row EXCEPT ![s] = q],
           UNCHANGED <<clock, locked>>, locked[s] = None,
           Readable(q), Advances(row[s], q), RoundFine(w, me, row', locked, clock)
    PROVE  ConvInv'
<1>1. \A t \in Subjects : row'[t] = IF t = s THEN q ELSE row[t]
  BY DEF IInv
<1>2. \A t \in Subjects : Readable(row'[t]) /\ Advances(row[t], row'[t])
  BY <1>1, AdvancesSelf DEF ConvInv
<1>3. ASSUME NEW v \in Workers, NEW t \in Subjects PROVE LockKept(v, t)
  BY <1>1 DEF LockKept
<1> QED  BY <1>2, <1>3, RoundMoves, Zenon DEF ConvInv

LEMMA IdleFine == ASSUME NEW w, NEW rows, NEW lock, NEW now PROVE RoundFine(w, Idle, rows, lock, now)
  BY DEF RoundFine, Idle, Busy

LEMMA EndFine ==
    ASSUME IInv, ConvInv, NEW w \in Workers, EndRound(w), UNCHANGED <<clock, row, locked>>
    PROVE  ConvInv'
  BY IdleFine, RoundMovesAlone, Zenon DEF EndRound

(* The rows that a claim and a deferral write. *)
LEMMA AcquiredReadable ==
    ASSUME NEW r, Readable(r), r.registered, NEW now \in Nat, r.created <= now,
           NEW w \in Workers, NEW q, q = Acquired(r, w, now)
    PROVE  /\ Readable(q) /\ Advances(r, q)
           /\ q.generation = r.generation + 1 /\ q.attempts \in 0 .. MaxAttempts
<1> DEFINE lease == [holder |-> w, at |-> now, expires |-> now + Lease]
           attempts == IF TerminalReason(r, now) = None THEN r.attempts + 1 ELSE r.attempts
<1>1. r \in Rows
  BY DEF Readable
<1>2. q = [r EXCEPT !.attempts = attempts, !.generation = r.generation + 1, !.lease = lease]
  BY <1>1 DEF Acquired, Rows
<1>3. lease \in Leases /\ lease.at = now /\ now < lease.expires /\ lease.expires \in Nat
  BY DEF Leases
<1>4. TerminalReason(r, now) = None => r.attempts < MaxAttempts
  BY <1>1 DEF TerminalReason, Rows
<1>5. attempts \in 0 .. MaxAttempts /\ attempts <= r.generation + 1
  BY <1>1, <1>4 DEF Readable, Rows
<1> DEFINE generation == r.generation + 1
<1>8. generation \in Nat
  BY <1>1 DEF Rows
<1> HIDE DEF lease, attempts, generation
<1>6. /\ q \in Rows /\ q.lease = lease /\ q.attempts = attempts
      /\ q.generation = generation /\ q.created = r.created /\ q.nextAt = r.nextAt
      /\ q.registered = r.registered
  <2>1. q = [r EXCEPT !.attempts = attempts, !.generation = generation, !.lease = lease]
    BY <1>2 DEF generation
  <2>2. q \in Rows
    BY <1>1, <1>3, <1>5, <1>8, <2>1, ZenonT(30) DEF Rows
  <2> QED  BY <1>1, <2>1, <2>2, Zenon DEF Rows
<1>7. Advances(r, q)
  BY <1>1, <1>6 DEF Advances, Rows, generation
<1> QED  BY <1>3, <1>5, <1>6, <1>7 DEF Readable, DeadlineAt, generation

LEMMA DeferredReadable ==
    ASSUME NEW r, Readable(r), r.registered, NEW now \in Nat, r.created <= now,
           NEW delay \in Nat, NEW q, q = Deferred(r, now, delay)
    PROVE  Readable(q) /\ Advances(r, q)
<1> DEFINE nextAt == LowerOf(DeadlineAt(r), now + delay)
           backoff == LowerOf(2 * r.backoff, MaxBackoff)
<1>1. r \in Rows
  BY DEF Readable
<1>2. q = [r EXCEPT !.nextAt = nextAt, !.backoff = backoff, !.lease = NoLease]
  BY <1>1 DEF Deferred, Rows
<1>3. NoLease \in Leases
  BY DEF NoLease, Leases
<1>4. nextAt \in Nat /\ r.created <= nextAt /\ nextAt <= DeadlineAt(r)
  BY <1>1 DEF LowerOf, DeadlineAt, Rows
<1>5. backoff \in 1 .. MaxBackoff
  <2>1. r.backoff \in 1 .. MaxBackoff
    BY <1>1 DEF Rows
  <2> QED  BY <2>1 DEF LowerOf
<1> HIDE DEF nextAt, backoff
<1>6. /\ q \in Rows /\ q.lease = NoLease /\ q.attempts = r.attempts /\ q.nextAt = nextAt
      /\ q.generation = r.generation /\ q.created = r.created /\ q.registered = r.registered
  BY <1>1, <1>2, <1>3, <1>4, <1>5, ZenonT(30) DEF Rows
<1>7. Advances(r, q)
  BY <1>1, <1>6 DEF Advances, Rows
<1> QED  BY <1>4, <1>6, <1>7 DEF Readable, DeadlineAt

LEMMA BusyFacts ==
    ASSUME IInv, ConvInv, NEW w \in Workers, worker[w].pc \in Busy, NEW s, s = worker[w].claim.subject
    PROVE  /\ DOMAIN worker[w] = DOMAIN Idle /\ s \in Subjects /\ row[s].registered
           /\ ClaimFine(worker[w].claim, row[s]) /\ Readable(row[s])
           /\ Revision(row[s]) \in Nat
           /\ worker[w].claim.attempts \in 0 .. MaxAttempts /\ worker[w].claim.revision \in Nat
<1>1. RoundSound(worker[w], row) /\ RoundFine(w, worker[w], row, locked, clock)
  BY DEF IInv, ConvInv
<1>2. DOMAIN worker[w] = DOMAIN Idle /\ s \in Subjects /\ row[s].registered
      /\ ClaimFine(worker[w].claim, row[s])
  BY <1>1 DEF RoundSound, RoundFine
<1>3. Readable(row[s]) /\ IsFiniteSet(row[s].observed)
  BY <1>2 DEF ConvInv, IInv, RowSound
<1> QED  BY <1>2, <1>3, FS_CardinalityType, Zenon DEF Revision, ClaimFine

LEMMA GoRecordFine ==
    ASSUME IInv, ConvInv, NEW w \in Workers, worker[w].pc \in Busy, UNCHANGED <<clock, row, locked>>,
           NEW revision \in Nat, NEW verdict \in Verdicts, GoRecord(w, revision, verdict)
    PROVE  ConvInv'
<1> DEFINE x == [revision |-> revision, verdict |-> verdict]
           me == [worker[w] EXCEPT !.pc = "record", !.toAppend = {}, !.snapshot = {},
                                   !.result = x]
<1>1. worker' = [worker EXCEPT ![w] = me]
  BY DEF GoRecord, IInv
<1>2. DOMAIN worker[w] = DOMAIN Idle /\ ClaimFine(worker[w].claim, row[worker[w].claim.subject])
  BY BusyFacts
<1>3. x \in Results
  BY DEF Results
<1> HIDE DEF x
<1>4. me.pc = "record" /\ me.claim = worker[w].claim /\ me.result = x
  BY <1>2 DEF Idle
<1> HIDE DEF me
<1>5. RoundFine(w, me, row, locked, clock)
  BY <1>2, <1>3, <1>4 DEF RoundFine, Busy
<1> QED  BY <1>1, <1>5, RoundMovesAlone, Zenon

LEMMA GoDeferFine ==
    ASSUME IInv, ConvInv, NEW w \in Workers, worker[w].pc \in Busy, UNCHANGED <<clock, row, locked>>,
           worker[w].claim.attempts < MaxAttempts, GoDefer(w)
    PROVE  ConvInv'
<1> DEFINE me == [worker[w] EXCEPT !.pc = "defer", !.toAppend = {}, !.snapshot = {}]
<1>1. worker' = [worker EXCEPT ![w] = me]
  BY DEF GoDefer, IInv
<1>2. DOMAIN worker[w] = DOMAIN Idle /\ ClaimFine(worker[w].claim, row[worker[w].claim.subject])
  BY BusyFacts
<1>3. me.pc = "defer" /\ me.claim = worker[w].claim
  BY <1>2 DEF Idle
<1> HIDE DEF me
<1>4. RoundFine(w, me, row, locked, clock)
  BY <1>2, <1>3 DEF RoundFine, Busy
<1> QED  BY <1>1, <1>4, RoundMovesAlone, Zenon

LEMMA RegisterFine == ASSUME IInv, ConvInv, NEW s \in Subjects, Register(s) PROVE ConvInv'
<1>1. PICK now \in ProcessTimes : row' = [row EXCEPT ![s] = InitialRow(now)]
  BY Zenon DEF Register
<1>2. ~row[s].registered /\ UNCHANGED <<clock, locked, worker>>
  BY DEF Register
<1>3. now \in Nat
  BY <1>1 DEF ProcessTimes
<1> DEFINE q == InitialRow(now)
<1>4. Readable(q) /\ q.registered
  <2>1. NoRow \in Rows
    BY NoRowReadable DEF Readable
  <2>2. q = [NoRow EXCEPT !.registered = TRUE, !.created = now, !.nextAt = now]
    BY DEF InitialRow
  <2>3. /\ q \in Rows /\ q.registered /\ q.created = now /\ q.nextAt = now /\ q.attempts = 0
        /\ q.generation = 0 /\ q.lease = NoLease
    BY <1>3, <2>1, <2>2, ZenonT(30) DEF Rows, NoRow
  <2> HIDE DEF q
  <2> QED  BY <1>3, <2>3 DEF Readable, DeadlineAt
<1> HIDE DEF q
<1>5. \A t \in Subjects : row'[t] = IF t = s THEN q ELSE row[t]
  BY <1>1 DEF IInv, q
<1>6. \A t \in Subjects : Readable(row'[t])
  BY <1>4, <1>5 DEF ConvInv
<1>7. ASSUME NEW v \in Workers PROVE RoundFine(v, worker[v], row', locked, clock)
  <2>1. RoundFine(v, worker[v], row, locked, clock) /\ RoundSound(worker[v], row)
    BY DEF ConvInv, IInv
  <2>2. worker[v].pc \in Busy => worker[v].claim.subject # s /\ worker[v].claim.subject \in Subjects
    BY <1>2, <2>1 DEF RoundSound
  <2>3. worker[v].pc \in Busy => row'[worker[v].claim.subject] = row[worker[v].claim.subject]
    BY <1>5, <2>2
  <2> QED  BY <2>1, <2>3 DEF RoundFine, Busy
<1> QED  BY <1>2, <1>6, <1>7 DEF ConvInv

LEMMA ScanFine == ASSUME IInv, ConvInv, NEW w \in Workers, ScanDue(w) PROVE ConvInv'
<1> DEFINE due == {s \in Subjects : Due(row[s], clock) /\ ~Resolved(row[s])}
           seen == {[subject |-> s, nextAt |-> row[s].nextAt] : s \in due}
           me == [Idle EXCEPT !.pc = "scanned", !.seenAt = clock, !.seen = seen]
<1>1. worker' = [worker EXCEPT ![w] = me] /\ UNCHANGED <<clock, row, locked>>
  BY DEF ScanDue
<1> HIDE DEF seen
<1>2. me.pc = "scanned" /\ me.seenAt = clock
  BY DEF Idle
<1> HIDE DEF me
<1>3. clock \in Nat /\ clock <= clock
  BY DEF ConvInv
<1>4. RoundFine(w, me, row, locked, clock)
  BY <1>2, <1>3, Zenon DEF RoundFine, Busy
<1> QED  BY <1>1, <1>4, RoundMovesAlone, Zenon

LEMMA ClaimingFine == ASSUME IInv, ConvInv, NEW w \in Workers, ClaimLocked(w) PROVE ConvInv'
<1>0. UNCHANGED <<clock, locked>> /\ worker[w].pc = "scanned"
  BY Zenon DEF ClaimLocked
<1>1. CASE EndRound(w) /\ UNCHANGED row
  BY <1>0, <1>1, EndFine
<1>2. ASSUME NEW c \in worker[w].seen,
             Lockable(c, worker[w].seenAt),
             row' = [row EXCEPT ![c.subject] = Acquired(row[c.subject], w, clock)],
             worker' = [worker EXCEPT ![w] =
                [Idle EXCEPT !.pc = "claimed",
                    !.claim = ClaimOn(c.subject, Acquired(row[c.subject], w, clock),
                                      TerminalReason(row[c.subject], clock))]]
      PROVE  ConvInv'
  <2> DEFINE s == c.subject
             q == Acquired(row[s], w, clock)
             claim == ClaimOn(s, q, TerminalReason(row[s], clock))
             me == [Idle EXCEPT !.pc = "claimed", !.claim = claim]
  <2>1. s \in Subjects
    BY <1>0 DEF IInv, RoundSound
  <2>2. row[s].registered /\ row[s].nextAt <= worker[w].seenAt /\ locked[s] = None
    BY <1>2 DEF Lockable, Due
  <2>3. Readable(row[s]) /\ RowSound(row[s])
    BY <2>1 DEF ConvInv, IInv
  <2>4. worker[w].seenAt \in Nat /\ worker[w].seenAt <= clock /\ clock \in Nat
    BY <1>0 DEF ConvInv, RoundFine
  <2>5. row[s].created <= clock
    <3>1. row[s].created \in Nat /\ row[s].nextAt \in Nat /\ row[s].created <= row[s].nextAt
      BY <2>2, <2>3, ReadableInts DEF Readable
    <3> QED  BY <2>2, <2>4, <3>1
  <2>6. /\ Readable(q) /\ Advances(row[s], q) /\ q.generation = row[s].generation + 1
        /\ q.attempts \in 0 .. MaxAttempts
    BY <2>2, <2>3, <2>4, <2>5, AcquiredReadable
  <2>7. q.observed = row[s].observed
    BY <2>3 DEF Acquired, RowSound, NoRow
  <2>8. Revision(q) \in Nat
    BY <2>3, <2>7, FS_CardinalityType DEF Revision, RowSound
  <2>9. /\ claim.subject = s /\ claim.generation = q.generation /\ claim.attempts = q.attempts
        /\ claim.revision = Revision(q)
    BY DEF ClaimOn
  <2>10. row' = [row EXCEPT ![s] = q] /\ worker' = [worker EXCEPT ![w] = me]
    BY <1>2
  <2> HIDE DEF q, claim
  <2>11. me.pc = "claimed" /\ me.claim = claim
    BY DEF Idle
  <2> HIDE DEF me
  <2>12. row'[s] = q
    BY <2>1, <2>10 DEF IInv
  <2>13. ClaimFine(me.claim, row'[me.claim.subject])
    <3>1. q.generation \in Nat /\ q.generation <= q.generation
      BY <2>6, ReadableInts
    <3> QED  BY <2>6, <2>8, <2>9, <2>11, <2>12, <3>1, Zenon DEF ClaimFine
  <2>14. RoundFine(w, me, row', locked, clock)
    BY <2>11, <2>13 DEF RoundFine, Busy
  <2> QED  BY <1>0, <2>1, <2>2, <2>6, <2>10, <2>14, RoundMovesRow, Zenon
<1> QED  BY <1>1, <1>2, Zenon DEF ClaimLocked

LEMMA PollFine ==
    ASSUME IInv, ConvInv, NEW w \in Workers,
           FailTerminalClaim(w) \/ PollUnavailable(w) \/ PollAmbiguous(w) \/ PollObserves(w)
    PROVE  ConvInv'
<1> DEFINE claim == worker[w].claim
<1>1. worker[w].pc = "claimed" /\ worker[w].pc \in Busy /\ UNCHANGED <<clock, row, locked>>
  BY Zenon DEF FailTerminalClaim, PollUnavailable, PollAmbiguous, PollObserves, Busy
<1>2. claim.revision \in Nat /\ claim.attempts \in 0 .. MaxAttempts
  BY <1>1, BusyFacts
<1>3. {"timed_out", "exhausted", "ambiguous"} \subseteq Verdicts
  BY DEF Verdicts
<1>4. CASE FailTerminalClaim(w)
  <2>1. claim.terminal \in Verdicts /\ GoRecord(w, claim.revision, claim.terminal)
    BY <1>1, <1>3, <1>4 DEF FailTerminalClaim, IInv, RoundSound
  <2> QED  BY <1>1, <1>2, <2>1, GoRecordFine
<1>5. CASE PollUnavailable(w)
  <2>1. \/ \E verdict \in {"timed_out", "exhausted"} : GoRecord(w, claim.revision, verdict)
        \/ ~(claim.attempts >= MaxAttempts) /\ GoDefer(w)
    BY <1>5 DEF PollUnavailable
  <2>2. ~(claim.attempts >= MaxAttempts) => claim.attempts < MaxAttempts
    BY <1>2
  <2> QED  BY <1>1, <1>2, <1>3, <2>1, <2>2, GoRecordFine, GoDeferFine
<1>6. CASE PollAmbiguous(w)
  <2>1. \E verdict \in {"timed_out", "ambiguous"} : GoRecord(w, claim.revision, verdict)
    BY <1>6 DEF PollAmbiguous
  <2> QED  BY <1>1, <1>2, <1>3, <2>1, GoRecordFine
<1>7. CASE PollObserves(w)
  <2>1. PICK view : worker' = [worker EXCEPT ![w] =
                                  [worker[w] EXCEPT !.pc = "load", !.toAppend = view]]
    BY <1>7, Zenon DEF PollObserves, IInv
  <2> DEFINE me == [worker[w] EXCEPT !.pc = "load", !.toAppend = view]
  <2>2. DOMAIN worker[w] = DOMAIN Idle /\ ClaimFine(claim, row[claim.subject])
    BY <1>1, BusyFacts
  <2>3. me.pc = "load" /\ me.claim = claim
    BY <2>2 DEF Idle
  <2>4. worker' = [worker EXCEPT ![w] = me]
    BY <2>1
  <2> HIDE DEF me
  <2>5. RoundFine(w, me, row, locked, clock)
    BY <2>2, <2>3 DEF RoundFine, Busy
  <2> QED  BY <1>1, <2>4, <2>5, RoundMovesAlone, Zenon
<1> QED  BY <1>4, <1>5, <1>6, <1>7

LEMMA LoadFine == ASSUME IInv, ConvInv, NEW w \in Workers, LoadSnapshot(w) PROVE ConvInv'
<1> DEFINE me == [worker[w] EXCEPT !.pc = "append",
                                   !.snapshot = row[worker[w].claim.subject].observed]
<1>1. UNCHANGED <<clock, row, locked>> /\ worker[w].pc = "load"
  BY DEF LoadSnapshot
<1>2. DOMAIN worker[w] = DOMAIN Idle /\ ClaimFine(worker[w].claim, row[worker[w].claim.subject])
  BY <1>1, BusyFacts DEF Busy
<1>3. CASE EndRound(w)
  BY <1>1, <1>3, EndFine
<1>4. CASE worker' = [worker EXCEPT ![w] = me]
  <2>1. me.pc = "append" /\ me.claim = worker[w].claim
    BY <1>2 DEF Idle
  <2> HIDE DEF me
  <2>2. RoundFine(w, me, row, locked, clock)
    BY <1>2, <2>1 DEF RoundFine, Busy
  <2> QED  BY <1>1, <1>4, <2>2, RoundMovesAlone, Zenon
<1> QED  BY <1>3, <1>4 DEF LoadSnapshot, IInv

(* A row whose schedule, claims and lease stay. *)
LEMMA EvidenceReadable ==
    ASSUME NEW r, Readable(r), NEW observed \in SUBSET Observations, NEW q,
           q = [r EXCEPT !.observed = observed]
    PROVE  /\ Readable(q) /\ Advances(r, q)
           /\ q.generation = r.generation /\ q.attempts = r.attempts
<1>1. r \in Rows
  BY DEF Readable
<1>2. /\ q \in Rows /\ q.lease = r.lease /\ q.attempts = r.attempts /\ q.nextAt = r.nextAt
      /\ q.generation = r.generation /\ q.created = r.created /\ q.registered = r.registered
  BY <1>1 DEF Rows
<1>3. r.generation \in Nat
  BY <1>1 DEF Rows
<1> QED  BY <1>2, <1>3 DEF Readable, DeadlineAt, Advances

LEMMA AppendFine ==
    ASSUME IInv, ConvInv, NEW w \in Workers, NEW o \in Observations, AppendObservation(w, o)
    PROVE  ConvInv'
<1> DEFINE s == worker[w].claim.subject
           Next2(snapshot) == [worker[w] EXCEPT !.toAppend = worker[w].toAppend \ {o},
                                                !.snapshot = snapshot]
<1>1. worker[w].pc = "append" /\ locked[s] = None /\ UNCHANGED <<clock, locked>>
  BY DEF AppendObservation
<1>2. /\ DOMAIN worker[w] = DOMAIN Idle /\ s \in Subjects /\ ClaimFine(worker[w].claim, row[s])
      /\ Readable(row[s])
  BY <1>1, BusyFacts DEF Busy
<1>3. ASSUME NEW snapshot, NEW rows, ClaimFine(worker[w].claim, rows[s])
      PROVE  RoundFine(w, Next2(snapshot), rows, locked, clock)
  <2> DEFINE me == Next2(snapshot)
  <2>1. me.pc = "append" /\ me.claim = worker[w].claim
    BY <1>1, <1>2 DEF Idle
  <2> HIDE DEF me
  <2>2. RoundFine(w, me, rows, locked, clock)
    BY <1>3, <2>1 DEF RoundFine, Busy
  <2> QED  BY <2>2 DEF me
<1>4. CASE EndRound(w) /\ UNCHANGED row
  BY <1>1, <1>4, EndFine
<1>5. CASE worker' = [worker EXCEPT ![w] = Next2(row[s].observed)] /\ UNCHANGED row
  <2> DEFINE me == Next2(row[s].observed)
  <2>1. RoundFine(w, me, row, locked, clock)
    BY <1>2, <1>3, Zenon
  <2>2. worker' = [worker EXCEPT ![w] = me]
    BY <1>5
  <2> HIDE DEF me
  <2> QED  BY <1>1, <1>5, <2>1, <2>2, RoundMovesAlone, Zenon
<1>6. CASE /\ worker' = [worker EXCEPT ![w] = Next2(row[s].observed \cup {o})]
           /\ row' = [row EXCEPT ![s].observed = @ \cup {o}]
           /\ ActiveClaim(w, clock)
  <2>o. PICK seen : seen = row[s].observed \cup {o}
    BY Zenon
  <2> DEFINE q == [row[s] EXCEPT !.observed = seen]
             me == Next2(row[s].observed \cup {o})
  <2>1. row' = [row EXCEPT ![s] = q] /\ seen \in SUBSET Observations
    BY <1>2, <1>6, <2>o, ReadableInts DEF IInv
  <2>2. Readable(q) /\ Advances(row[s], q) /\ q.generation = row[s].generation
        /\ q.attempts = row[s].attempts
    BY <1>2, <2>1, EvidenceReadable
  <2> HIDE DEF q
  <2>3. row'[s] = q
    BY <1>2, <2>1 DEF IInv
  <2>4. ClaimFine(worker[w].claim, row'[s])
    BY <1>2, <2>2, <2>3 DEF ClaimFine
  <2>5. RoundFine(w, me, row', locked, clock)
    BY <1>3, <2>4, Zenon
  <2>6. worker' = [worker EXCEPT ![w] = me]
    BY <1>6
  <2> HIDE DEF me
  <2> QED  BY <1>1, <1>2, <2>1, <2>2, <2>5, <2>6, RoundMovesRow, Zenon
<1> QED  BY <1>4, <1>5, <1>6 DEF AppendObservation, IInv

LEMMA ConcludeFine == ASSUME IInv, ConvInv, NEW w \in Workers, Conclude(w) PROVE ConvInv'
<1> DEFINE claim == worker[w].claim
           snapshot == worker[w].snapshot
<1>1. worker[w].pc = "append" /\ worker[w].pc \in Busy /\ UNCHANGED <<clock, row, locked>>
  BY DEF Conclude, Busy
<1>2. claim.attempts \in 0 .. MaxAttempts /\ claim.subject \in Subjects
  BY <1>1, BusyFacts
<1>3. Cardinality(snapshot) \in Nat
  <2>1. snapshot \subseteq row[claim.subject].observed /\ IsFiniteSet(row[claim.subject].observed)
    BY <1>1, <1>2 DEF IInv, RoundSound, RowSound
  <2> HIDE DEF snapshot, claim
  <2> QED  BY <2>1, FS_Subset, FS_CardinalityType
<1>4. Verdict(snapshot) \in {"conflict", "failure", "pending", "success"}
  BY DEF Verdict
<1>5. \/ \E verdict \in Verdicts : GoRecord(w, Cardinality(snapshot), verdict)
      \/ ~(claim.attempts >= MaxAttempts) /\ GoDefer(w)
  BY <1>4 DEF Conclude, Verdicts
<1>6. ~(claim.attempts >= MaxAttempts) => claim.attempts < MaxAttempts
  BY <1>2
<1> QED  BY <1>1, <1>3, <1>5, <1>6, GoRecordFine, GoDeferFine

(* An active claim is on a row its round has leased, at a time the row has  *)
(* existed.                                                                 *)
LEMMA ActiveMeans ==
    ASSUME ConvInv, NEW w \in Workers, NEW s, s = worker[w].claim.subject, ActiveClaim(w, clock),
           Readable(row[s]), row[s].registered
    PROVE  /\ row[s].generation = worker[w].claim.generation /\ row[s].lease.holder = w
           /\ row[s].created <= clock
<1>1. /\ row[s].generation = worker[w].claim.generation /\ row[s].lease.holder = w
      /\ row[s].lease.at <= clock
  BY DEF ActiveClaim
<1>2. row[s].lease # NoLease
  BY <1>1, HeldByWorker
<1>3. row[s].created <= row[s].lease.at
  BY <1>2 DEF Readable
<1>4. row[s].created \in Nat /\ row[s].lease.at \in Nat /\ clock \in Nat
  BY ReadableInts DEF Leases, ConvInv
<1>5. row[s].created <= clock
  <2>1. \A x, y, z \in Nat : x <= y /\ y <= z => x <= z
    OBVIOUS
  <2> QED  BY <1>1, <1>3, <1>4, <2>1, Zenon
<1> QED  BY <1>1, <1>5

LEMMA DeferFine == ASSUME IInv, ConvInv, NEW w \in Workers, Defer(w) PROVE ConvInv'
<1> DEFINE s == worker[w].claim.subject
<1>1. worker[w].pc = "defer" /\ worker[w].pc \in Busy /\ locked[s] = None /\ UNCHANGED <<clock, locked>>
  BY DEF Defer, Busy
<1>2. s \in Subjects /\ Readable(row[s]) /\ row[s].registered /\ Revision(row[s]) \in Nat
  BY <1>1, BusyFacts
<1>3. CASE EndRound(w) /\ UNCHANGED row
  BY <1>1, <1>3, EndFine
<1>4. CASE GoRecord(w, Revision(row[s]), "timed_out") /\ UNCHANGED row
  BY <1>1, <1>2, <1>4, GoRecordFine DEF Verdicts
<1>5. ASSUME NEW delay \in RetryDelays(row[s].backoff), ActiveClaim(w, clock),
             row' = [row EXCEPT ![s] = Deferred(row[s], clock, delay)], EndRound(w)
      PROVE  ConvInv'
  <2>1. delay \in Nat
    <3>1. row[s].backoff \in Nat
      BY <1>2, ReadableInts, Zenon
    <3>2. \A b \in Nat : (b + 1) \div 2 .. b \in SUBSET Nat
      OBVIOUS
    <3>3. RetryDelays(row[s].backoff) \in SUBSET Nat
      BY <3>1, <3>2 DEF RetryDelays
    <3> QED  BY <1>5, <3>3
  <2>2. row[s].created <= clock /\ clock \in Nat
    BY <1>2, <1>5, ActiveMeans DEF ConvInv
  <2> DEFINE q == Deferred(row[s], clock, delay)
  <2>3. Readable(q) /\ Advances(row[s], q)
    BY <1>2, <2>1, <2>2, DeferredReadable
  <2>4. row' = [row EXCEPT ![s] = q]
    BY <1>5
  <2> HIDE DEF q
  <2> QED  BY <1>1, <1>2, <1>5, <2>3, <2>4, IdleFine, RoundMovesRow, ZenonT(30) DEF EndRound
<1> QED  BY <1>3, <1>4, <1>5 DEF Defer

LEMMA LockFine == ASSUME IInv, ConvInv, NEW w \in Workers, LockResult(w) PROVE ConvInv'
<1> DEFINE s == worker[w].claim.subject
<1>1. worker[w].pc = "record" /\ UNCHANGED <<clock, row>> /\ locked[s] = None
  BY DEF LockResult
<1>2. CASE EndRound(w) /\ UNCHANGED locked
  BY <1>1, <1>2, EndFine
<1>3. CASE /\ worker' = [worker EXCEPT ![w].pc = "recording"]
           /\ locked' = [locked EXCEPT ![s] = w]
           /\ ActiveClaim(w, clock)
  <2> DEFINE me == [worker[w] EXCEPT !.pc = "recording"]
  <2>1. worker' = [worker EXCEPT ![w] = me] /\ RoundFine(w, worker[w], row, locked, clock)
    BY <1>3 DEF IInv, ConvInv
  <2>2. /\ DOMAIN worker[w] = DOMAIN Idle /\ s \in Subjects /\ Readable(row[s])
        /\ row[s].registered /\ ClaimFine(worker[w].claim, row[s])
    BY <1>1, BusyFacts DEF Busy
  <2>3. /\ me.pc = "recording" /\ me.claim = worker[w].claim /\ me.result = worker[w].result
    BY <2>2 DEF Idle
  <2>4. row[s].generation = worker[w].claim.generation /\ row[s].lease.holder = w
    BY <1>3, <2>2, ActiveMeans
  <2>5. worker[w].result \in Results
    BY <1>1, <2>1 DEF RoundFine
  <2>6. DOMAIN locked' = Subjects /\ \A t \in Subjects : locked'[t] = IF t = s THEN w ELSE locked[t]
    BY <1>3, <2>2 DEF ConvInv
  <2> HIDE DEF me
  <2>7. RoundFine(w, me, row, locked', clock)
    BY <2>2, <2>3, <2>4, <2>5, <2>6 DEF RoundFine, Busy
  <2>8. \A t \in Subjects : Readable(row'[t]) /\ Advances(row[t], row'[t])
    BY <1>1, AdvancesSelf DEF ConvInv
  <2>9. \A v \in Workers \ {w}, t \in Subjects : LockKept(v, t)
    BY <1>1, <2>6 DEF LockKept
  <2> QED  BY <1>1, <2>1, <2>6, <2>7, <2>8, <2>9, RoundMoves, Zenon
<1> QED  BY <1>2, <1>3 DEF LockResult

LEMMA ResultReadable ==
    ASSUME NEW r, Readable(r), NEW x \in Results, NEW q,
           q = [r EXCEPT !.lease = NoLease, !.results = r.results \cup {x}]
    PROVE  Readable(q) /\ Advances(r, q)
<1>1. r \in Rows /\ NoLease \in Leases
  BY DEF Readable, NoLease, Leases
<1>2. r.results \cup {x} \in SUBSET Results
  BY <1>1 DEF Rows
<1>3. /\ q \in Rows /\ q.lease = NoLease /\ q.attempts = r.attempts /\ q.nextAt = r.nextAt
      /\ q.generation = r.generation /\ q.created = r.created /\ q.registered = r.registered
  BY <1>1, <1>2, Zenon DEF Rows
<1>4. r.generation \in Nat
  BY <1>1 DEF Rows
<1> QED  BY <1>3, <1>4 DEF Readable, DeadlineAt, Advances

LEMMA CommitFine == ASSUME IInv, ConvInv, NEW w \in Workers, CommitResult(w) PROVE ConvInv'
<1> DEFINE s == worker[w].claim.subject
           q == [row[s] EXCEPT !.lease = NoLease, !.results = row[s].results \cup {worker[w].result}]
<1>1. /\ worker[w].pc = "recording" /\ EndRound(w) /\ UNCHANGED clock
      /\ locked' = [locked EXCEPT ![s] = None]
  BY DEF CommitResult
<1>2. s \in Subjects /\ Readable(row[s])
  BY <1>1, BusyFacts DEF Busy
<1>3. worker[w].result \in Results /\ locked[s] = w
  BY <1>1 DEF ConvInv, RoundFine
<1>4. Readable(q) /\ Advances(row[s], q)
  BY <1>2, <1>3, ResultReadable, Zenon
<1>5. \A t \in Subjects : row'[t] = IF t = s THEN q ELSE row[t]
  BY <1>2, Zenon DEF CommitResult, IInv
<1> HIDE DEF q
<1>6. DOMAIN locked' = Subjects /\ \A t \in Subjects : locked'[t] = IF t = s THEN None ELSE locked[t]
  BY <1>1, <1>2 DEF ConvInv
<1>7. \A t \in Subjects : Readable(row'[t]) /\ Advances(row[t], row'[t])
  BY <1>4, <1>5, AdvancesSelf DEF ConvInv
<1>8. \A v \in Workers \ {w}, t \in Subjects : LockKept(v, t)
  BY <1>3, <1>5, <1>6 DEF LockKept
<1> QED  BY <1>1, <1>6, <1>7, <1>8, IdleFine, RoundMoves, Zenon DEF EndRound

LEMMA CrashFine == ASSUME IInv, ConvInv, NEW w \in Workers, Crash(w) PROVE ConvInv'
<1>1. /\ EndRound(w) /\ UNCHANGED <<clock, row>>
      /\ locked' = [s \in Subjects |-> IF locked[s] = w THEN None ELSE locked[s]]
  BY DEF Crash
<1>2. \A t \in Subjects : Readable(row'[t]) /\ Advances(row[t], row'[t])
  BY <1>1, AdvancesSelf DEF ConvInv
<1>3. \A v \in Workers \ {w}, t \in Subjects : LockKept(v, t)
  BY <1>1 DEF LockKept
<1> QED  BY <1>1, <1>2, <1>3, IdleFine, RoundMoves, Zenon DEF EndRound

LEMMA ConvInvariance == Spec => [](IInv /\ ConvInv)
<1>1. IInv /\ ConvInv /\ [Next]_vars => ConvInv'
  <2> SUFFICES ASSUME IInv, ConvInv, [Next]_vars PROVE ConvInv'
    OBVIOUS
  <2>1. CASE UNCHANGED vars
    BY <2>1 DEF vars, ConvInv
  <2>2. CASE Tick
    <3>1. clock' = clock + 1 /\ UNCHANGED <<row, locked, worker>> /\ clock \in Nat
      BY <2>2 DEF Tick, ConvInv
    <3>2. clock' \in Nat /\ clock <= clock'
      BY <3>1
    <3>3. \A s \in Subjects : Readable(row'[s]) /\ Advances(row[s], row'[s])
      <4>1. \A n \in Nat : n <= n
        OBVIOUS
      <4>2. \A s \in Subjects : Readable(row[s]) /\ row[s].generation \in Nat
        BY ReadableInts, Zenon DEF ConvInv
      <4> QED  BY <3>1, <4>1, <4>2, Zenon DEF Advances
    <3>4. ASSUME NEW v \in Workers PROVE RoundFine(v, worker'[v], row', locked', clock')
      <4>1. \A s \in Subjects : LockKept(v, s)
        BY <3>1 DEF LockKept
      <4>2. RoundFine(v, worker[v], row', locked', clock')
        BY <3>2, <3>3, <4>1, OtherFine
      <4> QED  BY <3>1, <4>2
    <3> QED  BY <3>1, <3>2, <3>3, <3>4 DEF ConvInv
  <2>3. ASSUME NEW s \in Subjects, Register(s) PROVE ConvInv'
    BY <2>3, RegisterFine
  <2>4. ASSUME NEW w \in Workers, Round(w) PROVE ConvInv'
    BY <2>4, ScanFine, ClaimingFine, PollFine, LoadFine, AppendFine, ConcludeFine, DeferFine,
       LockFine, CommitFine DEF Round
  <2>5. ASSUME NEW w \in Workers, Crash(w) PROVE ConvInv'
    BY <2>5, CrashFine
  <2> QED  BY <2>1, <2>2, <2>3, <2>4, <2>5 DEF Next
<1> QED  BY <1>1, InitIInv, NextIInv, ConvInit, PTL DEF Spec

(* A stored row can always be read back, for every policy, number of        *)
(* replicas and subjects and any clock skew, and a round that defers with   *)
(* its claim active has attempts left: neither                              *)
(* ReconciliationConvergenceState.__post_init__ nor                         *)
(* defer_reconciliation_claim raises.                                       *)
THEOREM RowsReadBack == Spec => []RowsReadable
<1>1. IInv /\ ConvInv => RowsReadable
  <2> SUFFICES ASSUME IInv, ConvInv PROVE RowsReadable
    OBVIOUS
  <2>1. \A s \in Subjects : Readable(row[s])
    BY DEF ConvInv
  <2>2. ASSUME NEW w \in Workers, worker[w].pc = "defer", ActiveClaim(w, clock)
        PROVE  row[worker[w].claim.subject].attempts < MaxAttempts
    <3>1. worker[w].claim.attempts < MaxAttempts
      BY <2>2 DEF ConvInv, RoundFine
    <3>2. ClaimFine(worker[w].claim, row[worker[w].claim.subject])
      BY <2>2, BusyFacts DEF Busy
    <3> QED  BY <2>2, <3>1, <3>2 DEF ActiveClaim, ClaimFine
  <2> QED  BY <2>1, <2>2 DEF RowsReadable, Readable
<1> QED  BY <1>1, ConvInvariance, PTL

(* What a write to the evidence, schedule or results of a row needs. *)
OwnedWrite(s) ==
    LET r == row[s]
        q == row'[s]
    IN  (q.observed # r.observed \/ q.results # r.results \/ q.nextAt # r.nextAt) /\ r.registered
        => \E w \in Workers :
              /\ worker[w].claim.subject = s
              /\ worker[w].claim.generation = r.generation
              /\ r.lease.holder = w
              /\ worker'[w] # worker[w]

(* The three writes; every other step leaves what they write. *)
LEMMA WritesOwned ==
    ASSUME IInv, ConvInv, Next, NEW s \in Subjects
    PROVE  OwnedWrite(s)
<1>0. RowSound(row[s]) /\ DOMAIN row = Subjects /\ DOMAIN worker = Workers
  BY DEF IInv
<1>1. ASSUME row' = row PROVE OwnedWrite(s)
  BY <1>1 DEF OwnedWrite
<1>2. ASSUME NEW t \in Subjects, Register(t) PROVE OwnedWrite(s)
  <2>1. ~row[t].registered /\ \E now : row' = [row EXCEPT ![t] = InitialRow(now)]
    BY <1>2, Zenon DEF Register
  <2>2. s # t => row'[s] = row[s]
    BY <1>0, <2>1
  <2> QED  BY <2>1, <2>2 DEF OwnedWrite
<1>3. ASSUME NEW w \in Workers, ClaimLocked(w) PROVE OwnedWrite(s)
  <2>1. row' = row \/ \E t : row' = [row EXCEPT ![t] = Acquired(row[t], w, clock)]
    BY <1>3, Zenon DEF ClaimLocked
  <2>2. row' # row => row'[s] \in {row[s], Acquired(row[s], w, clock)}
    BY <1>0, <2>1
  <2>3. /\ Acquired(row[s], w, clock).observed = row[s].observed
        /\ Acquired(row[s], w, clock).results = row[s].results
        /\ Acquired(row[s], w, clock).nextAt = row[s].nextAt
    BY <1>0 DEF Acquired, RowSound, NoRow
  <2> QED  BY <1>1, <2>2, <2>3 DEF OwnedWrite
<1>4. ASSUME NEW w \in Workers, NEW t, t = worker[w].claim.subject, NEW q,
             row' = [row EXCEPT ![t] = q], worker'[w] # worker[w],
             row[t].generation = worker[w].claim.generation, row[t].lease.holder = w
      PROVE  OwnedWrite(s)
  <2>1. CASE s = t
    BY <1>4, <2>1, Zenon DEF OwnedWrite
  <2>2. CASE s # t
    BY <1>0, <1>4, <2>2 DEF OwnedWrite
  <2> QED  BY <2>1, <2>2
<1>5. ASSUME NEW w \in Workers, NEW o \in Observations, AppendObservation(w, o) PROVE OwnedWrite(s)
  <2> DEFINE t == worker[w].claim.subject
             me == [worker[w] EXCEPT !.toAppend = worker[w].toAppend \ {o},
                                     !.snapshot = row[t].observed \cup {o}]
  <2>1. worker[w].pc = "append" /\ o \in worker[w].toAppend
    BY <1>5 DEF AppendObservation
  <2>2. t \in Subjects /\ DOMAIN worker[w] = DOMAIN Idle /\ Readable(row[t]) /\ row[t].registered
    BY <2>1, BusyFacts DEF Busy
  <2>3. ASSUME row' # row
        PROVE  /\ row' = [row EXCEPT ![t].observed = @ \cup {o}]
               /\ worker' = [worker EXCEPT ![w] = me] /\ ActiveClaim(w, clock)
    BY <1>0, <1>5, <2>3 DEF AppendObservation
  <2>4. ASSUME row' # row PROVE OwnedWrite(s)
    <3>1. row' = [row EXCEPT ![t] = [row[t] EXCEPT !.observed = row[t].observed \cup {o}]]
      BY <1>0, <2>2, <2>3, <2>4
    <3>2. me.toAppend = worker[w].toAppend \ {o}
      BY <2>2 DEF Idle
    <3>3. worker'[w] = me
      BY <1>0, <2>3, <2>4
    <3>4. worker'[w] # worker[w]
      BY <2>1, <3>2, <3>3, Zenon
    <3>5. row[t].generation = worker[w].claim.generation /\ row[t].lease.holder = w
      BY <2>2, <2>3, <2>4, ActiveMeans
    <3> QED  BY <1>4, <3>1, <3>4, <3>5, Zenon
  <2> QED  BY <1>1, <2>4
<1>6. ASSUME NEW w \in Workers, Defer(w) PROVE OwnedWrite(s)
  <2> DEFINE t == worker[w].claim.subject
  <2>1. worker[w].pc = "defer"
    BY <1>6 DEF Defer
  <2>2. t \in Subjects /\ Readable(row[t]) /\ row[t].registered
    BY <2>1, BusyFacts DEF Busy
  <2>3. ASSUME row' # row
        PROVE  /\ \E delay : row' = [row EXCEPT ![t] = Deferred(row[t], clock, delay)]
               /\ EndRound(w) /\ ActiveClaim(w, clock)
    BY <1>6, <2>3 DEF Defer
  <2>4. ASSUME row' # row PROVE OwnedWrite(s)
    <3>1. worker'[w] = Idle /\ Idle.pc = "idle"
      BY <1>0, <2>3, <2>4 DEF EndRound, Idle
    <3>2. worker'[w] # worker[w]
      BY <2>1, <3>1
    <3>3. row[t].generation = worker[w].claim.generation /\ row[t].lease.holder = w
      BY <2>2, <2>3, <2>4, ActiveMeans
    <3> QED  BY <1>4, <2>3, <2>4, <3>2, <3>3
  <2> QED  BY <1>1, <2>4
<1>7. ASSUME NEW w \in Workers, CommitResult(w) PROVE OwnedWrite(s)
  <2> DEFINE t == worker[w].claim.subject
  <2>1. worker[w].pc = "recording" /\ EndRound(w)
    BY <1>7 DEF CommitResult
  <2>2. t \in Subjects
    BY <2>1, BusyFacts DEF Busy
  <2>3. row[t].generation = worker[w].claim.generation /\ row[t].lease.holder = w
    BY <2>1 DEF ConvInv, RoundFine
  <2>4. worker'[w] = Idle /\ Idle.pc = "idle"
    BY <1>0, <2>1 DEF EndRound, Idle
  <2>5. worker'[w] # worker[w]
    BY <2>1, <2>4
  <2>6. row' = [row EXCEPT ![t] = [row[t] EXCEPT !.lease = NoLease,
                                                 !.results = row[t].results \cup {worker[w].result}]]
    BY <1>0, <1>7, <2>2, Zenon DEF CommitResult
  <2> QED  BY <1>4, <2>3, <2>5, <2>6, Zenon
<1>8. ASSUME NEW w \in Workers, Round(w) \/ Crash(w) PROVE OwnedWrite(s)
  <2>1. \/ row' = row \/ ClaimLocked(w) \/ Defer(w) \/ CommitResult(w)
        \/ \E o \in Observations : AppendObservation(w, o)
    BY <1>8, Zenon DEF Round, Crash, ScanDue, FailTerminalClaim, PollUnavailable, PollAmbiguous,
       PollObserves, LoadSnapshot, Conclude, LockResult
  <2> QED  BY <1>1, <1>3, <1>5, <1>6, <1>7, <2>1
<1> QED  BY <1>1, <1>2, <1>8 DEF Next, Tick

(* A stale owner is fenced out: evidence, schedule and results of a         *)
(* registered subject change only by the round whose claim is the row's     *)
(* latest (reconciliation_claim_is_active under the row lock), in every     *)
(* interleaving of claims, expiries, crashes and late writes.               *)
THEOREM StaleOwnersStopped == Spec => StaleOwnersFenced
<1> DEFINE Owned == \A s \in Subjects : OwnedWrite(s)
<1>1. IInv /\ ConvInv /\ [Next]_vars => [Owned]_vars
  BY WritesOwned
<1>2. Spec => [][Owned]_vars
  BY <1>1, ConvInvariance, PTL DEF Spec
<1> QED  BY <1>2 DEF StaleOwnersFenced, OwnedWrite

============================================================================
