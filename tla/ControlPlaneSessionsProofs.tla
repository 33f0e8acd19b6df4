--------------------- MODULE ControlPlaneSessionsProofs ---------------------
(***************************************************************************)
(* What holds of the administrator sessions and of the activity journal    *)
(* for every number of logins, clients and deliveries, and for every       *)
(* limit, retention and clock difference.                                  *)
(*                                                                         *)
(* Everything rests on the activity lock: from its statements to its end a *)
(* transaction has the tables to itself (LockHeld), so what its statements *)
(* computed from the tables is still true of them when it commits          *)
(* (ChangeFine).                                                           *)
(***************************************************************************)
EXTENDS ControlPlaneSessions, FiniteSetTheorems, TLAPS

(* What the steps below need of the order of numbers. *)
LEMMA Sums == \A m, n \in Nat : m + n \in Nat /\ m <= m + n
  OBVIOUS

LEMMA Ordered == \A k, m, n \in Nat : k <= m /\ m <= n => k <= n
  OBVIOUS

LEMMA Ranked == \A k, m, n \in Nat : k < m /\ m <= n => m \in 1 .. n
  OBVIOUS

LEMMA Longer ==
    ASSUME NEW m \in Nat, NEW n \in Nat, m <= n
    PROVE  (\A x \in 1 .. m : x \in 1 .. n) /\ (\A x \in 0 .. m : x \in 0 .. n)
  OBVIOUS

LEMMA Ranges == \A n \in Nat : n \in 0 .. n /\ \A x : x \in 0 .. n \/ x \in 1 .. n => x \in Int
  OBVIOUS

LEMMA Later == \A n \in Nat : n + 1 \in Nat /\ n <= n + 1 /\ \A x \in Int : x <= n => x <= n + 1
  OBVIOUS

Steps == {"idle", "issued", "locked", "expired", "admitted", "written", "done", "applied", "replayed"}

SessionRows == [handle : Handles, issued : Nat, expires : Nat]

(* An EXCEPT or a comparison of the fields of a walk needs their types. *)
Walks == [pc : {"idle", "first", "reading", "more", "done"}, first : Nat, now : Nat,
          through : Nat, before : Nat, items : SUBSET Nat]

(* The end of s among those that a transaction ends. *)
Rank(ended, s) == Cardinality({t \in ended : t.handle <= s.handle})

EndRow(ended, s) ==
    [sequence |-> sequence + Rank(ended, s), who |-> IdentityOf[s.handle], action |-> "end",
     at |-> clock]

LoginRow(ended, s) ==
    [sequence |-> sequence + Cardinality(ended) + 1, who |-> IdentityOf[s.handle],
     action |-> "login", at |-> clock]

Single(rows) == rows = {} \/ \E s : rows = {s}

(* The rows are numbered from the next sequence number on, at this time. *)
Numbered(rows) ==
    \A e \in rows : /\ e.sequence \in Nat /\ e.at = clock
                    /\ sequence < e.sequence /\ e.sequence <= sequence + Cardinality(rows)

(* A set of sessions in which a handle occurs once, as in the table. *)
Distinct(rows) ==
    /\ rows \in SUBSET SessionRows /\ IsFiniteSet(rows)
    /\ \A s, t \in rows : s.handle = t.handle => s = t

----------------------------------------------------------------------------
(* Lemmas about the operators of the model. *)

LEMMA LeastOf ==
    ASSUME NEW S \in SUBSET Nat, S # {}
    PROVE  Min(S) \in S /\ \A i \in S : Min(S) <= i
<1>1. \E x \in S : \A y \in S : ~(<<y, x>> \in OpToRel(<, Nat))
  BY NatLessThanWellFounded, WFMin, Zenon
<1>2. PICK x \in S : \A y \in S : ~(<<y, x>> \in OpToRel(<, Nat))
  BY <1>1
<1>3. \A y \in S : x <= y
  <2> SUFFICES ASSUME NEW y \in S, ~(x <= y) PROVE FALSE
    OBVIOUS
  <2>1. x \in Nat /\ y \in Nat /\ y < x
    OBVIOUS
  <2>2. <<y, x>> \in OpToRel(<, Nat)
    BY <2>1 DEF OpToRel
  <2> QED  BY <1>2, <2>2
<1> QED  BY <1>3, Zenon DEF Min

(* A bounded set of numbers has a greatest one. *)
LEMMA GreatestOf ==
    ASSUME NEW n \in Nat, NEW S \in SUBSET (0 .. n), S # {}
    PROVE  Max(S) \in S /\ \A i \in S : i <= Max(S)
<1> DEFINE D == {n - x : x \in S}
<1>1. D \in SUBSET Nat /\ D # {}
  <2>1. \A x \in S : n - x \in Nat
    OBVIOUS
  <2> QED  BY <2>1, Zenon
<1>2. PICK x \in S : Min(D) = n - x
  BY <1>1, LeastOf, Zenon
<1>3. \A y \in S : y <= x
  <2> SUFFICES ASSUME NEW y \in S PROVE y <= x
    OBVIOUS
  <2>1. n - y \in D
    OBVIOUS
  <2>2. n - x <= n - y
    BY <1>1, <1>2, <2>1, LeastOf
  <2> QED  BY <2>2
<1>4. \A y \in S : x >= y
  BY <1>3
<1> QED  BY <1>4, Zenon DEF Max

LEMMA RankBounds ==
    ASSUME NEW ended, Distinct(ended), NEW s \in ended
    PROVE  Rank(ended, s) \in 1 .. Cardinality(ended)
<1> DEFINE B == {t \in ended : t.handle <= s.handle}
<1>1. IsFiniteSet(B) /\ Cardinality(B) <= Cardinality(ended)
  BY FS_Subset DEF Distinct
<1>2. s.handle \in Int
  BY DEF Distinct, SessionRows, Handles
<1>3. s \in B
  BY <1>2
<1>4. Cardinality(B) \in Nat /\ Cardinality(ended) \in Nat /\ Cardinality(B) # 0
  BY <1>1, <1>3, FS_CardinalityType, FS_EmptySet DEF Distinct
<1> QED  BY <1>1, <1>4 DEF Rank

LEMMA RankInjective ==
    ASSUME NEW ended, Distinct(ended), NEW s \in ended, NEW t \in ended,
           Rank(ended, s) = Rank(ended, t)
    PROVE  s = t
<1>1. \A x \in ended : x.handle \in Int
  BY DEF Distinct, SessionRows, Handles
<1>2. ASSUME NEW x \in ended, NEW y \in ended, x.handle < y.handle, Rank(ended, x) = Rank(ended, y)
      PROVE  FALSE
  <2> DEFINE X == {z \in ended : z.handle <= x.handle}
             Y == {z \in ended : z.handle <= y.handle}
  <2>1. X \in SUBSET Y
    <3> SUFFICES ASSUME NEW z \in ended, z.handle <= x.handle PROVE z.handle <= y.handle
      OBVIOUS
    <3> QED  BY <1>1, <1>2
  <2>2. y \in Y /\ y \notin X
    BY <1>1, <1>2
  <2>3. IsFiniteSet(Y)
    BY FS_Subset DEF Distinct
  <2>4. Cardinality(X) = Cardinality(Y)
    BY <1>2 DEF Rank
  <2> HIDE DEF X, Y
  <2> QED  BY <2>1, <2>2, <2>3, <2>4, FS_Subset
<1>3. s.handle = t.handle
  <2>1. ~(s.handle < t.handle) /\ ~(t.handle < s.handle)
    BY <1>2
  <2> QED  BY <1>1, <2>1
<1> QED  BY <1>3 DEF Distinct

(* As many rows as sessions. *)
LEMMA EndRowsCount ==
    ASSUME NEW ended, Distinct(ended), NEW A \in SUBSET ended, sequence \in Nat
    PROVE  /\ IsFiniteSet({EndRow(ended, s) : s \in A})
           /\ Cardinality({EndRow(ended, s) : s \in A}) = Cardinality(A)
<1> DEFINE R == {EndRow(ended, s) : s \in A}
           f == [s \in A |-> EndRow(ended, s)]
<1>1. IsFiniteSet(A)
  BY FS_Subset DEF Distinct
<1>2. ASSUME NEW s \in A, NEW t \in A, f[s] = f[t] PROVE s = t
  <2>1. sequence + Rank(ended, s) = sequence + Rank(ended, t)
    BY <1>2 DEF EndRow
  <2>2. Rank(ended, s) \in Nat /\ Rank(ended, t) \in Nat
    BY RankBounds
  <2>3. Rank(ended, s) = Rank(ended, t)
    BY <2>1, <2>2
  <2> QED  BY <2>3, RankInjective
<1>3. f \in Bijection(A, R)
  BY <1>2 DEF Bijection, Injection, Surjection, IsInjective
<1>4. ExistsBijection(A, R)
  BY <1>3 DEF ExistsBijection
<1> QED  BY <1>1, <1>4, FS_Bijection

(* The rows of a journal entry: numbered from the next sequence number on,  *)
(* one end for each session that ends and one login for the one that starts. *)
LEMMA JournalFine ==
    ASSUME NEW ended, Distinct(ended), NEW started, sequence \in Nat, clock \in Nat,
           Single(started)
    PROVE  /\ Cardinality(Journal(ended, started)) \in Nat
           /\ Numbered(Journal(ended, started))
           /\ \A i : /\ Cardinality(Of(Journal(ended, started), i, "login"))
                           = Cardinality(HeldBy(started, i))
                     /\ Cardinality(Of(Journal(ended, started), i, "end"))
                           = Cardinality(HeldBy(ended, i))
<1> DEFINE ends == {EndRow(ended, s) : s \in ended}
           logins == {LoginRow(ended, s) : s \in started}
<1>1. Journal(ended, started) = ends \cup logins
  BY DEF Journal, EndRow, LoginRow, Rank
<1>2. IsFiniteSet(ends) /\ Cardinality(ends) = Cardinality(ended) /\ Cardinality(ended) \in Nat
  BY EndRowsCount, FS_CardinalityType, Zenon DEF Distinct
<1>3. /\ IsFiniteSet(logins) /\ Cardinality(logins) = Cardinality(started)
      /\ Cardinality(started) \in {0, 1} /\ (Cardinality(started) = 0 => started = {})
  <2>1. CASE started = {}
    <3>1. logins = {}
      BY <2>1
    <3> QED  BY <2>1, <3>1, FS_EmptySet
  <2>2. ASSUME NEW s, started = {s} PROVE <1>3!:
    <3>1. logins = {LoginRow(ended, s)}
      BY <2>2
    <3>2. Cardinality({LoginRow(ended, s)}) = 1 /\ IsFiniteSet({LoginRow(ended, s)}) /\ Cardinality({s}) = 1
      BY FS_Singleton, Zenon
    <3> QED  BY <2>2, <3>1, <3>2
  <2> QED  BY <2>1, <2>2 DEF Single
<1>4. ends \cap logins = {}
  BY DEF EndRow, LoginRow
<1>5. Cardinality(ends \cup logins) = Cardinality(ended) + Cardinality(started)
  <2> HIDE DEF ends, logins
  <2>1. Cardinality(ends \cup logins) = Cardinality(ends) + Cardinality(logins) - Cardinality({})
    BY <1>2, <1>3, <1>4, FS_Union
  <2> QED  BY <1>2, <1>3, <2>1, FS_EmptySet
<1>6. ASSUME NEW e \in ends \cup logins
      PROVE  /\ e.sequence \in Nat /\ e.at = clock /\ sequence < e.sequence
             /\ e.sequence <= sequence + (Cardinality(ended) + Cardinality(started))
  <2>1. CASE e \in ends
    <3>1. PICK s \in ended : e = EndRow(ended, s)
      BY <2>1
    <3>2. e.sequence = sequence + Rank(ended, s) /\ e.at = clock
      BY <3>1 DEF EndRow
    <3>3. Rank(ended, s) \in 1 .. Cardinality(ended)
      BY RankBounds
    <3> QED  BY <1>2, <1>3, <3>2, <3>3
  <2>2. CASE e \in logins
    <3>1. PICK s \in started : e = LoginRow(ended, s)
      BY <2>2
    <3>2. e.sequence = sequence + Cardinality(ended) + 1 /\ e.at = clock
      BY <3>1 DEF LoginRow
    <3>3. Cardinality(started) = 1
      BY <1>3, <3>1
    <3> QED  BY <1>2, <3>2, <3>3
  <2> QED  BY <2>1, <2>2
<1>7. ASSUME NEW i
      PROVE  Cardinality(Of(ends \cup logins, i, "login")) = Cardinality(HeldBy(started, i))
  <2>1. Of(ends \cup logins, i, "login") = {LoginRow(ended, s) : s \in HeldBy(started, i)}
    BY DEF Of, EndRow, LoginRow, HeldBy
  <2>2. CASE HeldBy(started, i) = {}
    <3>1. {LoginRow(ended, s) : s \in HeldBy(started, i)} = {}
      BY <2>2
    <3> QED  BY <2>1, <2>2, <3>1
  <2>3. CASE HeldBy(started, i) # {}
    <3>1. PICK s : HeldBy(started, i) = {s}
      BY <2>3 DEF HeldBy, Single
    <3>2. {LoginRow(ended, x) : x \in HeldBy(started, i)} = {LoginRow(ended, s)}
      BY <3>1
    <3> QED  BY <2>1, <3>1, <3>2, FS_Singleton, Zenon
  <2> QED  BY <2>2, <2>3
<1>8. ASSUME NEW i
      PROVE  Cardinality(Of(ends \cup logins, i, "end")) = Cardinality(HeldBy(ended, i))
  <2>1. Of(ends \cup logins, i, "end") = {EndRow(ended, s) : s \in HeldBy(ended, i)}
    BY DEF Of, EndRow, LoginRow, HeldBy
  <2>2. HeldBy(ended, i) \in SUBSET ended
    BY DEF HeldBy
  <2> QED  BY <2>1, <2>2, EndRowsCount
<1>9. Cardinality(ended) + Cardinality(started) \in Nat
  BY <1>2, <1>3
<1> HIDE DEF ends, logins
<1>10. Numbered(ends \cup logins)
  BY <1>5, <1>6 DEF Numbered
<1> QED  BY <1>1, <1>5, <1>7, <1>8, <1>9, <1>10, Zenon

(* Of a set of sessions in which every one has fewer than k newer ones,     *)
(* there are at most k: the oldest has all the others before it.            *)
LEMMA NewestFew ==
    ASSUME NEW rows, Distinct(rows), NEW k \in Nat,
           NEW kept \in SUBSET rows,
           \A t \in kept : Cardinality({s \in rows : Newer(s, t)}) < k
    PROVE  Cardinality(kept) <= k
<1>1. IsFiniteSet(kept) /\ IsFiniteSet(rows) /\ \A s \in rows : s.issued \in Nat /\ s.handle \in Nat
  BY FS_Subset DEF Distinct, SessionRows, Handles
<1>2. CASE kept = {}
  BY <1>2, FS_EmptySet
<1>3. CASE kept # {}
  <2> DEFINE issues == {s.issued : s \in kept}
  <2>1. PICK a \in issues : \A i \in issues : a <= i
    <3>1. issues \in SUBSET Nat /\ issues # {}
      BY <1>1, <1>3
    <3> QED  BY <3>1, LeastOf, Zenon
  <2> DEFINE handles == {s.handle : s \in {t \in kept : t.issued = a}}
  <2>2. PICK b \in handles : \A i \in handles : b <= i
    <3>1. handles \in SUBSET Nat /\ handles # {}
      BY <1>1, <2>1
    <3> QED  BY <3>1, LeastOf, Zenon
  <2>3. PICK t \in kept : t.issued = a /\ t.handle = b
    BY <2>2
  <2> DEFINE N == {s \in rows : Newer(s, t)}
  <2>4. ASSUME NEW s \in kept, s # t PROVE s \in N
    <3>1. /\ a <= s.issued /\ (s.issued = a => b <= s.handle /\ s.handle # b)
          /\ a \in Nat /\ b \in Nat /\ s.issued \in Nat /\ s.handle \in Nat
      BY <1>1, <2>1, <2>2, <2>3, <2>4 DEF Distinct
    <3> QED  BY <2>3, <3>1 DEF Newer
  <2>5. kept \ {t} \in SUBSET N /\ IsFiniteSet(N)
    BY <1>1, <2>4, FS_Subset
  <2>6. /\ Cardinality(kept \ {t}) = Cardinality(kept) - 1
        /\ Cardinality(kept \ {t}) <= Cardinality(N)
    BY <1>1, <2>5, FS_RemoveElement, FS_Subset
  <2>7. Cardinality(N) < k /\ Cardinality(N) \in Nat /\ Cardinality(kept) \in Nat
    BY <1>1, <2>5, FS_CardinalityType
  <2> QED  BY <2>6, <2>7
<1> QED  BY <1>2, <1>3

(* An identity's sessions, once the overflow has ended. *)
LEMMA OverflowLeaves ==
    ASSUME NEW rows, Distinct(rows), NEW i, MaxSessions \in Nat \ {0}
    PROVE  Cardinality(HeldBy(rows \ Overflow(rows, i), i)) <= MaxSessions - 1
<1> DEFINE held == HeldBy(rows, i)
           kept == HeldBy(rows \ Overflow(rows, i), i)
<1>1. Distinct(held) /\ kept \in SUBSET held
  BY FS_Subset DEF Distinct, HeldBy
<1>2. \A t \in kept : ~(Cardinality({s \in held : Newer(s, t)}) >= MaxSessions - 1)
  BY DEF HeldBy, Overflow
<1>3. \A t \in kept : Cardinality({s \in held : Newer(s, t)}) \in Nat
  BY <1>1, FS_Subset, FS_CardinalityType DEF Distinct
<1>4. MaxSessions - 1 \in Nat
  OBVIOUS
<1>5. \A t \in kept : Cardinality({s \in held : Newer(s, t)}) < MaxSessions - 1
  <2> SUFFICES ASSUME NEW t \in kept
               PROVE  Cardinality({s \in held : Newer(s, t)}) < MaxSessions - 1
    OBVIOUS
  <2>1. PICK c : c = Cardinality({s \in held : Newer(s, t)})
    OBVIOUS
  <2>2. c \in Nat /\ ~(c >= MaxSessions - 1)
    BY <1>2, <1>3, <2>1
  <2>3. c < MaxSessions - 1
    BY <1>4, <2>2
  <2> QED  BY <2>1, <2>3
<1> HIDE DEF held, kept
<1>6. Cardinality(kept) <= MaxSessions - 1
  BY <1>1, <1>4, <1>5, NewestFew
<1> QED  BY <1>6 DEF kept

(* The numbers of a set that fit on a page, from the top. *)
Top(S) == {n \in S : Cardinality({m \in S : m >= n}) <= PageLimit}

(* What a page leaves for later lies below all of it. *)
LEMMA PageIsTop ==
    ASSUME NEW n \in Nat, NEW S \in SUBSET (1 .. n), S # {}, PageLimit \in Nat \ {0}
    PROVE  /\ Top(S) \in SUBSET S /\ Min(Top(S)) \in Top(S)
           /\ \A m \in S \ Top(S) : m < Min(Top(S))
<1>1. IsFiniteSet(S)
  <2>1. IsFiniteSet(1 .. n)
    BY FS_Interval
  <2> QED  BY <2>1, FS_Subset, Zenon
<1>2. S \in SUBSET Nat /\ Max(S) \in S /\ \A i \in S : i <= Max(S)
  <2>1. \A x \in 1 .. n : x \in 0 .. n /\ x \in Nat
    OBVIOUS
  <2>2. S \in SUBSET (0 .. n)
    BY <2>1
  <2> QED  BY <2>1, <2>2, GreatestOf
<1>3. {m \in S : m >= Max(S)} = {Max(S)}
  <2>1. PICK x \in Nat : x = Max(S)
    BY <1>2, Zenon
  <2>2. \A m \in S : m >= x <=> m = x
    BY <1>2, <2>1
  <2> QED  BY <1>2, <2>1, <2>2, Zenon
<1>4. Max(S) \in Top(S)
  <2>1. Cardinality({Max(S)}) = 1
    BY FS_Singleton
  <2> QED  BY <1>2, <1>3, <2>1 DEF Top
<1>5. Top(S) \in SUBSET S /\ Top(S) \in SUBSET Nat
  BY <1>2, Zenon DEF Top
<1>6. Min(Top(S)) \in Top(S)
  BY <1>4, <1>5, LeastOf
<1>7. ASSUME NEW m \in S \ Top(S), ~(m < Min(Top(S))) PROVE FALSE
  <2>1. PICK l \in Top(S) : l = Min(Top(S))
    BY <1>6
  <2>2. l \in Nat /\ m \in Nat /\ m >= l
    BY <1>7, <2>1, <1>5
  <2> DEFINE above == {x \in S : x >= m}
             over == {x \in S : x >= l}
  <2>3. above \in SUBSET over
    <3> SUFFICES ASSUME NEW x \in S, x >= m PROVE x >= l
      BY Zenon
    <3>1. x \in Nat
      BY <1>2
    <3> QED  BY <2>2, <3>1
  <2>4. IsFiniteSet(over) /\ IsFiniteSet(above)
    BY <1>1, FS_Subset
  <2>5. Cardinality(over) <= PageLimit
    BY DEF Top
  <2>6. ~(Cardinality(above) <= PageLimit)
    BY <1>7 DEF Top
  <2> HIDE DEF above, over
  <2>7. Cardinality(above) <= Cardinality(over)
    BY <2>3, <2>4, FS_Subset
  <2>8. Cardinality(above) \in Nat /\ Cardinality(over) \in Nat
    BY <2>4, FS_CardinalityType
  <2> QED  BY <2>5, <2>6, <2>7, <2>8
<1> QED  BY <1>5, <1>6, <1>7

----------------------------------------------------------------------------
(* The inductive invariant. *)

Tables ==
    /\ clock \in Nat /\ sequence \in Nat
    /\ Distinct(sessions)
    /\ \A e \in events : e.sequence \in 1 .. sequence /\ e.at \in 0 .. clock
    /\ \A r \in replays : r.until = RetainedUntil

Processing ==
    /\ pc \in [Processes -> [step : Steps, session : SessionRows \cup {None}]]
    /\ pending = [p \in Processes |-> pending[p]]
    /\ \A p \in Processes : pc[p].step \in {"issued", "locked"} =>
          pc[p].session \in SessionRows /\ pc[p].session.handle = p

(* From its statements to its end a transaction keeps the activity lock. *)
LockHeld ==
    /\ lock \in Processes \cup {None}
    /\ \A p \in Processes : pc[p].step \in {"locked", "written"} => lock = p

(* A handle is in the table only when its login is over. *)
LoginsOver == \A s \in sessions : pc[s.handle].step = "done"

FewSessions(rows) == \A i \in Identities : Cardinality(HeldBy(rows, i)) <= MaxSessions

(* What the journal rows of a change record of it. *)
Balanced(c) ==
    \A i \in Identities :
        /\ Cardinality(Of(c.journal, i, "login")) = Cardinality(HeldBy(c.started, i))
        /\ Cardinality(Of(c.journal, i, "end")) = Cardinality(HeldBy(c.ended, i))

(* A token is consumed when no delivery of it has been applied, together    *)
(* with every session it selects.                                           *)
ConsumesFine(p, c) ==
    c.consumed # {} =>
        /\ p \in Deliveries /\ c.started = {}
        /\ c.consumed = {[token |-> TokenOf[p], until |-> RetainedUntil]}
        /\ \A s \in sessions : s.handle \in TargetOf[TokenOf[p]] => s \in c.ended
        /\ \A o \in Deliveries : TokenOf[o] = TokenOf[p] => pc[o].step # "applied"

Walking == reader.pc \in {"reading", "more", "done"}

(* The rows of a change are newer than the journal and than every watermark. *)
JournalAhead(c) ==
    \A e \in c.journal :
        /\ e.sequence \in 1 .. sequence /\ e.at \in 0 .. clock
        /\ \A f \in events : f.sequence < e.sequence
        /\ Walking => reader.through < e.sequence

SessionsMove(p, c) ==
    /\ c.ended \in SUBSET sessions
    /\ c.started \in SUBSET {s \in SessionRows : s.handle = p}
    /\ \A s, t \in c.started : s = t
    /\ FewSessions((sessions \ c.ended) \cup c.started)

ChangeFine(p, c) ==
    /\ SessionsMove(p, c) /\ Balanced(c) /\ JournalAhead(c) /\ ConsumesFine(p, c)
    /\ c.dropped \in SUBSET {r \in replays : r.until <= clock}

(* A delivery that was applied has left its replay row, or its token is no  *)
(* longer consumable.                                                       *)
AppliedLast ==
    \A o \in Deliveries : pc[o].step = "applied" =>
        RetainedUntil <= clock \/ \E r \in replays : r.token = TokenOf[o]

(* An event that a finished walk must hold. *)
Wanted(e) == e.sequence <= reader.through /\ e.at < reader.first /\ clock < e.at + Retention

WalkFine ==
    /\ reader \in Walks /\ reader.now <= clock /\ reader.first <= reader.now
    /\ reader.pc \in {"idle", "first"} => reader.before = 0
    /\ Walking =>
          /\ reader.through <= sequence
          /\ \A e \in events : Wanted(e) =>
                \/ e.sequence \in reader.items
                \/ reader.pc # "done" /\ (reader.before = 0 \/ e.sequence < reader.before)

SInv ==
    /\ Tables /\ Processing /\ LockHeld /\ LoginsOver /\ FewSessions(sessions)
    /\ \A p \in Processes : pc[p].step = "written" => \E c \in {pending[p]} : ChangeFine(p, c)
    /\ AppliedLast /\ WalkFine

----------------------------------------------------------------------------
LEMMA Numbers ==
    /\ MaxSessions \in Nat \ {0} /\ PageLimit \in Nat \ {0} /\ Retention \in Nat
    /\ TokenIssued \in Nat /\ TokenExpires \in Nat /\ TokenMaximumAge \in Nat /\ ClockSkew \in Nat
    /\ SessionMaximum \in Nat /\ Lifetimes \in SUBSET Nat
  BY SessionsAssumption

LEMMA NoneFree == None \notin Processes
  BY SessionsAssumption

LEMMA RetainedInt == RetainedUntil \in Int
<1> DEFINE S == {TokenExpires, TokenIssued + TokenMaximumAge}
<1>1. TokenExpires \in Nat /\ TokenIssued + TokenMaximumAge \in Nat /\ ClockSkew \in Nat
  BY Numbers
<1>2. \E x \in S : \A y \in S : x >= y
  BY <1>1
<1>3. Max(S) \in S
  BY <1>2 DEF Max
<1> QED  BY <1>1, <1>3 DEF RetainedUntil

LEMMA SInit == Init => SInv
<1> SUFFICES ASSUME Init PROVE SInv
  OBVIOUS
<1>1. Distinct(sessions) /\ FewSessions(sessions)
  <2>1. \A i : HeldBy({}, i) = {}
    BY DEF HeldBy
  <2>2. 0 <= MaxSessions
    BY Numbers
  <2> QED  BY <2>1, <2>2, FS_EmptySet DEF Init, Distinct, FewSessions
<1>2. \A p \in Processes : pc[p] = [step |-> "idle", session |-> None]
  BY DEF Init, At, With
<1>3. Processing
  BY <1>2 DEF Init, Processing, Steps, At, With
<1>4. WalkFine
  BY DEF Init, WalkFine, NoWalk, Walks, Walking
<1>5. Tables
  BY <1>1 DEF Init, Tables
<1>6. LockHeld /\ LoginsOver /\ AppliedLast
  BY <1>2 DEF Init, LockHeld, LoginsOver, AppliedLast, Processes
<1> QED  BY <1>1, <1>2, <1>3, <1>4, <1>5, <1>6 DEF SInv

(* With the lock free no transaction has written. *)
LEMMA FreeMeans == ASSUME SInv, lock = None, NEW p \in Processes PROVE pc[p].step \notin {"locked", "written"}
  BY NoneFree DEF SInv, LockHeld

(* One process moves on, without a committed change of the tables. *)
LEMMA Moves ==
    ASSUME SInv, NEW p \in Processes, NEW new \in [step : Steps, session : SessionRows \cup {None}],
           pc' = [pc EXCEPT ![p] = new], pc[p].step # "done",
           UNCHANGED <<tables, clock, sequence, reader>>,
           pending' = [q \in Processes |-> pending'[q]],
           \A q \in Processes \ {p} : pending'[q] = pending[q],
           lock' \in Processes \cup {None}, lock' = lock \/ lock \in {None, p},
           new.step \notin {"written", "applied"},
           new.step = "locked" => lock' = p,
           new.step \in {"issued", "locked"} => new.session \in SessionRows /\ new.session.handle = p
    PROVE  SInv'
<1>1. /\ pc'[p] = new /\ \A q \in Processes \ {p} : pc'[q] = pc[q]
      /\ pc' \in [Processes -> [step : Steps, session : SessionRows \cup {None}]]
  BY DEF SInv, Processing
<1>2. UNCHANGED <<sessions, events, replays>>
  BY DEF tables
<1>3. Tables' /\ FewSessions(sessions)'
  BY <1>2, Zenon DEF SInv, Tables, FewSessions, HeldBy, RetainedUntil
<1>4. Processing'
  BY <1>1 DEF SInv, Processing
<1>5. LockHeld'
  <2> SUFFICES ASSUME NEW q \in Processes, pc'[q].step \in {"locked", "written"} PROVE lock' = q
    BY DEF LockHeld
  <2>1. CASE q = p
    BY <1>1, <2>1
  <2>2. CASE q # p
    <3>1. lock = q
      BY <1>1, <2>2 DEF SInv, LockHeld
    <3> QED  BY <2>2, <3>1, NoneFree
  <2> QED  BY <2>1, <2>2
<1>6. LoginsOver'
  <2> SUFFICES ASSUME NEW s \in sessions PROVE pc'[s.handle].step = "done"
    BY <1>2 DEF LoginsOver
  <2>1. pc[s.handle].step = "done" /\ s.handle \in Processes
    BY DEF SInv, LoginsOver, Tables, Distinct, SessionRows, Processes
  <2> QED  BY <1>1, <2>1
<1>7. ASSUME NEW q \in Processes, pc'[q].step = "written"
      PROVE  \E c \in {pending'[q]} : ChangeFine(q, c)'
  <2>1. q # p /\ pc[q].step = "written" /\ pending'[q] = pending[q]
    BY <1>1, <1>7
  <2>2. PICK c \in {pending[q]} : ChangeFine(q, c)
    BY <2>1 DEF SInv
  <2>3. ChangeFine(q, c)
    BY <2>2
  <2>4. SessionsMove(q, c)' /\ Balanced(c)' /\ JournalAhead(c)'
        /\ c.dropped \in SUBSET {r \in replays : r.until <= clock}
    BY <1>2, <2>3, Zenon
       DEF ChangeFine, SessionsMove, FewSessions, HeldBy, Balanced, Of, JournalAhead, Walking
  <2>5. ConsumesFine(q, c)'
    <3>1. \A o \in Deliveries : pc'[o].step = "applied" => pc[o].step = "applied"
      BY <1>1 DEF Processes
    <3> QED  BY <1>2, <2>3, <3>1, Zenon DEF ChangeFine, ConsumesFine, RetainedUntil
  <2> QED  BY <1>2, <2>1, <2>2, <2>4, <2>5 DEF ChangeFine
<1>8. AppliedLast'
  <2>1. \A o \in Deliveries : pc'[o].step = "applied" => pc[o].step = "applied"
    BY <1>1 DEF Processes
  <2> QED  BY <1>2, <2>1, Zenon DEF SInv, AppliedLast, RetainedUntil
<1>9. WalkFine'
  BY <1>2 DEF SInv, WalkFine, Walking, Wanted
<1> QED  BY <1>3, <1>4, <1>5, <1>6, <1>7, <1>8, <1>9 DEF SInv

(* The statements of a transaction, under the lock. *)
LEMMA Writes ==
    ASSUME SInv, NEW p \in Processes, NEW c, Write(p, c),
           lock = None \/ (lock = p /\ pc[p].step = "locked"),
           pc[p].step \notin {"done", "applied"},
           SessionsMove(p, c), Balanced(c), ConsumesFine(p, c),
           c.dropped \in SUBSET {r \in replays : r.until <= clock},
           Cardinality(c.journal) \in Nat, Numbered(c.journal)
    PROVE  SInv'
<1>1. /\ lock' = p /\ pending' = [pending EXCEPT ![p] = c]
      /\ pc' = [pc EXCEPT ![p] = [step |-> "written", session |-> None]]
      /\ UNCHANGED <<sessions, events, replays, clock, reader>>
  BY DEF Write, At, With, tables
<1>2. sequence' = sequence + Cardinality(c.journal) /\ sequence' \in Nat /\ sequence <= sequence'
  <2>1. sequence' = sequence + Cardinality(c.journal)
    BY Zenon DEF Write
  <2>2. sequence \in Nat
    BY Zenon DEF SInv, Tables
  <2> QED  BY <2>1, <2>2, Sums, Zenon
<1>3. /\ pc'[p] = [step |-> "written", session |-> None] /\ \A q \in Processes \ {p} : pc'[q] = pc[q]
      /\ pc' \in [Processes -> [step : Steps, session : SessionRows \cup {None}]]
  BY <1>1 DEF SInv, Processing, Steps
<1>4. \A q \in Processes \ {p} : pc'[q].step \notin {"locked", "written"}
  BY <1>3, NoneFree DEF SInv, LockHeld
<1>5. Tables'
  <2>1. \A e \in events : e.sequence \in 1 .. sequence'
    <3> SUFFICES ASSUME NEW e \in events PROVE e.sequence \in 1 .. sequence'
      OBVIOUS
    <3>1. e.sequence \in 1 .. sequence /\ sequence \in Nat
      BY Zenon DEF SInv, Tables
    <3>2. \A x \in 1 .. sequence : x \in 1 .. sequence'
      BY <1>2, <3>1, Longer, Zenon
    <3> QED  BY <3>1, <3>2, Zenon
  <2> QED  BY <1>1, <1>2, <2>1, Zenon DEF SInv, Tables, RetainedUntil
<1>6. Processing'
  BY <1>1, <1>3, Zenon DEF SInv, Processing
<1>7. LockHeld'
  BY <1>1, <1>4 DEF LockHeld
<1>8. LoginsOver'
  <2> SUFFICES ASSUME NEW s \in sessions PROVE pc'[s.handle].step = "done"
    BY <1>1 DEF LoginsOver
  <2>1. pc[s.handle].step = "done" /\ s.handle \in Processes
    BY DEF SInv, LoginsOver, Tables, Distinct, SessionRows, Processes
  <2> QED  BY <1>3, <2>1
<1>9. JournalAhead(c)'
  <2> SUFFICES ASSUME NEW e \in c.journal
               PROVE  /\ e.sequence \in 1 .. sequence' /\ e.at \in 0 .. clock
                      /\ \A f \in events : f.sequence < e.sequence
                      /\ Walking => reader.through < e.sequence
    BY <1>1 DEF JournalAhead, Walking
  <2>1. /\ e.sequence \in Nat /\ sequence < e.sequence /\ e.sequence \in 1 .. sequence'
        /\ sequence \in Nat
    <3>1. sequence \in Nat
      BY Zenon DEF SInv, Tables
    <3>2. e.sequence \in Nat /\ sequence < e.sequence /\ e.sequence <= sequence'
      BY <1>2, Zenon DEF Numbered
    <3>3. e.sequence \in 1 .. sequence'
      BY <1>2, <3>1, <3>2, Ranked, Zenon
    <3> QED  BY <3>1, <3>2, <3>3, Zenon
  <2>2. e.at \in 0 .. clock
    <3>1. clock \in Nat /\ e.at = clock
      BY Zenon DEF SInv, Tables, Numbered
    <3> QED  BY <3>1, Ranges, Zenon
  <2>3. ASSUME NEW f \in events PROVE f.sequence < e.sequence
    <3>1. f.sequence \in 1 .. sequence
      BY DEF SInv, Tables
    <3> QED  BY <2>1, <3>1
  <2>4. ASSUME Walking PROVE reader.through < e.sequence
    <3>1. reader.through <= sequence /\ reader.through \in Nat
      BY <2>4 DEF SInv, WalkFine, Walks
    <3> QED  BY <2>1, <3>1
  <2> QED  BY <2>1, <2>2, <2>3, <2>4
<1>10. ChangeFine(p, c)'
  <2>1. SessionsMove(p, c)' /\ Balanced(c)'
    BY <1>1, Zenon DEF SessionsMove, FewSessions, HeldBy, Balanced, Of
  <2>2. \A o \in Deliveries : pc'[o].step = "applied" => pc[o].step = "applied"
    BY <1>3 DEF Processes
  <2>3. ConsumesFine(p, c)'
    BY <1>1, <2>2, Zenon DEF ConsumesFine, RetainedUntil
  <2> QED  BY <1>1, <1>9, <2>1, <2>3 DEF ChangeFine
<1>11. ASSUME NEW q \in Processes, pc'[q].step = "written"
       PROVE  \E d \in {pending'[q]} : ChangeFine(q, d)'
  <2>1. q = p
    BY <1>4, <1>11
  <2>2. pending'[p] = c
    BY <1>1 DEF SInv, Processing
  <2> QED  BY <1>10, <2>1, <2>2
<1>12. AppliedLast'
  <2>1. \A o \in Deliveries : pc'[o].step = "applied" => pc[o].step = "applied"
    BY <1>3 DEF Processes
  <2> QED  BY <1>1, <2>1, Zenon DEF SInv, AppliedLast, RetainedUntil
<1>13. WalkFine'
  <2>1. Walking => reader.through <= sequence'
    <3>1. reader.through \in Nat /\ sequence \in Nat
      BY DEF SInv, WalkFine, Walks, Tables
    <3>2. Walking => reader.through <= sequence
      BY Zenon DEF SInv, WalkFine
    <3>3. reader.through <= sequence => reader.through <= sequence'
      BY <1>2, <3>1, Ordered, Zenon
    <3> QED  BY <3>2, <3>3, Zenon
  <2> QED  BY <1>1, <2>1, Zenon DEF SInv, WalkFine, Walking, Wanted
<1>14. FewSessions(sessions)'
  BY <1>1 DEF SInv, FewSessions, HeldBy
<1> QED  BY <1>5, <1>6, <1>7, <1>8, <1>11, <1>12, <1>13, <1>14 DEF SInv

(* A smaller table has no more sessions of anybody. *)
LEMMA FewerStay ==
    ASSUME SInv, NEW rows \in SUBSET sessions
    PROVE  FewSessions(rows)
<1> SUFFICES ASSUME NEW i \in Identities PROVE Cardinality(HeldBy(rows, i)) <= MaxSessions
  BY DEF FewSessions
<1>1. HeldBy(rows, i) \in SUBSET HeldBy(sessions, i) /\ HeldBy(sessions, i) \in SUBSET sessions
  BY DEF HeldBy
<1>2. IsFiniteSet(HeldBy(sessions, i)) /\ IsFiniteSet(HeldBy(rows, i))
  BY <1>1, FS_Subset DEF SInv, Tables, Distinct
<1>3. /\ Cardinality(HeldBy(rows, i)) <= Cardinality(HeldBy(sessions, i))
      /\ Cardinality(HeldBy(rows, i)) \in Nat /\ Cardinality(HeldBy(sessions, i)) \in Nat
  BY <1>1, <1>2, FS_Subset, FS_CardinalityType
<1>4. Cardinality(HeldBy(sessions, i)) <= MaxSessions /\ MaxSessions \in Nat
  BY Numbers DEF SInv, FewSessions
<1> QED  BY <1>3, <1>4

(* Sessions end and one may start, with the rows Journal computes. *)
LEMMA WritesJournal ==
    ASSUME SInv, NEW p \in Processes, NEW c, Write(p, c),
           lock = None \/ (lock = p /\ pc[p].step = "locked"),
           pc[p].step \notin {"done", "applied"},
           c.ended \in SUBSET sessions,
           c.started = {} \/ \E s \in SessionRows : s.handle = p /\ c.started = {s},
           c.started = {} \/ FewSessions((sessions \ c.ended) \cup c.started),
           c.journal = Journal(c.ended, c.started),
           ConsumesFine(p, c), c.dropped \in SUBSET {r \in replays : r.until <= clock}
    PROVE  SInv'
<1>1. Distinct(c.ended) /\ sequence \in Nat /\ clock \in Nat
  BY FS_Subset DEF SInv, Tables, Distinct
<1>2. Single(c.started)
  BY DEF Single
<1>3. Cardinality(c.journal) \in Nat /\ Balanced(c) /\ Numbered(c.journal)
  <2>1. PICK ended, started : ended = c.ended /\ started = c.started
    OBVIOUS
  <2>2. Distinct(ended) /\ Single(started) /\ c.journal = Journal(ended, started)
    BY <1>1, <1>2, <2>1
  <2>3. Cardinality(c.journal) \in Nat /\ Numbered(c.journal)
    <3>1. Cardinality(Journal(ended, started)) \in Nat /\ Numbered(Journal(ended, started))
      BY <1>1, <2>2, JournalFine, Zenon
    <3> QED  BY <2>2, <3>1, Zenon
  <2>4. \A i : /\ Cardinality(Of(c.journal, i, "login")) = Cardinality(HeldBy(started, i))
               /\ Cardinality(Of(c.journal, i, "end")) = Cardinality(HeldBy(ended, i))
    <3>1. \A i : /\ Cardinality(Of(Journal(ended, started), i, "login"))
                        = Cardinality(HeldBy(started, i))
                 /\ Cardinality(Of(Journal(ended, started), i, "end"))
                        = Cardinality(HeldBy(ended, i))
      BY <1>1, <2>2, JournalFine, Zenon
    <3> QED  BY <2>2, <3>1, Zenon
  <2> QED  BY <2>1, <2>3, <2>4 DEF Balanced
<1>4. FewSessions((sessions \ c.ended) \cup c.started)
  <2>1. CASE c.started = {}
    <3>1. (sessions \ c.ended) \cup c.started \in SUBSET sessions
      BY <2>1
    <3> QED  BY <3>1, FewerStay
  <2> QED  BY <2>1
<1>5. SessionsMove(p, c)
  BY <1>4 DEF SessionsMove
<1> QED  BY <1>3, <1>5, Writes

----------------------------------------------------------------------------
(* One lemma per action. *)

LEMMA IssueFine == ASSUME SInv, NEW h \in Handles, Issue(h) PROVE SInv'
<1>1. /\ UNCHANGED <<tables, clock, sequence, lock, pending, reader>>
      /\ pc[h].step = "idle" /\ h \in Processes
  BY DEF Issue, Processes
<1>2. PICK left \in Lifetimes : pc' = [pc EXCEPT ![h] = With("issued",
             [handle |-> h, issued |-> clock, expires |-> clock + Min({left, SessionMaximum})])]
  BY Zenon DEF Issue
<1>3. clock + Min({left, SessionMaximum}) \in Nat /\ clock \in Nat
  <2>1. {left, SessionMaximum} \in SUBSET Nat /\ {left, SessionMaximum} # {}
    BY Numbers
  <2>2. Min({left, SessionMaximum}) \in Nat
    BY <2>1, LeastOf
  <2> QED  BY <2>2 DEF SInv, Tables
<1>4. PICK s : s = [handle |-> h, issued |-> clock, expires |-> clock + Min({left, SessionMaximum})]
  BY Zenon
<1>5. s \in SessionRows /\ s.handle = h
  BY <1>3, <1>4 DEF SessionRows
<1>6. PICK new : new = [step |-> "issued", session |-> s]
  BY Zenon
<1>7. pc' = [pc EXCEPT ![h] = new] /\ new \in [step : Steps, session : SessionRows \cup {None}]
      /\ new.step = "issued" /\ new.session = s
  BY <1>2, <1>4, <1>5, <1>6 DEF With, Steps
<1>8. lock \in Processes \cup {None} /\ pending' = [q \in Processes |-> pending'[q]]
  BY <1>1 DEF SInv, LockHeld, Processing
<1> QED  BY <1>1, <1>5, <1>7, <1>8, Moves, Zenon

(* A process whose step leaves it with no session and no lock. *)
LEMMA StepsBack ==
    ASSUME SInv, NEW p \in Processes, NEW step \in Steps \ {"written", "applied", "issued", "locked"},
           pc' = [pc EXCEPT ![p] = At(step)], pc[p].step # "done",
           UNCHANGED <<tables, clock, sequence, reader>>,
           pending' = pending \/ pending' = [pending EXCEPT ![p] = None],
           lock' = lock \/ (lock = p /\ lock' = None)
    PROVE  SInv'
<1>1. PICK new : new = At(step)
  OBVIOUS
<1>2. /\ new \in [step : Steps, session : SessionRows \cup {None}]
      /\ new.step = step /\ pc' = [pc EXCEPT ![p] = new]
  BY <1>1 DEF At, With
<1>3. /\ lock' \in Processes \cup {None} /\ pending' = [q \in Processes |-> pending'[q]]
      /\ \A q \in Processes \ {p} : pending'[q] = pending[q]
  BY DEF SInv, LockHeld, Processing
<1> QED  BY <1>2, <1>3, Moves, Zenon

LEMMA RollbackFine == ASSUME SInv, NEW p \in Processes, Rollback(p) PROVE SInv'
<1>1. PICK step \in {"done", "idle"} : pc' = [pc EXCEPT ![p] = At(step)]
  BY Zenon DEF Rollback, Finish
<1> QED  BY <1>1, StepsBack, Zenon DEF Rollback, Release, Steps

LEMMA LockReplaceFine == ASSUME SInv, NEW h \in Handles, LockReplace(h) PROVE SInv'
<1>1. /\ UNCHANGED <<tables, clock, sequence, pending, reader>> /\ h \in Processes
      /\ pc[h].step = "issued" /\ lock = None
  BY DEF LockReplace, LockFree, Processes
<1>2. PICK s : s = pc[h].session
  OBVIOUS
<1>3. s \in SessionRows /\ s.handle = h
  BY <1>1, <1>2 DEF SInv, Processing
<1>4. CASE lock' = h /\ pc' = [pc EXCEPT ![h] = With("locked", s)]
  <2>1. PICK new : new = [step |-> "locked", session |-> s]
    BY Zenon
  <2>2. pc' = [pc EXCEPT ![h] = new] /\ new \in [step : Steps, session : SessionRows \cup {None}]
        /\ new.step = "locked" /\ new.session = s
    BY <1>3, <1>4, <2>1 DEF With, Steps
  <2>3. pending' = [q \in Processes |-> pending'[q]]
    BY <1>1 DEF SInv, Processing
  <2> QED  BY <1>1, <1>3, <1>4, <2>2, <2>3, Moves, Zenon
<1>5. CASE lock' = lock /\ Finish(h, "done")
  <2>1. pc' = [pc EXCEPT ![h] = At("done")]
    BY <1>5 DEF Finish
  <2> QED  BY <1>1, <1>5, <2>1, StepsBack, Zenon DEF Steps
<1> QED  BY <1>2, <1>4, <1>5 DEF LockReplace

LEMMA LoadExpiredFine ==
    ASSUME SInv, NEW c \in Clients, NEW s \in sessions, LoadExpired(c, s) PROVE SInv'
<1>1. /\ UNCHANGED <<tables, clock, sequence, lock, pending, reader>> /\ c \in Processes
      /\ pc[c].step = "idle" /\ s \in SessionRows
  BY DEF LoadExpired, Processes, SInv, Tables, Distinct
<1>2. PICK new : new = [step |-> "expired", session |-> s]
  BY Zenon
<1>3. pc' = [pc EXCEPT ![c] = new] /\ new \in [step : Steps, session : SessionRows \cup {None}]
      /\ new.step = "expired"
  BY <1>1, <1>2 DEF LoadExpired, With, Steps
<1>4. lock \in Processes \cup {None} /\ pending' = [q \in Processes |-> pending'[q]]
  BY <1>1 DEF SInv, LockHeld, Processing
<1> QED  BY <1>1, <1>3, <1>4, Moves, Zenon

LEMMA AdmitFine == ASSUME SInv, NEW d \in Deliveries, AdmitLogout(d) PROVE SInv'
<1>1. /\ UNCHANGED <<tables, clock, sequence, lock, pending, reader>> /\ d \in Processes
      /\ pc[d].step = "idle" /\ pc' = [pc EXCEPT ![d] = At("admitted")]
  BY DEF AdmitLogout, Processes
<1> QED  BY <1>1, StepsBack, Zenon DEF Steps

(* The new session takes the place of the overflow. *)
LEMMA ReplaceFew ==
    ASSUME SInv, NEW s \in SessionRows, NEW stale \in SUBSET sessions, NEW ended,
           ended = stale \cup Overflow(sessions \ stale, IdentityOf[s.handle])
    PROVE  FewSessions((sessions \ ended) \cup {s})
<1> DEFINE rows == sessions \ stale
           who == IdentityOf[s.handle]
<1>1. Distinct(rows)
  BY FS_Subset DEF SInv, Tables, Distinct
<1>2. sessions \ ended = rows \ Overflow(rows, who)
  OBVIOUS
<1> SUFFICES ASSUME NEW i \in Identities
             PROVE  Cardinality(HeldBy((sessions \ ended) \cup {s}, i)) <= MaxSessions
  BY Zenon DEF FewSessions
<1>3. CASE i = who
  <2> DEFINE held == HeldBy(rows \ Overflow(rows, who), who)
  <2>1. Cardinality(held) <= MaxSessions - 1
    BY <1>1, OverflowLeaves, Numbers
  <2>2. HeldBy((sessions \ ended) \cup {s}, i) = held \cup {s}
    BY <1>2, <1>3 DEF HeldBy
  <2>3. IsFiniteSet(held)
    <3>1. held \in SUBSET rows
      BY DEF HeldBy
    <3> QED  BY <1>1, <3>1, FS_Subset, Zenon DEF Distinct
  <2> HIDE DEF held
  <2>7. Cardinality(held) \in Nat
    BY <2>3, FS_CardinalityType
  <2>4. \/ Cardinality(held \cup {s}) = Cardinality(held)
        \/ Cardinality(held \cup {s}) = Cardinality(held) + 1
    BY <2>3, FS_AddElement
  <2>5. MaxSessions \in Nat
    BY Numbers
  <2>6. Cardinality(held \cup {s}) <= MaxSessions
    <3>1. PICK n \in Nat : n = Cardinality(held)
      BY <2>7
    <3>2. n <= MaxSessions /\ n + 1 <= MaxSessions
      BY <2>1, <2>5, <3>1
    <3> QED  BY <2>4, <3>1, <3>2
  <2> QED  BY <2>2, <2>6
<1>4. CASE i # who
  <2>1. HeldBy((sessions \ ended) \cup {s}, i) = HeldBy(sessions \ ended, i)
    BY <1>4 DEF HeldBy
  <2>2. FewSessions(sessions \ ended)
    BY FewerStay
  <2> QED  BY <2>1, <2>2 DEF FewSessions
<1> QED  BY <1>3, <1>4

LEMMA WriteReplaceFine ==
    ASSUME SInv, NEW h \in Handles, NEW previous \in SUBSET sessions, WriteReplace(h, previous)
    PROVE  SInv'
<1>1. PICK s, stale, ended :
         /\ s = pc[h].session /\ stale = Expired \cup previous
         /\ ended = stale \cup Overflow(sessions \ stale, IdentityOf[h])
  BY Zenon
<1>2. h \in Processes /\ pc[h].step = "locked" /\ s \in SessionRows /\ s.handle = h /\ lock = h
  BY <1>1 DEF WriteReplace, Processes, SInv, Processing, LockHeld
<1>3. stale \in SUBSET sessions /\ ended \in SUBSET sessions
  BY <1>1 DEF Expired, Overflow, HeldBy
<1>4. CASE Rollback(h)
  BY <1>2, <1>4, RollbackFine
<1>5. CASE Write(h, [Change EXCEPT !.started = {s}, !.ended = ended,
                                   !.journal = Journal(ended, {s}), !.purged = Outlived])
  <2>1. PICK c : c = [Change EXCEPT !.started = {s}, !.ended = ended,
                                    !.journal = Journal(ended, {s}), !.purged = Outlived]
    OBVIOUS
  <2>2. /\ c.started = {s} /\ c.ended = ended /\ c.journal = Journal(ended, {s})
        /\ c.consumed = {} /\ c.dropped = {}
    BY <2>1 DEF Change
  <2>3. FewSessions((sessions \ ended) \cup {s})
    BY <1>1, <1>2, <1>3, ReplaceFew, Zenon
  <2>4. Write(h, c)
    BY <1>5, <2>1
  <2> QED  BY <1>2, <1>3, <2>2, <2>3, <2>4, WritesJournal, Zenon DEF ConsumesFine
<1> QED  BY <1>1, <1>4, <1>5 DEF WriteReplace

LEMMA WriteEndsFine ==
    ASSUME SInv, NEW p \in Processes, NEW ended \in SUBSET sessions, WriteEnds(p, ended), lock = None,
           pc[p].step \notin {"done", "applied"}
    PROVE  SInv'
<1>1. PICK c : c = [Change EXCEPT !.ended = ended, !.journal = Journal(ended, {})]
  OBVIOUS
<1>2. /\ c.started = {} /\ c.ended = ended /\ c.journal = Journal(ended, {})
      /\ c.consumed = {} /\ c.dropped = {}
  BY <1>1 DEF Change
<1>3. Write(p, c)
  BY <1>1 DEF WriteEnds
<1> QED  BY <1>2, <1>3, WritesJournal, Zenon DEF ConsumesFine

LEMMA DeleteExpiredFine == ASSUME SInv, NEW c \in Clients, DeleteExpired(c) PROVE SInv'
<1>1. PICK ended : ended = {pc[c].session} \cap Expired
  BY Zenon
<1>2. ended \in SUBSET sessions /\ WriteEnds(c, ended) /\ lock = None /\ c \in Processes
      /\ pc[c].step = "expired"
  BY <1>1 DEF Expired, DeleteExpired, LockFree, Processes
<1> QED  BY <1>2, WriteEndsFine

LEMMA DeleteFine == ASSUME SInv, NEW c \in Clients, NEW s \in sessions, Delete(c, s) PROVE SInv'
<1>1. {s} \in SUBSET sessions /\ WriteEnds(c, {s}) /\ lock = None /\ c \in Processes
      /\ pc[c].step = "idle"
  BY DEF Delete, LockFree, Processes
<1> QED  BY <1>1, WriteEndsFine

LEMMA NoRows == Journal({}, {}) = {}
  BY DEF Journal

LEMMA CleanUpFine == ASSUME SInv, NEW c \in Clients, CleanUp(c) PROVE SInv'
<1>1. PICK d : d = [Change EXCEPT !.purged = Outlived]
  BY Zenon
<1>2. /\ d.started = {} /\ d.ended = {} /\ d.journal = Journal({}, {})
      /\ d.consumed = {} /\ d.dropped = {}
  BY <1>1, NoRows DEF Change
<1>3. Write(c, d) /\ c \in Processes /\ lock = None /\ pc[c].step = "idle"
  BY <1>1 DEF CleanUp, LockFree, Processes
<1> QED  BY <1>2, <1>3, WritesJournal, Zenon DEF ConsumesFine

LEMMA DiagnoseFine == ASSUME SInv, NEW c \in Clients, NEW i \in Identities, Diagnose(c, i) PROVE SInv'
<1>1. PICK e : e = [sequence |-> sequence + 1, who |-> i, action |-> "denied", at |-> clock]
  BY Zenon
<1>2. PICK d : d = [Change EXCEPT !.purged = Outlived, !.denied = 1, !.journal = {e}]
  OBVIOUS
<1>3. /\ d.started = {} /\ d.ended = {} /\ d.journal = {e}
      /\ d.consumed = {} /\ d.dropped = {}
  BY <1>2 DEF Change
<1>4. Write(c, d) /\ c \in Processes /\ lock = None /\ pc[c].step = "idle"
  BY <1>1, <1>2 DEF Diagnose, LockFree, Processes
<1>5. Cardinality(d.journal) = 1
  BY <1>3, FS_Singleton, Zenon
<1>6. Balanced(d)
  <2>1. e.action = "denied"
    BY <1>1
  <2>2. \A k : Of(d.journal, k, "login") = {} /\ Of(d.journal, k, "end") = {}
    BY <1>3, <2>1 DEF Of
  <2>3. \A k : HeldBy({}, k) = {}
    BY DEF HeldBy
  <2> QED  BY <1>3, <2>2, <2>3 DEF Balanced
<1>7. SessionsMove(c, d)
  <2>1. (sessions \ d.ended) \cup d.started \in SUBSET sessions
    BY <1>3
  <2> QED  BY <1>3, <2>1, FewerStay DEF SessionsMove
<1>8. ConsumesFine(c, d) /\ d.dropped \in SUBSET {r \in replays : r.until <= clock}
  BY <1>3 DEF ConsumesFine
<1>9. Numbered(d.journal)
  <2>1. e.sequence = sequence + 1 /\ e.at = clock
    BY <1>1
  <2>2. sequence \in Nat
    BY DEF SInv, Tables
  <2>3. e.sequence \in Nat /\ sequence < e.sequence /\ e.sequence <= sequence + 1
    BY <2>1, <2>2
  <2> QED  BY <1>3, <1>5, <2>1, <2>3 DEF Numbered
<1>10. Cardinality(d.journal) \in Nat
  BY <1>5
<1> QED  BY <1>4, <1>6, <1>7, <1>8, <1>9, <1>10, Writes, Zenon

(* A token that some delivery has applied is not consumable again. *)
LEMMA AppliedOnce ==
    ASSUME SInv, NEW o \in Deliveries, pc[o].step = "applied", NEW kept,
           \A r \in replays : ~(r.until <= clock) => r \in kept
    PROVE  ~Consumable(TokenOf[o], kept)
<1> SUFFICES ASSUME Consumable(TokenOf[o], kept) PROVE FALSE
  OBVIOUS
<1>1. clock < RetainedUntil /\ clock \in Int /\ RetainedUntil \in Int
  BY RetainedInt DEF Consumable, SInv, Tables
<1>2. ~(RetainedUntil <= clock)
  BY <1>1
<1>3. PICK r \in replays : r.token = TokenOf[o]
  BY <1>2 DEF SInv, AppliedLast
<1>4. r \in kept
  BY <1>2 DEF SInv, Tables
<1> QED  BY <1>3, <1>4 DEF Consumable

LEMMA ConsumeFine == ASSUME SInv, NEW d \in Deliveries, ConsumeLogout(d) PROVE SInv'
<1>1. PICK token, dropped, ended :
         /\ token = TokenOf[d] /\ dropped = {r \in replays : r.until <= clock}
         /\ ended = {s \in sessions : s.handle \in TargetOf[token]}
  BY Zenon
<1>2. d \in Processes /\ lock = None /\ pc[d].step = "admitted"
  BY DEF ConsumeLogout, LockFree, Processes
<1>3. CASE /\ Consumable(token, replays \ dropped)
           /\ Write(d, [Change EXCEPT !.dropped = dropped, !.ended = ended,
                                      !.journal = Journal(ended, {}),
                                      !.consumed = {[token |-> token, until |-> RetainedUntil]}])
  <2>1. PICK c : c = [Change EXCEPT !.dropped = dropped, !.ended = ended,
                                    !.journal = Journal(ended, {}),
                                    !.consumed = {[token |-> token, until |-> RetainedUntil]}]
    OBVIOUS
  <2>2. /\ c.started = {} /\ c.ended = ended /\ c.journal = Journal(ended, {}) /\ c.dropped = dropped
        /\ c.consumed = {[token |-> token, until |-> RetainedUntil]}
    BY <2>1 DEF Change
  <2>3. ASSUME NEW o \in Deliveries, TokenOf[o] = token, pc[o].step = "applied" PROVE FALSE
    <3>1. \A r \in replays : ~(r.until <= clock) => r \in replays \ dropped
      BY <1>1
    <3>2. ~Consumable(TokenOf[o], replays \ dropped)
      BY <2>3, <3>1, AppliedOnce
    <3> QED  BY <1>3, <2>3, <3>2
  <2>4. ConsumesFine(d, c)
    BY <1>1, <2>2, <2>3 DEF ConsumesFine
  <2>5. Write(d, c)
    BY <1>3, <2>1
  <2>6. c.ended \in SUBSET sessions /\ c.journal = Journal(c.ended, c.started)
        /\ c.dropped \in SUBSET {r \in replays : r.until <= clock}
    BY <1>1, <2>2
  <2> QED  BY <1>2, <2>2, <2>4, <2>5, <2>6, WritesJournal, Zenon
<1>4. CASE Write(d, [Change EXCEPT !.dropped = dropped])
  <2>1. PICK c : c = [Change EXCEPT !.dropped = dropped]
    BY Zenon
  <2>2. /\ c.started = {} /\ c.ended = {} /\ c.journal = Journal({}, {}) /\ c.dropped = dropped
        /\ c.consumed = {}
    BY <2>1, NoRows DEF Change
  <2>3. Write(d, c) /\ c.dropped \in SUBSET {r \in replays : r.until <= clock}
    BY <1>1, <1>4, <2>1, <2>2
  <2> QED  BY <1>2, <2>2, <2>3, WritesJournal, Zenon DEF ConsumesFine
<1> QED  BY <1>1, <1>3, <1>4 DEF ConsumeLogout

LEMMA TickFine == ASSUME SInv, Tick PROVE SInv'
<1>1. clock' = clock + 1 /\ UNCHANGED <<sessions, events, replays, sequence, lock, pending, pc, reader>>
  BY DEF Tick, tables
<1>2. clock \in Nat /\ clock' \in Nat /\ \A x \in Int : x <= clock => x <= clock'
  <2>1. clock \in Nat
    BY Zenon DEF SInv, Tables
  <2> QED  BY <1>1, <2>1, Later, Zenon
<1>3. \A x \in 0 .. clock : x \in 0 .. clock'
  <2>1. clock <= clock'
    BY <1>1, <1>2, Later, Zenon
  <2> QED  BY <1>2, <2>1, Longer, Zenon
<1>4. Tables' /\ Processing' /\ LockHeld' /\ LoginsOver' /\ FewSessions(sessions)'
  BY <1>1, <1>2, <1>3, Zenon
     DEF SInv, Tables, Processing, LockHeld, LoginsOver, FewSessions, HeldBy, RetainedUntil
<1>5. ASSUME NEW p \in Processes, pc[p].step = "written"
      PROVE  \E c \in {pending[p]} : ChangeFine(p, c)'
  <2>1. PICK c \in {pending[p]} : ChangeFine(p, c)
    BY <1>5 DEF SInv
  <2>2. SessionsMove(p, c)' /\ Balanced(c)' /\ ConsumesFine(p, c)'
    BY <1>1, <2>1, Zenon
       DEF ChangeFine, SessionsMove, FewSessions, HeldBy, Balanced, Of, ConsumesFine, RetainedUntil
  <2>3. JournalAhead(c)'
    BY <1>1, <1>3, <2>1 DEF ChangeFine, JournalAhead, Walking
  <2>4. \A r \in c.dropped : r \in replays /\ r.until <= clock'
    <3>1. c.dropped \in SUBSET replays /\ \A r \in replays : r.until \in Int
      BY <2>1, RetainedInt DEF ChangeFine, SInv, Tables
    <3> QED  BY <1>2, <2>1, <3>1 DEF ChangeFine
  <2> QED  BY <1>1, <2>1, <2>2, <2>3, <2>4 DEF ChangeFine
<1>6. AppliedLast'
  BY <1>1, <1>2, RetainedInt, Zenon DEF SInv, AppliedLast, RetainedUntil
<1>7. WalkFine'
  <2>1. reader.now <= clock'
    BY <1>2 DEF SInv, WalkFine, Walks
  <2>2. ASSUME NEW e \in events, Wanted(e)' PROVE Wanted(e)
    <3>1. e.at \in Int
      <4>1. e.at \in 0 .. clock
        BY Zenon DEF SInv, Tables
      <4> QED  BY <1>2, <4>1, Ranges, Zenon
    <3>2. clock + 1 < e.at + Retention
      BY <1>1, <2>2 DEF Wanted
    <3>3. clock < e.at + Retention
      BY <1>2, <3>1, <3>2, Numbers
    <3> QED  BY <1>1, <2>2, <3>3 DEF Wanted
  <2> QED  BY <1>1, <2>1, <2>2 DEF SInv, WalkFine, Walking
<1> QED  BY <1>1, <1>4, <1>5, <1>6, <1>7 DEF SInv

(* What a commit does to the session table and to the journal. *)
SessionsStep ==
    \A i \in Identities :
        /\ Cardinality(Of(events' \ events, i, "login")) = Cardinality(HeldBy(sessions' \ sessions, i))
        /\ Cardinality(Of(events' \ events, i, "end")) = Cardinality(HeldBy(sessions \ sessions', i))
        /\ Cardinality(HeldBy(sessions', i)) <= MaxSessions

LogoutStep ==
    \A d \in Deliveries :
        pc[d].step # "applied" /\ pc'[d].step = "applied"
        => /\ \A o \in Deliveries : TokenOf[o] = TokenOf[d] => pc[o].step # "applied"
           /\ \A s \in sessions' : s.handle \notin TargetOf[TokenOf[d]]

(* The facts of an open change at its commit. *)
LEMMA CommitFacts ==
    ASSUME SInv, NEW p \in Processes, Commit(p)
    PROVE  \E c, step :
              /\ c = pending[p] /\ ChangeFine(p, c)
              /\ sessions' = (sessions \ c.ended) \cup c.started
              /\ events' = (events \ c.purged) \cup c.journal
              /\ replays' = (replays \ c.dropped) \cup c.consumed
              /\ step \in {"done", "idle", "applied", "replayed"}
              /\ p \in Handles => step = "done"
              /\ step = "applied" => p \in Deliveries /\ c.consumed # {}
              /\ pc' = [pc EXCEPT ![p] = [step |-> step, session |-> None]]
<1>1. PICK c \in {pending[p]} : ChangeFine(p, c)
  BY DEF SInv, Commit
<1>2. /\ sessions' = (sessions \ c.ended) \cup c.started
      /\ events' = (events \ c.purged) \cup c.journal
      /\ replays' = (replays \ c.dropped) \cup c.consumed
  BY <1>1 DEF Commit
<1>3. PICK step :
         /\ step = IF p \in Handles THEN "done"
                   ELSE IF p \notin Deliveries THEN "idle"
                   ELSE IF c.consumed # {} THEN "applied" ELSE "replayed"
         /\ pc' = [pc EXCEPT ![p] = At(step)]
  BY <1>1 DEF Commit, Finish
<1> QED  BY <1>1, <1>2, <1>3, Zenon DEF At, With

LEMMA CommitFine == ASSUME SInv, NEW p \in Processes, Commit(p) PROVE SInv' /\ SessionsStep /\ LogoutStep
<1>1. /\ pc[p].step = "written" /\ UNCHANGED <<clock, sequence, reader>>
      /\ pending' = [pending EXCEPT ![p] = None] /\ lock = p /\ lock' = None
  BY DEF Commit, SInv, LockHeld, Release
<1>2. PICK c, step :
              /\ c = pending[p] /\ ChangeFine(p, c)
              /\ sessions' = (sessions \ c.ended) \cup c.started
              /\ events' = (events \ c.purged) \cup c.journal
              /\ replays' = (replays \ c.dropped) \cup c.consumed
              /\ step \in {"done", "idle", "applied", "replayed"}
              /\ p \in Handles => step = "done"
              /\ step = "applied" => p \in Deliveries /\ c.consumed # {}
              /\ pc' = [pc EXCEPT ![p] = [step |-> step, session |-> None]]
  BY CommitFacts
<1>3. SessionsMove(p, c) /\ Balanced(c) /\ JournalAhead(c) /\ ConsumesFine(p, c)
      /\ c.dropped \in SUBSET {r \in replays : r.until <= clock}
  BY <1>2 DEF ChangeFine
<1>4. /\ pc'[p].step = step /\ \A q \in Processes \ {p} : pc'[q] = pc[q]
      /\ pc' \in [Processes -> [step : Steps, session : SessionRows \cup {None}]]
  BY <1>2 DEF SInv, Processing, Steps
<1>5. \A q \in Processes : pc'[q].step \notin {"locked", "written"}
  BY <1>1, <1>2, <1>4 DEF SInv, LockHeld
<1>6. \A s \in sessions : s.handle # p /\ s.handle \in Handles /\ pc[s.handle].step = "done"
  BY <1>1 DEF SInv, LoginsOver, Tables, Distinct, SessionRows
<1>7. /\ c.started \in SUBSET SessionRows /\ Single(c.started) /\ c.started \cap sessions = {}
      /\ \A s \in c.started : s.handle = p
  <2>1. c.started \in SUBSET SessionRows /\ \A s \in c.started : s.handle = p
    BY <1>3 DEF SessionsMove
  <2>2. Single(c.started)
    <3>1. ASSUME c.started # {} PROVE \E s : c.started = {s}
      <4>1. PICK s \in c.started : TRUE
        BY <3>1
      <4>2. c.started = {s}
        BY <1>3, <4>1 DEF SessionsMove
      <4> QED  BY <4>2
    <3> QED  BY <3>1 DEF Single
  <2> QED  BY <1>6, <2>1, <2>2
<1>8. Distinct(sessions')
  <2>1. IsFiniteSet(c.started)
    <3>1. CASE c.started = {}
      BY <3>1, FS_EmptySet
    <3>2. ASSUME NEW s, c.started = {s} PROVE IsFiniteSet(c.started)
      BY <3>2, FS_Singleton, Zenon
    <3> QED  BY <1>7, <3>1, <3>2 DEF Single
  <2>2. IsFiniteSet(sessions \ c.ended)
    BY FS_Difference, Zenon DEF SInv, Tables, Distinct
  <2>3. IsFiniteSet(sessions')
    BY <1>2, <2>1, <2>2, FS_Union, Zenon
  <2>4. \A s, t \in sessions' : s.handle = t.handle => s = t
    <3>1. \A s, t \in sessions : s.handle = t.handle => s = t
      BY DEF SInv, Tables, Distinct
    <3>2. \A s, t \in c.started : s = t
      BY <1>7 DEF Single
    <3>3. \A s \in sessions, t \in c.started : s.handle # t.handle
      BY <1>6, <1>7
    <3>4. \A s \in sessions' : s \in sessions \/ s \in c.started
      BY <1>2
    <3> QED  BY <3>1, <3>2, <3>3, <3>4
  <2>5. sessions' \in SUBSET SessionRows
    BY <1>2, <1>7 DEF SInv, Tables, Distinct
  <2> QED  BY <2>3, <2>4, <2>5 DEF Distinct
<1>9. Tables'
  <2>1. \A e \in events' : e.sequence \in 1 .. sequence /\ e.at \in 0 .. clock
    BY <1>2, <1>3 DEF SInv, Tables, JournalAhead
  <2>2. \A r \in replays' : r.until = RetainedUntil
    <3>1. \A r \in replays : r.until = RetainedUntil
      BY DEF SInv, Tables
    <3>2. \A r \in c.consumed : r.until = RetainedUntil
      <4>1. PICK token : c.consumed # {} => c.consumed = {[token |-> token, until |-> RetainedUntil]}
        BY <1>3, Zenon DEF ConsumesFine
      <4> QED  BY <4>1
    <3> QED  BY <1>2, <3>1, <3>2
  <2>3. clock' \in Nat /\ sequence' \in Nat
    BY <1>1 DEF SInv, Tables
  <2> QED  BY <1>1, <1>8, <2>1, <2>2, <2>3, Zenon DEF Tables, Distinct, RetainedUntil
<1>10. Processing'
  BY <1>1, <1>2, <1>4, <1>5, ZenonT(30) DEF SInv, Processing
<1>11. LockHeld'
  BY <1>1, <1>5 DEF LockHeld
<1>12. LoginsOver'
  <2>1. \A s \in sessions : pc'[s.handle].step = "done"
    BY <1>4, <1>6 DEF Processes
  <2>2. \A s \in c.started : pc'[s.handle].step = "done"
    <3>1. \A s \in c.started : s.handle \in Handles
      BY <1>7 DEF SessionRows
    <3>2. ASSUME NEW s \in c.started PROVE pc'[s.handle].step = "done"
      <4>1. s.handle = p /\ s.handle \in Handles
        BY <1>7, <3>1, Zenon
      <4> QED  BY <1>2, <1>4, <4>1, Zenon
    <3> QED  BY <3>2, Zenon
  <2>3. \A s \in sessions' : s \in sessions \/ s \in c.started
    BY <1>2
  <2> QED  BY <2>1, <2>2, <2>3 DEF LoginsOver
<1>13. FewSessions(sessions')
  BY <1>2, <1>3 DEF SessionsMove
<1>14. AppliedLast'
  <2> SUFFICES ASSUME NEW o \in Deliveries, pc'[o].step = "applied"
               PROVE  RetainedUntil <= clock \/ \E r \in replays' : r.token = TokenOf[o]
    BY <1>1, Zenon DEF AppliedLast, RetainedUntil
  <2>1. CASE o = p
    <3>1. c.consumed = {[token |-> TokenOf[p], until |-> RetainedUntil]}
      BY <1>2, <1>3, <1>4, <2>1 DEF ConsumesFine
    <3>2. [token |-> TokenOf[p], until |-> RetainedUntil] \in replays'
      BY <1>2, <3>1
    <3>3. [token |-> TokenOf[p], until |-> RetainedUntil].token = TokenOf[p]
      OBVIOUS
    <3> QED  BY <2>1, <3>2, <3>3
  <2>2. CASE o # p
    <3>1. RetainedUntil <= clock \/ \E r \in replays : r.token = TokenOf[o]
      BY <1>4, <2>2 DEF SInv, AppliedLast, Processes
    <3> QED  BY <1>2, <1>3, <3>1 DEF SInv, Tables
  <2> QED  BY <2>1, <2>2
<1>15. WalkFine'
  <2>1. ASSUME NEW e \in events', Walking, Wanted(e) PROVE e \in events
    <3>1. reader.through \in Int
      BY DEF SInv, WalkFine, Walks
    <3>2. e.sequence <= reader.through
      BY <2>1 DEF Wanted
    <3>3. ASSUME e \in c.journal PROVE FALSE
      <4>1. e.sequence \in 1 .. sequence /\ sequence \in Nat /\ reader.through < e.sequence
        BY <1>3, <2>1, <3>3, Zenon DEF JournalAhead, SInv, Tables
      <4> QED  BY <3>1, <3>2, <4>1
    <3>4. e \in events \/ e \in c.journal
      BY <1>2, <2>1
    <3> QED  BY <3>3, <3>4
  <2> QED  BY <1>1, <2>1 DEF SInv, WalkFine, Walking, Wanted
<1>16. SInv'
  <2>1. FewSessions(sessions)'
    BY <1>13 DEF FewSessions, HeldBy
  <2> QED  BY <1>5, <1>9, <1>10, <1>11, <1>12, <1>14, <1>15, <2>1 DEF SInv
<1>17. SessionsStep
  <2>1. events' \ events = c.journal
    <3>1. \A e \in c.journal : e \notin events
      <4>1. \A e \in c.journal : e.sequence \in Int /\ \A f \in events : f.sequence < e.sequence
        <5>1. sequence \in Nat
          BY Zenon DEF SInv, Tables
        <5>2. \A e \in c.journal : e.sequence \in 1 .. sequence /\ \A f \in events : f.sequence < e.sequence
          BY <1>3, Zenon DEF JournalAhead
        <5> QED  BY <5>1, <5>2, Ranges, Zenon
      <4>2. \A x \in Int : ~(x < x)
        OBVIOUS
      <4> QED  BY <4>1, <4>2
    <3> QED  BY <1>2, <3>1
  <2>2. sessions' \ sessions = c.started /\ sessions \ sessions' = c.ended
    BY <1>2, <1>3, <1>7 DEF SessionsMove
  <2> QED  BY <1>3, <1>13, <2>1, <2>2, Zenon DEF SessionsStep, Balanced, FewSessions
<1>18. LogoutStep
  <2> SUFFICES ASSUME NEW d \in Deliveries, pc[d].step # "applied", pc'[d].step = "applied"
               PROVE  /\ \A o \in Deliveries : TokenOf[o] = TokenOf[d] => pc[o].step # "applied"
                      /\ \A s \in sessions' : s.handle \notin TargetOf[TokenOf[d]]
    BY DEF LogoutStep
  <2>1. d = p /\ step = "applied"
    BY <1>4 DEF Processes
  <2> QED  BY <1>2, <1>3, <2>1 DEF ConsumesFine
<1> QED  BY <1>16, <1>17, <1>18

LEMMA ReaderFine ==
    ASSUME SInv, UNCHANGED <<tables, clock, sequence, lock, pending, pc>>, WalkFine',
           Walking' => \A p \in Processes : pc[p].step = "written" =>
                          \A e \in pending[p].journal : reader'.through < e.sequence
    PROVE  SInv'
<1>1. UNCHANGED <<sessions, events, replays, clock, sequence, lock, pending, pc>>
  BY DEF tables
<1>2. Tables' /\ Processing' /\ LockHeld' /\ LoginsOver' /\ FewSessions(sessions)' /\ AppliedLast'
  BY <1>1, ZenonT(30)
     DEF SInv, Tables, Processing, LockHeld, LoginsOver, FewSessions, HeldBy, AppliedLast,
              RetainedUntil
<1>3. ASSUME NEW p \in Processes, pc[p].step = "written"
      PROVE  \E c \in {pending[p]} : ChangeFine(p, c)'
  <2>1. PICK c \in {pending[p]} : ChangeFine(p, c)
    BY <1>3 DEF SInv
  <2>2. SessionsMove(p, c)' /\ Balanced(c)' /\ ConsumesFine(p, c)'
        /\ c.dropped \in SUBSET {r \in replays' : r.until <= clock'}
    BY <1>1, <2>1, Zenon
       DEF ChangeFine, SessionsMove, FewSessions, HeldBy, Balanced, Of, ConsumesFine, RetainedUntil
  <2>3. JournalAhead(c)'
    BY <1>1, <1>3, <2>1 DEF ChangeFine, JournalAhead
  <2> QED  BY <2>1, <2>2, <2>3 DEF ChangeFine
<1> QED  BY <1>1, <1>2, <1>3 DEF SInv

(* The journal rows of an open change are ahead of the walk so far. *)
LEMMA PendingAhead ==
    ASSUME SInv, NEW p \in Processes, pc[p].step = "written", NEW e \in pending[p].journal
    PROVE  /\ e.sequence \in Nat \ {0} /\ \A f \in events : f.sequence < e.sequence
           /\ Walking => reader.through < e.sequence
<1>1. PICK c \in {pending[p]} : ChangeFine(p, c)
  BY DEF SInv
<1>2. JournalAhead(c) /\ e \in c.journal
  BY <1>1 DEF ChangeFine
<1>3. sequence \in Nat
  BY DEF SInv, Tables
<1> QED  BY <1>2, <1>3 DEF JournalAhead

LEMMA OpenPageFine == ASSUME SInv, OpenPage PROVE SInv'
<1>1. UNCHANGED <<tables, clock, sequence, lock, pending, pc>> /\ UNCHANGED <<events, sessions>>
  BY DEF OpenPage, tables
<1>2. reader \in Walks /\ clock \in Nat /\ reader.first <= clock
  BY DEF SInv, WalkFine, Tables, Walks
<1>3. CASE reader.pc = "idle" /\ reader' = [reader EXCEPT !.pc = "first", !.now = clock, !.first = clock]
  <2>1. /\ reader' \in Walks /\ reader'.pc = "first" /\ reader'.now = clock /\ reader'.first = clock
        /\ reader'.before = 0
    BY <1>2, <1>3, Zenon DEF Walks, SInv, WalkFine
  <2>2. clock <= clock /\ UNCHANGED clock
    BY <1>1, <1>2
  <2>3. WalkFine' /\ ~Walking'
    BY <2>1, <2>2, Zenon DEF WalkFine, Walking
  <2> QED  BY <1>1, <2>3, ReaderFine
<1>4. CASE reader.pc = "more" /\ reader' = [reader EXCEPT !.pc = "reading", !.now = clock]
  <2>1. /\ reader' \in Walks /\ reader'.pc = "reading" /\ reader'.now = clock
        /\ reader'.first = reader.first /\ reader'.before = reader.before
        /\ reader'.items = reader.items /\ reader'.through = reader.through
    BY <1>2, <1>4, Zenon DEF Walks
  <2>2. WalkFine'
    BY <1>1, <1>2, <1>4, <2>1 DEF SInv, WalkFine, Walking, Wanted
  <2>3. \A p \in Processes : pc[p].step = "written" =>
           \A e \in pending[p].journal : reader'.through < e.sequence
    BY <1>4, <2>1, PendingAhead DEF Walking
  <2> QED  BY <1>1, <2>2, <2>3, ReaderFine
<1> QED  BY <1>3, <1>4 DEF OpenPage

LEMMA WatermarkFine == ASSUME SInv, ReadWatermark PROVE SInv'
<1> DEFINE S == {0} \cup {e.sequence : e \in events}
<1>1. UNCHANGED <<tables, clock, sequence, lock, pending, pc>> /\ UNCHANGED <<events, sessions>>
      /\ reader.pc = "first" /\ reader' = [reader EXCEPT !.pc = "reading", !.through = Max(S)]
  BY DEF ReadWatermark, tables
<1>2. Max(S) \in S /\ Max(S) \in Nat /\ Max(S) <= sequence
  <2>1. sequence \in Nat /\ S \in SUBSET (0 .. sequence) /\ S # {}
    BY DEF SInv, Tables
  <2>2. Max(S) \in S
    BY <2>1, GreatestOf, Zenon
  <2>3. PICK x \in 0 .. sequence : x = Max(S)
    BY <2>1, <2>2, Zenon
  <2>4. x \in Nat /\ x <= sequence
    BY <2>1
  <2> QED  BY <2>2, <2>3, <2>4, Zenon
<1> HIDE DEF S
<1>3. reader \in Walks /\ reader.now <= clock /\ reader.first <= reader.now /\ reader.before = 0
  BY <1>1 DEF SInv, WalkFine
<1>4. /\ reader' \in Walks /\ reader'.pc = "reading" /\ reader'.now = reader.now
      /\ reader'.first = reader.first /\ reader'.before = 0 /\ reader'.through = Max(S)
  BY <1>1, <1>2, <1>3, Zenon DEF Walks
<1>5. WalkFine'
  BY <1>1, <1>2, <1>3, <1>4 DEF WalkFine
<1>6. ASSUME NEW p \in Processes, pc[p].step = "written", NEW e \in pending[p].journal
      PROVE  reader'.through < e.sequence
  <2>1. e.sequence \in Nat \ {0} /\ \A f \in events : f.sequence < e.sequence
    BY <1>6, PendingAhead
  <2>2. \A x \in S : x < e.sequence
    BY <2>1 DEF S
  <2> QED  BY <1>2, <1>4, <2>2
<1> QED  BY <1>1, <1>5, <1>6, ReaderFine

LEMMA ReadPageFine == ASSUME SInv, ReadPage PROVE SInv'
<1>1. UNCHANGED <<tables, clock, sequence, lock, pending, pc>> /\ UNCHANGED <<events, sessions>>
      /\ reader.pc = "reading"
  BY DEF ReadPage, tables
<1>2. PICK all, page : all = Entries /\ page = Top(all)
  OBVIOUS
<1>3. reader' = [reader EXCEPT !.pc = IF page # all THEN "more" ELSE "done",
                               !.items = @ \cup page,
                               !.before = IF page # all THEN Min(page) ELSE @]
  <2>1. page = {n \in Entries : Cardinality({m \in Entries : m >= n}) <= PageLimit}
    BY <1>2 DEF Top
  <2> QED  BY <1>2, <2>1 DEF ReadPage
<1>4. sequence \in Nat /\ all \in SUBSET (1 .. sequence) /\ all \in SUBSET Nat /\ page \in SUBSET all
  <2>1. all \in SUBSET (1 .. sequence) /\ sequence \in Nat
    BY <1>2 DEF Entries, SInv, Tables
  <2>2. \A x \in 1 .. sequence : x \in Nat
    BY <2>1
  <2> QED  BY <1>2, <2>1, <2>2 DEF Top
<1>5. ASSUME page # all
      PROVE  Min(page) \in Nat \ {0} /\ \A m \in all \ page : m < Min(page)
  <2>1. all # {}
    BY <1>4, <1>5, Zenon
  <2>2. Min(page) \in page /\ \A m \in all \ page : m < Min(page)
    BY <1>2, <1>4, <2>1, PageIsTop, Numbers, Zenon
  <2>3. PICK x \in 1 .. sequence : x = Min(page)
    BY <1>4, <2>2, Zenon
  <2>4. x \in Nat \ {0}
    BY <1>4
  <2> QED  BY <2>2, <2>3, <2>4
<1>6. reader \in Walks /\ reader.now <= clock /\ reader.first <= reader.now /\ reader.through <= sequence
  BY <1>1 DEF SInv, WalkFine, Walking
<1>7. /\ reader' \in Walks /\ reader'.pc = (IF page # all THEN "more" ELSE "done")
      /\ reader'.now = reader.now /\ reader'.first = reader.first /\ reader'.through = reader.through
      /\ reader'.items = reader.items \cup page
      /\ reader'.before = IF page # all THEN Min(page) ELSE reader.before
  <2>1. reader.items \cup page \in SUBSET Nat /\ reader.before \in Nat
    BY <1>4, <1>6, Zenon DEF Walks
  <2>2. (IF page # all THEN Min(page) ELSE reader.before) \in Nat
    BY <1>5, <2>1
  <2> QED  BY <1>3, <1>6, <2>1, <2>2, Zenon DEF Walks
<1>8. ASSUME NEW e \in events, Wanted(e), e.sequence \notin reader.items PROVE e.sequence \in all
  <2>1. reader.before = 0 \/ e.sequence < reader.before
    BY <1>1, <1>8 DEF SInv, WalkFine, Walking
  <2>2. /\ e.at \in Int /\ clock \in Int /\ reader.now \in Int /\ reader.first \in Int
        /\ Retention \in Int /\ reader.before \in Nat
    <3>1. clock \in Nat /\ e.at \in 0 .. clock
      BY Zenon DEF SInv, Tables
    <3>2. reader.now \in Nat /\ reader.first \in Nat /\ reader.before \in Nat
      BY <1>6, Zenon DEF Walks
    <3> QED  BY <3>1, <3>2, Numbers
  <2>3. reader.now < e.at + Retention
    BY <1>6, <1>8, <2>2 DEF Wanted
  <2>4. e.at < reader.now
    BY <1>6, <1>8, <2>2 DEF Wanted
  <2>5. reader.before > 0 => e.sequence < reader.before
    BY <2>1, <2>2
  <2> QED  BY <1>2, <1>8, <2>3, <2>4, <2>5 DEF Entries, Wanted
<1>9. ASSUME NEW e \in events, Wanted(e)'
      PROVE  \/ e.sequence \in reader'.items
             \/ reader'.pc # "done" /\ (reader'.before = 0 \/ e.sequence < reader'.before)
  <2>1. Wanted(e)
    BY <1>1, <1>7, <1>9 DEF Wanted
  <2>2. CASE e.sequence \in reader.items \cup page
    BY <1>7, <2>2
  <2>3. CASE e.sequence \notin reader.items /\ e.sequence \notin page
    <3>1. e.sequence \in all /\ page # all
      BY <1>8, <2>1, <2>3
    <3> QED  BY <1>5, <1>7, <2>3, <3>1
  <2> QED  BY <2>2, <2>3
<1>10. WalkFine'
  BY <1>1, <1>6, <1>7, <1>9 DEF WalkFine
<1>11. \A p \in Processes : pc[p].step = "written" =>
           \A e \in pending[p].journal : reader'.through < e.sequence
  BY <1>1, <1>7, PendingAhead DEF Walking
<1> QED  BY <1>1, <1>10, <1>11, ReaderFine

----------------------------------------------------------------------------
(* A step that leaves the session table and the journal alone, and applies  *)
(* no logout. *)
LEMMA QuietStep ==
    ASSUME SInv, UNCHANGED <<sessions, events>>,
           \A d \in Deliveries : pc'[d].step = "applied" => pc[d].step = "applied"
    PROVE  SessionsStep /\ LogoutStep
<1>1. \A i, a : Of({}, i, a) = {} /\ HeldBy({}, i) = {}
  BY DEF Of, HeldBy
<1>2. events' \ events = {} /\ sessions' \ sessions = {} /\ sessions \ sessions' = {}
  OBVIOUS
<1>3. SessionsStep
  BY <1>1, <1>2, Zenon DEF SessionsStep, SInv, FewSessions
<1>4. LogoutStep
  BY DEF LogoutStep
<1> QED  BY <1>3, <1>4

(* Only a commit applies a logout. *)
LEMMA MovesQuietly ==
    ASSUME SInv, NEW p, NEW new, pc' = [pc EXCEPT ![p] = new], new.step # "applied"
    PROVE  \A d \in Deliveries : pc'[d].step = "applied" => pc[d].step = "applied"
  BY DEF SInv, Processing, Processes

LEMMA WriteQuiet == ASSUME SInv, NEW p, NEW c, Write(p, c) PROVE SessionsStep /\ LogoutStep
<1>1. UNCHANGED <<sessions, events>> /\ pc' = [pc EXCEPT ![p] = [step |-> "written", session |-> None]]
  BY DEF Write, tables, At, With
<1> QED  BY <1>1, MovesQuietly, QuietStep

LEMMA FinishQuiet ==
    ASSUME SInv, NEW p, NEW step, step # "applied", Finish(p, step), UNCHANGED <<sessions, events>>
    PROVE  SessionsStep /\ LogoutStep
<1>1. PICK new : new = At(IF p \in Handles THEN "done" ELSE step)
  OBVIOUS
<1>2. new.step # "applied" /\ pc' = [pc EXCEPT ![p] = new]
  BY <1>1 DEF At, With, Finish
<1> QED  BY <1>2, MovesQuietly, QuietStep

LEMMA WithQuiet ==
    ASSUME SInv, NEW p, NEW step, NEW s, step # "applied", pc' = [pc EXCEPT ![p] = With(step, s)],
           UNCHANGED <<sessions, events>>
    PROVE  SessionsStep /\ LogoutStep
<1>1. PICK new : new = With(step, s)
  OBVIOUS
<1>2. new.step # "applied" /\ pc' = [pc EXCEPT ![p] = new]
  BY <1>1 DEF With
<1> QED  BY <1>2, MovesQuietly, QuietStep

LEMMA LoginNext ==
    ASSUME SInv, NEW h \in Handles,
           \/ Issue(h) \/ LockReplace(h)
           \/ \E previous \in {{}} \cup {{s} : s \in sessions} : WriteReplace(h, previous)
    PROVE  SInv' /\ SessionsStep /\ LogoutStep
<1>1. CASE Issue(h)
  <2>1. PICK s : pc' = [pc EXCEPT ![h] = With("issued", s)]
    BY <1>1, Zenon DEF Issue
  <2> QED  BY <1>1, <2>1, IssueFine, WithQuiet, Zenon DEF Issue, tables
<1>2. CASE LockReplace(h)
  <2>1. CASE pc' = [pc EXCEPT ![h] = With("locked", pc[h].session)]
    <3>1. PICK s : s = pc[h].session
      OBVIOUS
    <3> QED  BY <1>2, <2>1, <3>1, LockReplaceFine, WithQuiet, Zenon DEF LockReplace, tables
  <2>2. CASE Finish(h, "done")
    BY <1>2, <2>2, LockReplaceFine, FinishQuiet DEF LockReplace, tables
  <2> QED  BY <1>2, <2>1, <2>2 DEF LockReplace
<1>3. ASSUME NEW previous \in {{}} \cup {{s} : s \in sessions}, WriteReplace(h, previous)
      PROVE  SInv' /\ SessionsStep /\ LogoutStep
  <2>1. SInv'
    BY <1>3, WriteReplaceFine
  <2>2. CASE Rollback(h)
    BY <2>1, <2>2, FinishQuiet DEF Rollback, tables
  <2>3. ASSUME NEW c, Write(h, c) PROVE SInv' /\ SessionsStep /\ LogoutStep
    BY <2>1, <2>3, WriteQuiet
  <2>4. Rollback(h) \/ \E c : Write(h, c)
    BY <1>3, Zenon DEF WriteReplace
  <2> QED  BY <2>2, <2>3, <2>4
<1> QED  BY <1>1, <1>2, <1>3

LEMMA ClientNext ==
    ASSUME SInv, NEW c \in Clients,
           \/ \E s \in sessions : LoadExpired(c, s) \/ Delete(c, s)
           \/ \E i \in Identities : Diagnose(c, i)
           \/ DeleteExpired(c) \/ CleanUp(c)
    PROVE  SInv' /\ SessionsStep /\ LogoutStep
<1>1. ASSUME NEW s \in sessions, LoadExpired(c, s) PROVE SInv' /\ SessionsStep /\ LogoutStep
  BY <1>1, LoadExpiredFine, WithQuiet, Zenon DEF LoadExpired, tables
<1>2. CASE \E d : Write(c, d)
  BY <1>2, WriteQuiet, LoadExpiredFine, DeleteFine, DiagnoseFine, DeleteExpiredFine, CleanUpFine
<1>3. (\E s \in sessions : LoadExpired(c, s)) \/ \E d : Write(c, d)
  BY Zenon DEF Delete, Diagnose, DeleteExpired, CleanUp, WriteEnds
<1> QED  BY <1>1, <1>2, <1>3

LEMMA DeliveryNext ==
    ASSUME SInv, NEW d \in Deliveries, AdmitLogout(d) \/ ConsumeLogout(d)
    PROVE  SInv' /\ SessionsStep /\ LogoutStep
<1>1. CASE AdmitLogout(d)
  BY <1>1, AdmitFine, WithQuiet, Zenon DEF AdmitLogout, At, tables
<1>2. CASE ConsumeLogout(d)
  <2>1. \E c : Write(d, c)
    BY <1>2 DEF ConsumeLogout
  <2> QED  BY <1>2, <2>1, ConsumeFine, WriteQuiet
<1> QED  BY <1>1, <1>2

LEMMA OtherNext ==
    ASSUME SInv, OpenPage \/ ReadWatermark \/ ReadPage \/ Tick
    PROVE  SInv' /\ SessionsStep /\ LogoutStep
<1>1. SInv'
  BY OpenPageFine, WatermarkFine, ReadPageFine, TickFine
<1>2. UNCHANGED <<sessions, events, pc>>
  BY DEF OpenPage, ReadWatermark, ReadPage, Tick, tables
<1> QED  BY <1>1, <1>2, QuietStep

LEMMA SNext == ASSUME SInv, Next PROVE SInv' /\ SessionsStep /\ LogoutStep
<1>1. ASSUME NEW p \in Processes, Rollback(p) PROVE SInv' /\ SessionsStep /\ LogoutStep
  BY <1>1, RollbackFine, FinishQuiet, Zenon DEF Rollback, tables
<1> QED  BY <1>1, LoginNext, ClientNext, DeliveryNext, CommitFine, OtherNext DEF Next

LEMMA SStutter == ASSUME SInv, UNCHANGED vars PROVE SInv'
<1>1. UNCHANGED <<tables, clock, sequence, lock, pending, pc, reader>>
  BY DEF vars, tables
<1>2. WalkFine'
  BY <1>1 DEF SInv, WalkFine, Walking, Wanted, tables
<1>3. Walking' => \A p \in Processes : pc[p].step = "written" =>
                     \A e \in pending[p].journal : reader'.through < e.sequence
  BY <1>1, PendingAhead DEF Walking
<1> QED  BY <1>1, <1>2, <1>3, ReaderFine

LEMMA AlwaysSInv == Spec => []SInv
<1>1. SInv /\ [Next]_vars => SInv'
  BY SNext, SStutter
<1> QED  BY <1>1, SInit, PTL DEF Spec

(* However writers and expiry interleave with it, a finished walk through   *)
(* the pages of the journal holds every event up to its watermark that      *)
(* occurred before it began and is still retained: the rows of an open      *)
(* transaction are ahead of every watermark until lock_activity is free.    *)
THEOREM WalksComplete == Spec => []PagesSkipNothing
<1>1. SInv => PagesSkipNothing
  BY DEF SInv, WalkFine, Walking, Wanted, PagesSkipNothing
<1> QED  BY <1>1, AlwaysSInv, PTL

(* Each login and each end of a session is journaled exactly once, and no   *)
(* identity ever holds more sessions than replace allows.                   *)
THEOREM Accounted == Spec => SessionsAccounted
<1>1. SInv /\ [Next]_vars => [SessionsStep]_vars
  BY SNext
<1> QED  BY <1>1, AlwaysSInv, PTL DEF Spec, SessionsAccounted, SessionsStep

(* A logout token takes effect at most once, and then on every session it   *)
(* selects: consume_and_delete holds the lock through its commit, and a     *)
(* replay row is only dropped when the guarded insert refuses the token.    *)
THEOREM LogoutsOnce == Spec => LogoutsTakeEffectOnce
<1>1. SInv /\ [Next]_vars => [LogoutStep]_vars
  BY SNext
<1> QED  BY <1>1, AlwaysSInv, PTL DEF Spec, LogoutsTakeEffectOnce, LogoutStep

=============================================================================
