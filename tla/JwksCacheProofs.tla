-------------------------- MODULE JwksCacheProofs ---------------------------
(***************************************************************************)
(* The key cache for every number of callers, every key set and every      *)
(* window.                                                                 *)
(*                                                                         *)
(* At most one fetch is in flight, and a closed provider starts none and   *)
(* hands out no key set.  SingleFlight is not inductive: what keeps a      *)
(* second fetch from starting is that _refresh_task names every unfinished *)
(* task until aclose (IInv).                                               *)
(*                                                                         *)
(* How old a key may be, how close together fetches may start and which    *)
(* response the snapshot holds are facts about ages.  CallInv relates the  *)
(* calls to the tasks they wait for; AgeInv says how long ago the keys of  *)
(* a response were served at the latest, that an unpublished response is   *)
(* younger than the snapshot, and that what is left to wait makes up for   *)
(* the time since the last fetch.                                          *)
(***************************************************************************)
EXTENDS JwksCache, FiniteSetTheorems, TLAPS


TaskStates == {"free", "running", "answered", "ok", "failed", "cancelled"}

TasksTyped ==
    /\ task \in [Tasks -> [state : TaskStates, keys : SUBSET Keys, age : Nat]]
    /\ served \subseteq Keys
    /\ closed \in BOOLEAN
    /\ DOMAIN caller = Callers

(* Before aclose the shared task is the only one unfinished; after it no    *)
(* other is ever started.                                                   *)
OneUnfinished ==
    /\ \A t, u \in Tasks : Unfinished(t) /\ Unfinished(u) => t = u
    /\ \A t \in Tasks : Unfinished(t) /\ ~closed => refresh = t

ClosedIsEmpty == closed => snapshot = None

(* The inductive invariant. *)
IInv == TasksTyped /\ OneUnfinished /\ ClosedIsEmpty

(* Every step but the start of a fetch leaves no task unfinished that was   *)
(* not, and wakes no free one.                                              *)
NoneStarts ==
    \A t \in Tasks : /\ task'[t].state \in {"running", "answered"} => Unfinished(t)
                     /\ task[t].state = "free" => task'[t].state = "free"

(* Time passes between a wait and the time since the last fetch. *)
LEMMA SumBounds ==
    ASSUME NEW w \in Nat, NEW i \in Nat, NEW x \in Nat, NEW y \in Nat, NEW g \in Nat,
           y >= g \/ (w + i >= g /\ x >= w - 1 /\ y = i + 1)
    PROVE  x + y >= g
  OBVIOUS

LEMMA RestBounds ==
    ASSUME NEW a \in Nat, NEW m \in Nat, NEW x \in Nat, NEW y \in Nat, NEW g \in Nat,
           x >= m - a, y >= a, g <= m
    PROVE  x + y >= g
  OBVIOUS

USE JwksAssumption

LEMMA InitIInv == Init => IInv
<1> SUFFICES ASSUME Init PROVE IInv
  OBVIOUS
<1>1. \A t \in Tasks : task[t].state = "free"
  BY DEF Init, Free
<1>2. task \in [Tasks -> [state : TaskStates, keys : SUBSET Keys, age : Nat]]
  <2>1. Free \in [state : TaskStates, keys : SUBSET Keys, age : Nat]
    BY DEF Free, TaskStates
  <2> QED  BY <2>1 DEF Init
<1>3. closed = FALSE /\ served \subseteq Keys /\ DOMAIN caller = Callers
  BY DEF Init
<1> QED  BY <1>1, <1>2, <1>3, Zenon
            DEF IInv, TasksTyped, OneUnfinished, ClosedIsEmpty, Unfinished

(* Tidy only drops finished tasks. *)
LEMMA TidyTyped ==
    ASSUME NEW f \in [Tasks -> [state : TaskStates, keys : SUBSET Keys, age : Nat]],
           NEW cs, NEW r
    PROVE  /\ Tidy(f, cs, r) \in [Tasks -> [state : TaskStates, keys : SUBSET Keys, age : Nat]]
           /\ \A t \in Tasks : Tidy(f, cs, r)[t] = f[t] \/ Tidy(f, cs, r)[t].state = "free"
  BY DEF Tidy, Free, TaskStates

LEMMA EndedStarts ==
    ASSUME IInv, NEW t \in Tasks, Unfinished(t),
           NEW result \in [state : {"ok", "failed", "cancelled"}, keys : SUBSET Keys, age : Nat],
           Ended(t, result)
    PROVE  /\ task' \in [Tasks -> [state : TaskStates, keys : SUBSET Keys, age : Nat]]
           /\ NoneStarts
<1> DEFINE f == [task EXCEPT ![t] = result]
<1>1. f \in [Tasks -> [state : TaskStates, keys : SUBSET Keys, age : Nat]]
  BY DEF IInv, TasksTyped, TaskStates
<1>2. task' = Tidy(f, caller, refresh)
  BY DEF Ended
<1>3. \A u \in Tasks : f[u] = IF u = t THEN result ELSE task[u]
  BY DEF IInv, TasksTyped
<1> HIDE DEF f
<1>4. task' \in [Tasks -> [state : TaskStates, keys : SUBSET Keys, age : Nat]]
  BY <1>1, <1>2, TidyTyped
<1>5. \A u \in Tasks : task'[u] = f[u] \/ task'[u].state = "free"
  BY <1>1, <1>2, TidyTyped
<1> QED  BY <1>3, <1>4, <1>5 DEF NoneStarts, Unfinished

(* A step that starts nothing and keeps the shared task, or drops a         *)
(* finished one, or closes, keeps one unfinished task.                      *)
LEMMA NoneStartsPreserves ==
    ASSUME IInv, NoneStarts, closed' \in BOOLEAN,
           closed' \/ (~closed /\ (refresh' = refresh
                                   \/ \A t \in Tasks : refresh = t => ~Unfinished(t)))
    PROVE  OneUnfinished'
  BY DEF IInv, OneUnfinished, NoneStarts, Unfinished

(* Only a lookup that finds no shared task starts one. *)
LEMMA LookupStep ==
    ASSUME IInv, NEW c \in Callers, NEW key \in Lookups, Lookup(c, key)
    PROVE  /\ IInv'
           /\ closed => /\ task' = task
                        /\ \A d \in Callers : caller'[d].pc = "served" => caller[d].pc = "served"
<1>1. UNCHANGED <<served, snapshot, closed>>
  BY DEF Lookup
<1>2. DOMAIN caller' = Callers
  BY DEF Lookup, StartRefresh, Finish, IInv, TasksTyped
<1>3. CASE UNCHANGED <<refresh, task>>
  <2>1. IInv'
    BY <1>1, <1>2, <1>3 DEF IInv, TasksTyped, OneUnfinished, ClosedIsEmpty, Unfinished
  <2>2. ASSUME closed
        PROVE  \A d \in Callers : caller'[d].pc = "served" => caller[d].pc = "served"
    <3>1. caller' = Finish(c, "refused", {})
      BY <2>2 DEF Lookup
    <3>2. caller'[c].pc = "refused" /\ \A d \in Callers \ {c} : caller'[d] = caller[d]
      BY <3>1 DEF Finish, NewCall, IInv, TasksTyped
    <3> QED  BY <3>2
  <2> QED  BY <1>3, <2>1, <2>2
<1>4. CASE ~UNCHANGED <<refresh, task>>
  <2>1. ~closed /\ refresh = None /\ StartRefresh(c, key)
    BY <1>4 DEF Lookup
  <2>2. PICK t : task' = [task EXCEPT ![t].state = "running"] /\ refresh' = t
    BY <1>4, <2>1 DEF StartRefresh
  <2>3. task' \in [Tasks -> [state : TaskStates, keys : SUBSET Keys, age : Nat]]
    BY <2>2, ZenonT(30) DEF IInv, TasksTyped, TaskStates
  <2>4. \A u \in Tasks : u # t => task'[u] = task[u]
    BY <2>2 DEF IInv, TasksTyped
  <2>5. \A u \in Tasks : ~Unfinished(u)
    <3>1. \A u \in Tasks : u \in Nat
      <4>1. Cardinality(Callers) \in Nat  BY FS_CardinalityType
      <4> QED  BY <4>1 DEF Tasks
    <3> QED  BY <2>1, <3>1 DEF IInv, OneUnfinished
  <2>6. OneUnfinished'
    BY <1>1, <2>2, <2>4, <2>5, <2>1 DEF OneUnfinished, Unfinished, IInv
  <2> QED  BY <1>1, <1>2, <2>1, <2>3, <2>6 DEF IInv, TasksTyped, ClosedIsEmpty
<1> QED  BY <1>3, <1>4

(* What ClosedServesNothing says of a step. *)
ClosedStep ==
    closed => /\ \A c \in Callers : caller'[c].pc = "served" => caller[c].pc = "served"
              /\ \A t \in Tasks : task[t].state = "free" => task'[t].state = "free"

(* A caller that stops waiting may leave a finished task to be dropped. *)
LEMMA TidiedStarts ==
    ASSUME IInv, NEW cs, NEW r, task' = Tidy(task, cs, r)
    PROVE  /\ task' \in [Tasks -> [state : TaskStates, keys : SUBSET Keys, age : Nat]]
           /\ NoneStarts
<1>1. task \in [Tasks -> [state : TaskStates, keys : SUBSET Keys, age : Nat]]
  BY DEF IInv, TasksTyped
<1> QED  BY <1>1, TidyTyped DEF NoneStarts, Unfinished

LEMMA ResumeStep ==
    ASSUME IInv, NEW c \in Callers, Resume(c)
    PROVE  IInv' /\ ClosedStep
<1>1. UNCHANGED <<served, closed>> /\ closed \in BOOLEAN
  BY DEF Resume, IInv, TasksTyped
<1>2. /\ task' \in [Tasks -> [state : TaskStates, keys : SUBSET Keys, age : Nat]]
      /\ NoneStarts
  BY TidiedStarts DEF Resume
<1>3. closed \/ refresh' = refresh \/ \A t \in Tasks : refresh = t => ~Unfinished(t)
  BY DEF Resume, Publish
<1>4. OneUnfinished'
  BY <1>1, <1>2, <1>3, NoneStartsPreserves
<1>5. closed => snapshot' = snapshot
  BY DEF Resume, Publish
<1>6. /\ DOMAIN caller' = Callers
      /\ caller'[c].pc \in {"refused", "settling"}
      /\ \A d \in Callers \ {c} : caller'[d] = caller[d]
  <2>1. PICK q : caller' = [caller EXCEPT ![c] = q] /\ q.pc \in {"refused", "settling"}
    <3>1. CASE task[caller[c].task].state = "cancelled"
      <4> DEFINE q == [NewCall EXCEPT !.pc = "refused", !.got = {}]
      <4>1. caller' = [caller EXCEPT ![c] = q]
        BY <3>1 DEF Resume, Finish
      <4>2. q.pc = "refused"
        BY DEF NewCall
      <4> HIDE DEF q
      <4> QED  BY <4>1, <4>2, Zenon
    <3>2. CASE task[caller[c].task].state # "cancelled"
      <4> DEFINE q == [caller[c] EXCEPT !.pc = "settling", !.task = None]
      <4>1. caller' = [caller EXCEPT ![c] = q]
        BY <3>2, Zenon DEF Resume, IInv, TasksTyped
      <4>2. q.pc = "settling"
        BY DEF Resume
      <4> QED  BY <4>1, <4>2, Zenon
    <3> QED  BY <3>1, <3>2
  <2> QED  BY <2>1 DEF IInv, TasksTyped
<1> QED
  BY <1>1, <1>2, <1>4, <1>5, <1>6
     DEF IInv, TasksTyped, ClosedIsEmpty, ClosedStep, NoneStarts

LEMMA LeaveStep ==
    ASSUME IInv, NEW c \in Callers, Leave(c)
    PROVE  IInv' /\ ClosedStep
<1>1. UNCHANGED <<served, closed, snapshot, refresh>> /\ closed \in BOOLEAN
  BY DEF Leave, IInv, TasksTyped
<1>2. /\ task' \in [Tasks -> [state : TaskStates, keys : SUBSET Keys, age : Nat]]
      /\ NoneStarts
  BY TidiedStarts, Zenon DEF Leave
<1>3. OneUnfinished'
  BY <1>1, <1>2, NoneStartsPreserves
<1>4. /\ DOMAIN caller' = Callers
      /\ caller'[c].pc = "idle"
      /\ \A d \in Callers \ {c} : caller'[d] = caller[d]
  BY DEF Leave, NewCall, IInv, TasksTyped
<1> QED
  BY <1>1, <1>2, <1>3, <1>4 DEF IInv, TasksTyped, ClosedIsEmpty, ClosedStep, NoneStarts

(* After aclose there is no snapshot to match. *)
LEMMA SettleStep ==
    ASSUME IInv, NEW c \in Callers, Settle(c)
    PROVE  IInv' /\ ClosedStep
<1>1. UNCHANGED <<served, closed, snapshot, refresh, task>>
  BY DEF Settle
<1>2. /\ DOMAIN caller' = Callers
      /\ closed => caller'[c].pc = "refused"
      /\ \A d \in Callers \ {c} : caller'[d] = caller[d]
  BY DEF Settle, Matches, Finish, NewCall, IInv, TasksTyped, ClosedIsEmpty
<1> QED
  BY <1>1, <1>2
     DEF IInv, TasksTyped, OneUnfinished, Unfinished, ClosedIsEmpty, ClosedStep

LEMMA AnswerStep ==
    ASSUME IInv, NEW t \in Tasks, Answer(t)
    PROVE  IInv' /\ ClosedStep
<1>1. UNCHANGED <<served, closed, snapshot, refresh, caller>> /\ closed \in BOOLEAN
  BY DEF Answer, IInv, TasksTyped
<1> DEFINE q == [task[t] EXCEPT !.state = "answered", !.keys = served]
<1>2. task[t] \in [state : TaskStates, keys : SUBSET Keys, age : Nat] /\ served \in SUBSET Keys
  BY DEF IInv, TasksTyped
<1>3. q \in [state : TaskStates, keys : SUBSET Keys, age : Nat]
  BY <1>2, Zenon DEF TaskStates
<1>4. task' = [task EXCEPT ![t] = q] /\ task[t].state = "running"
  BY Zenon DEF Answer, IInv, TasksTyped
<1> HIDE DEF q
<1>5. /\ task' \in [Tasks -> [state : TaskStates, keys : SUBSET Keys, age : Nat]]
      /\ \A u \in Tasks \ {t} : task'[u] = task[u]
  BY <1>3, <1>4 DEF IInv, TasksTyped
<1>6. NoneStarts
  BY <1>4, <1>5 DEF NoneStarts, Unfinished
<1>7. OneUnfinished'
  BY <1>1, <1>6, NoneStartsPreserves
<1> QED
  BY <1>1, <1>5, <1>6, <1>7 DEF IInv, TasksTyped, ClosedIsEmpty, ClosedStep, NoneStarts

LEMMA EndedStep ==
    ASSUME IInv, NEW t \in Tasks,
           RefreshSucceeds(t) \/ RefreshFails(t) \/ RefreshCancelled(t)
    PROVE  IInv' /\ ClosedStep
<1>1. PICK result \in [state : {"ok", "failed", "cancelled"}, keys : SUBSET Keys, age : Nat] :
        Ended(t, result)
  <2>1. task[t].keys \in SUBSET Keys
    BY DEF IInv, TasksTyped
  <2>2. /\ [state |-> "ok", keys |-> task[t].keys, age |-> 0]
             \in [state : {"ok", "failed", "cancelled"}, keys : SUBSET Keys, age : Nat]
        /\ [Free EXCEPT !.state = "failed"]
             \in [state : {"ok", "failed", "cancelled"}, keys : SUBSET Keys, age : Nat]
        /\ [Free EXCEPT !.state = "cancelled"]
             \in [state : {"ok", "failed", "cancelled"}, keys : SUBSET Keys, age : Nat]
    BY <2>1 DEF Free
  <2> QED  BY <2>2 DEF RefreshSucceeds, RefreshFails, RefreshCancelled
<1>2. Unfinished(t)
  BY DEF RefreshSucceeds, RefreshFails, RefreshCancelled, Unfinished
<1>3. UNCHANGED <<served, closed, snapshot, refresh, caller>> /\ closed \in BOOLEAN
  BY <1>1 DEF Ended, IInv, TasksTyped
<1>4. /\ task' \in [Tasks -> [state : TaskStates, keys : SUBSET Keys, age : Nat]]
      /\ NoneStarts
  BY <1>1, <1>2, EndedStarts
<1>5. OneUnfinished'
  BY <1>3, <1>4, NoneStartsPreserves
<1> QED
  BY <1>3, <1>4, <1>5 DEF IInv, TasksTyped, ClosedIsEmpty, ClosedStep, NoneStarts

LEMMA CloseStep == ASSUME IInv, Close PROVE IInv' /\ ClosedStep
<1>1. closed' = TRUE /\ ~closed /\ snapshot' = None /\ UNCHANGED <<served, caller>>
  BY DEF Close
<1>2. /\ task' \in [Tasks -> [state : TaskStates, keys : SUBSET Keys, age : Nat]]
      /\ NoneStarts
  BY TidiedStarts DEF Close
<1>3. OneUnfinished'
  BY <1>1, <1>2, NoneStartsPreserves
<1> QED  BY <1>1, <1>2, <1>3 DEF IInv, TasksTyped, ClosedIsEmpty, ClosedStep

LEMMA TickStep == ASSUME IInv, Tick PROVE IInv' /\ ClosedStep
<1>1. UNCHANGED <<served, closed, refresh, caller>> /\ closed \in BOOLEAN
  BY DEF Tick, IInv, TasksTyped
<1>2. closed => snapshot' = None
  BY DEF Tick, IInv, ClosedIsEmpty
<1>3. \A n \in Nat : Capped(n, MaxAge) \in Nat
  BY DEF Capped
<1>4. \A t \in Tasks : /\ task'[t] \in [state : TaskStates, keys : SUBSET Keys, age : Nat]
                        /\ task'[t].state = task[t].state
  <2> SUFFICES ASSUME NEW t \in Tasks
               PROVE  /\ task'[t] \in [state : TaskStates, keys : SUBSET Keys, age : Nat]
                      /\ task'[t].state = task[t].state
    OBVIOUS
  <2>1. task[t] \in [state : TaskStates, keys : SUBSET Keys, age : Nat]
    BY DEF IInv, TasksTyped
  <2>2. Capped(task[t].age, MaxAge) \in Nat /\ task[t].age + 1 \in Nat  BY <1>3, <2>1
  <2>3. \/ task'[t] = task[t]
        \/ task'[t] = [task[t] EXCEPT !.age = task[t].age + 1]
        \/ task'[t] = [task[t] EXCEPT !.age = Capped(task[t].age, MaxAge)]
    BY DEF Tick
  <2> QED  BY <2>1, <2>2, <2>3
<1>5. task' \in [Tasks -> [state : TaskStates, keys : SUBSET Keys, age : Nat]]
  <2>1. task' = [t \in Tasks |-> task'[t]]  BY DEF Tick
  <2> QED  BY <1>4, <2>1
<1>6. NoneStarts
  BY <1>4 DEF NoneStarts, Unfinished
<1>7. OneUnfinished'
  BY <1>1, <1>6, NoneStartsPreserves
<1> QED
  BY <1>1, <1>2, <1>5, <1>6, <1>7 DEF IInv, TasksTyped, ClosedIsEmpty, ClosedStep, NoneStarts

LEMMA NextIInv == ASSUME IInv, [Next]_vars PROVE IInv' /\ ClosedStep
<1>1. CASE UNCHANGED vars
  BY <1>1 DEF vars, IInv, TasksTyped, OneUnfinished, Unfinished, ClosedIsEmpty, ClosedStep
<1>2. CASE Rotate
  BY <1>2 DEF Rotate, IInv, TasksTyped, OneUnfinished, Unfinished, ClosedIsEmpty, ClosedStep
<1>3. ASSUME NEW c \in Callers, NEW key \in Lookups, Lookup(c, key)
      PROVE  IInv' /\ ClosedStep
  BY <1>3, LookupStep DEF ClosedStep
<1> QED
  BY <1>1, <1>2, <1>3, ResumeStep, SettleStep, LeaveStep, AnswerStep, EndedStep, CloseStep,
     TickStep DEF Next

LEMMA AlwaysIInv == Spec => []IInv
<1>1. IInv /\ [Next]_vars => IInv'
  BY NextIInv
<1> QED  BY <1>1, InitIInv, PTL DEF Spec

(* For every number of callers at most one fetch is in flight:              *)
(* _refresh_task names it until its result is published, and aclose starts  *)
(* none.                                                                    *)
THEOREM FetchesAreSingle == Spec => []SingleFlight
<1>1. IInv => SingleFlight
  <2> SUFFICES ASSUME IInv PROVE Cardinality({t \in Tasks : Unfinished(t)}) <= 1
    BY DEF SingleFlight
  <2> DEFINE U == {t \in Tasks : Unfinished(t)}
  <2>1. CASE U = {}
    BY <2>1, FS_EmptySet
  <2>2. CASE U # {}
    <3>1. PICK t \in Tasks : U = {t}
      BY <2>2 DEF IInv, OneUnfinished
    <3>2. Cardinality({t}) = 1
      BY FS_Singleton
    <3> QED  BY <3>1, <3>2
  <2> QED  BY <2>1, <2>2
<1> QED  BY <1>1, AlwaysIInv, PTL

(* For every number of callers and key sets a closed provider starts no     *)
(* fetch and hands out no key set, to those already waiting included:       *)
(* aclose empties the snapshot and _publish_refresh does not fill it again. *)
THEOREM CloseIsTerminal == Spec => ClosedServesNothing
<1>1. IInv /\ [Next]_vars => [ClosedStep]_vars
  BY NextIInv
<1> QED  BY <1>1, AlwaysIInv, PTL DEF Spec, ClosedServesNothing, ClosedStep

----------------------------------------------------------------------------
(* Calls, and the tasks they refer to. *)

Calls == [pc : {"idle", "waiting", "settling", "served", "refused"}, key : Lookups,
          task : Tasks \cup {None}, got : SUBSET Keys]

(* A task that is neither unfinished nor the shared one is some waiter's. *)
Referenced(t) == task[t] = Free \/ Unfinished(t) \/ refresh = t \/ \E c \in Callers : caller[c].task = t

CallInv ==
    /\ caller \in [Callers -> Calls]
    /\ \A c \in Callers : caller[c].pc = "waiting" <=> caller[c].task # None
    /\ refresh \in Tasks \cup {None}
    /\ \A t \in Tasks : Referenced(t)
    /\ snapshot # None => snapshot \in [keys : SUBSET Keys, age : Nat]

LEMMA TaskIds == Cardinality(Callers) \in Nat /\ Tasks \in SUBSET Nat /\ None \notin Tasks
<1>1. Cardinality(Callers) \in Nat
  BY FS_CardinalityType
<1> QED  BY <1>1 DEF Tasks

(* The least of a set of numbers is one of them. *)
LEMMA LeastIn ==
    ASSUME NEW S \in SUBSET Nat, S # {}
    PROVE  Min(S) \in S /\ \A i \in S : Min(S) <= i
<1>1. \E x \in S : \A y \in S : ~(<<y, x>> \in OpToRel(<, Nat))
  BY NatLessThanWellFounded, WFMin, Zenon
<1>2. PICK x \in S : \A y \in S : ~(<<y, x>> \in OpToRel(<, Nat))
  BY <1>1
<1>3. \A y \in S : x <= y
  <2> SUFFICES ASSUME NEW y \in S, ~(x <= y) PROVE FALSE
    OBVIOUS
  <2>1. x \in Nat /\ y \in Nat /\ y < x
    OBVIOUS
  <2>2. <<y, x>> \in OpToRel(<, Nat)
    BY <2>1 DEF OpToRel
  <2> QED  BY <1>2, <2>2
<1> QED  BY <1>3, Zenon DEF Min

(* There is a task to start: with the shared one gone, each other is the    *)
(* task of a waiter, and there is one more task than there are callers.     *)
LEMMA TaskToStart ==
    ASSUME IInv, CallInv, refresh = None, ~closed, NEW t, t = Min({u \in Tasks : task[u] = Free})
    PROVE  t \in Tasks /\ task[t] = Free
<1> DEFINE S == {c \in Callers : caller[c].task \in Tasks}
           f == [c \in S |-> caller[c].task]
<1>1. ASSUME \A u \in Tasks : task[u] # Free PROVE FALSE
  <2>1. \A u \in Tasks : ~Unfinished(u)
    BY TaskIds DEF IInv, OneUnfinished
  <2>2. \A u \in Tasks : \E c \in S : f[c] = u
    BY <1>1, <2>1, TaskIds DEF CallInv, Referenced
  <2>3. f \in [S -> Tasks]
    OBVIOUS
  <2>4. f \in Surjection(S, Tasks)
    BY <2>2, <2>3 DEF Surjection
  <2>5. IsFiniteSet(S) /\ Cardinality(S) <= Cardinality(Callers)
    BY FS_Subset
  <2> HIDE DEF f, S
  <2>6. Cardinality(Tasks) <= Cardinality(S)
    BY <2>4, <2>5, FS_Surjection
  <2>7. Cardinality(Tasks) = Cardinality(Callers) + 1
    <3>1. 1 \in Int /\ Cardinality(Callers) + 1 \in Int
      BY TaskIds
    <3> QED  BY <3>1, TaskIds, FS_Interval DEF Tasks
  <2>8. Cardinality(S) \in Nat
    BY <2>5, FS_CardinalityType
  <2> QED  BY <2>5, <2>6, <2>7, <2>8, TaskIds
<1>2. {u \in Tasks : task[u] = Free} \in SUBSET Nat
  BY TaskIds, Zenon
<1> QED  BY <1>1, <1>2, LeastIn

LEMMA CallInit == Init => CallInv
<1>1. NewCall \in Calls /\ NewCall.pc = "idle" /\ NewCall.task = None
  BY DEF NewCall, Calls, Lookups
<1> QED  BY <1>1 DEF Init, CallInv, Referenced

(* The calls that the steps make. *)
LEMMA FinishTyped ==
    ASSUME CallInv, NEW c \in Callers, NEW pc \in {"served", "refused"}, NEW got \in SUBSET Keys,
           caller' = Finish(c, pc, got)
    PROVE  /\ caller' \in [Callers -> Calls]
           /\ caller'[c].pc = pc /\ caller'[c].task = None /\ caller'[c].got = got
           /\ \A d \in Callers \ {c} : caller'[d] = caller[d]
<1> DEFINE q == [NewCall EXCEPT !.pc = pc, !.got = got]
<1>1. q \in Calls /\ q.pc = pc /\ q.task = None /\ q.got = got
  BY Zenon DEF NewCall, Calls, Lookups
<1>2. caller' = [caller EXCEPT ![c] = q]
  BY DEF Finish
<1> HIDE DEF q
<1> QED  BY <1>1, <1>2 DEF CallInv

LEMMA WaitTyped ==
    ASSUME CallInv, NEW c \in Callers, NEW key \in Lookups, NEW t \in Tasks,
           caller' = [caller EXCEPT ![c] =
                         [NewCall EXCEPT !.pc = "waiting", !.key = key, !.task = t]]
    PROVE  /\ caller' \in [Callers -> Calls]
           /\ caller'[c].pc = "waiting" /\ caller'[c].task = t
           /\ \A d \in Callers \ {c} : caller'[d] = caller[d]
<1> DEFINE q == [NewCall EXCEPT !.pc = "waiting", !.key = key, !.task = t]
<1>1. q \in Calls /\ q.pc = "waiting" /\ q.task = t
  BY Zenon DEF NewCall, Calls
<1> HIDE DEF q
<1>2. caller' = [caller EXCEPT ![c] = q]
  BY DEF q
<1> QED  BY <1>1, <1>2 DEF CallInv

(* After Tidy every task kept is referred to. *)
LEMMA TidyRefers ==
    ASSUME NEW f, task' = Tidy(f, caller', refresh'), NEW t \in Tasks
    PROVE  Referenced(t)'
  BY DEF Tidy, Referenced, Unfinished

(* A caller that refers to no task changes, and the tasks stay. *)
LEMMA CallMoves ==
    ASSUME CallInv, NEW c \in Callers, caller[c].task = None,
           caller' \in [Callers -> Calls], caller'[c].pc = "waiting" <=> caller'[c].task # None,
           \A d \in Callers \ {c} : caller'[d] = caller[d],
           UNCHANGED <<refresh, task, snapshot>>
    PROVE  CallInv'
<1>1. ASSUME NEW t \in Tasks PROVE Referenced(t)'
  <2>1. Referenced(t)
    BY DEF CallInv
  <2>2. \A d \in Callers : caller[d].task = t => caller'[d].task = t
    BY TaskIds
  <2> QED  BY <2>1, <2>2 DEF Referenced, Unfinished
<1> QED  BY <1>1 DEF CallInv

LEMMA CallLookup ==
    ASSUME IInv, CallInv, NEW c \in Callers, NEW key \in Lookups, Lookup(c, key)
    PROVE  CallInv'
<1>1. caller[c].task = None /\ UNCHANGED <<snapshot, closed>>
  BY DEF Lookup, CallInv
<1>2. ASSUME NEW got \in SUBSET Keys, NEW pc \in {"served", "refused"},
             caller' = Finish(c, pc, got), UNCHANGED <<refresh, task>>
      PROVE  CallInv'
  BY <1>1, <1>2, FinishTyped, CallMoves
<1>3. ASSUME NEW t \in Tasks,
             caller' = [caller EXCEPT ![c] =
                           [NewCall EXCEPT !.pc = "waiting", !.key = key, !.task = t]]
      PROVE  /\ caller' \in [Callers -> Calls]
             /\ caller'[c].pc = "waiting" /\ caller'[c].task = t /\ t # None
             /\ \A d \in Callers \ {c} : caller'[d] = caller[d]
  BY <1>3, WaitTyped, TaskIds, Zenon
<1>4. CASE closed
  BY <1>2, <1>4 DEF Lookup
<1>5. CASE ~closed /\ Matches(key)
  <2>1. snapshot.keys \in SUBSET Keys
    BY <1>5 DEF Matches, CallInv
  <2> QED  BY <1>2, <1>5, <2>1 DEF Lookup
<1>6. CASE ~closed /\ ~Matches(key) /\ refresh # None
  <2>1. refresh \in Tasks /\ UNCHANGED <<refresh, task>>
    BY <1>6 DEF Lookup, CallInv
  <2>2. caller' = [caller EXCEPT ![c] =
                      [NewCall EXCEPT !.pc = "waiting", !.key = key, !.task = refresh]]
    BY <1>6 DEF Lookup
  <2> QED  BY <1>1, <1>3, <2>1, <2>2, CallMoves, Zenon
<1>7. CASE ~closed /\ ~Matches(key) /\ refresh = None
  <2>1. StartRefresh(c, key)
    BY <1>7 DEF Lookup
  <2>2. CASE wait > 0
    BY <1>2, <2>1, <2>2 DEF StartRefresh
  <2>3. CASE ~(wait > 0)
    <3> DEFINE t == Min({u \in Tasks : task[u] = Free})
    <3>1. t \in Tasks
      BY <1>7, TaskToStart
    <3>2. /\ task' = [task EXCEPT ![t].state = "running"] /\ refresh' = t
          /\ caller' = [caller EXCEPT ![c] =
                           [NewCall EXCEPT !.pc = "waiting", !.key = key, !.task = t]]
      BY <2>1, <2>3 DEF StartRefresh
    <3> HIDE DEF t
    <3>3. /\ caller' \in [Callers -> Calls] /\ caller'[c].pc = "waiting" /\ caller'[c].task = t
          /\ t # None /\ \A d \in Callers \ {c} : caller'[d] = caller[d]
      BY <1>3, <3>1, <3>2, Zenon
    <3>4. \A u \in Tasks \ {t} : task'[u] = task[u]
      BY <3>2 DEF IInv, TasksTyped
    <3>5. ASSUME NEW u \in Tasks PROVE Referenced(u)'
      <4>1. CASE u = t
        BY <3>2, <4>1 DEF Referenced
      <4>2. CASE u # t
        <5>1. Referenced(u) /\ refresh # u
          BY <1>7, TaskIds DEF CallInv
        <5>2. \A d \in Callers : caller[d].task = u => caller'[d].task = u
          BY <1>1, <3>3, TaskIds
        <5> QED  BY <3>4, <4>2, <5>1, <5>2 DEF Referenced, Unfinished
      <4> QED  BY <4>1, <4>2
    <3> QED  BY <1>1, <3>1, <3>2, <3>3, <3>5 DEF CallInv
  <2> QED  BY <2>2, <2>3
<1> QED  BY <1>4, <1>5, <1>6, <1>7

LEMMA CallResume ==
    ASSUME IInv, CallInv, NEW c \in Callers, Resume(c)
    PROVE  CallInv'
<1>1. task' = Tidy(task, caller', refresh') /\ caller[c].pc = "waiting"
  BY DEF Resume
<1>2. caller[c].task \in Tasks /\ caller[c] \in Calls
  BY <1>1 DEF CallInv, Calls
<1>3. refresh' \in {refresh, None}
  BY DEF Resume, Publish
<1>4. snapshot' # None => snapshot' \in [keys : SUBSET Keys, age : Nat]
  <2>1. task[caller[c].task].keys \in SUBSET Keys /\ task[caller[c].task].age \in Nat
    BY <1>2 DEF IInv, TasksTyped
  <2>2. \/ snapshot' = snapshot
        \/ snapshot' = [keys |-> task[caller[c].task].keys, age |-> task[caller[c].task].age]
    BY DEF Resume, Publish
  <2> QED  BY <2>1, <2>2 DEF CallInv
<1>5. /\ caller' \in [Callers -> Calls]
      /\ caller'[c].pc # "waiting" /\ caller'[c].task = None
      /\ \A d \in Callers \ {c} : caller'[d] = caller[d]
  <2>1. CASE caller' = Finish(c, "refused", {})
    BY <2>1, FinishTyped
  <2>2. CASE caller' = [caller EXCEPT ![c].pc = "settling", ![c].task = None]
    <3> DEFINE q == [caller[c] EXCEPT !.pc = "settling", !.task = None]
    <3>1. caller' = [caller EXCEPT ![c] = q]
      BY <2>2, Zenon DEF CallInv
    <3>2. q \in Calls /\ q.pc = "settling" /\ q.task = None
      BY <1>2, Zenon DEF Calls
    <3> HIDE DEF q
    <3> QED  BY <3>1, <3>2 DEF CallInv
  <2> QED  BY <2>1, <2>2 DEF Resume
<1>6. \A d \in Callers : caller'[d].pc = "waiting" <=> caller'[d].task # None
  BY <1>5 DEF CallInv
<1>7. \A t \in Tasks : Referenced(t)'
  BY <1>1, TidyRefers
<1> QED  BY <1>3, <1>4, <1>5, <1>6, <1>7 DEF CallInv

LEMMA CallLeave == ASSUME IInv, CallInv, NEW c \in Callers, Leave(c) PROVE CallInv'
<1>1. /\ task' = Tidy(task, caller', refresh') /\ caller' = [caller EXCEPT ![c] = NewCall]
      /\ UNCHANGED <<snapshot, refresh>>
  BY DEF Leave
<1>2. NewCall \in Calls /\ NewCall.pc = "idle" /\ NewCall.task = None
  BY DEF NewCall, Calls, Lookups
<1>3. /\ caller' \in [Callers -> Calls]
      /\ \A d \in Callers : caller'[d].pc = "waiting" <=> caller'[d].task # None
  BY <1>1, <1>2 DEF CallInv
<1>4. \A t \in Tasks : Referenced(t)'
  BY <1>1, TidyRefers
<1> QED  BY <1>1, <1>3, <1>4 DEF CallInv

LEMMA CallSettle == ASSUME IInv, CallInv, NEW c \in Callers, Settle(c) PROVE CallInv'
<1>1. caller[c].task = None /\ UNCHANGED <<snapshot, refresh, task>>
  BY DEF Settle, CallInv
<1>2. \E pc \in {"served", "refused"}, got \in SUBSET Keys : caller' = Finish(c, pc, got)
  <2>1. Matches(caller[c].key) => snapshot.keys \in SUBSET Keys
    BY DEF Matches, CallInv
  <2> QED  BY <2>1 DEF Settle
<1> QED  BY <1>1, <1>2, FinishTyped, CallMoves

(* The steps in which no call moves. *)
LEMMA CallKept ==
    ASSUME IInv, CallInv,
           \/ \E t \in Tasks : \/ Answer(t) \/ RefreshSucceeds(t) \/ RefreshFails(t)
                               \/ RefreshCancelled(t)
           \/ Close \/ Rotate \/ Tick
    PROVE  CallInv'
<1>1. /\ caller' = caller /\ refresh' \in {refresh, None}
      /\ snapshot' # None => snapshot' \in [keys : SUBSET Keys, age : Nat]
  <2>1. CASE Tick
    <3>1. caller' = caller /\ refresh' = refresh
      BY <2>1 DEF Tick
    <3>2. snapshot # None => snapshot' = [snapshot EXCEPT !.age = Capped(snapshot.age, MaxAge)]
      BY <2>1 DEF Tick
    <3>3. snapshot = None => snapshot' = None
      BY <2>1 DEF Tick
    <3>4. snapshot # None => Capped(snapshot.age, MaxAge) \in Nat
      BY DEF Capped, CallInv
    <3> QED  BY <3>1, <3>2, <3>3, <3>4 DEF CallInv
  <2>2. CASE ~Tick
    BY <2>2, Zenon
       DEF Answer, RefreshSucceeds, RefreshFails, RefreshCancelled, Ended, Close, Rotate, CallInv
  <2> QED  BY <2>1, <2>2
<1>2. ASSUME NEW t \in Tasks PROVE Referenced(t)'
  <2>1. Referenced(t)
    BY DEF CallInv
  <2>2. ASSUME NEW u \in Tasks, Answer(u) PROVE Referenced(t)'
    <3>1. \A v \in Tasks \ {u} : task'[v] = task[v]
      BY <2>2 DEF Answer, IInv, TasksTyped
    <3>2. task'[u].state = "answered" /\ UNCHANGED <<refresh, caller>>
      BY <2>2 DEF Answer, IInv, TasksTyped
    <3> QED  BY <2>1, <3>1, <3>2 DEF Referenced, Unfinished
  <2>3. ASSUME NEW u \in Tasks, RefreshSucceeds(u) \/ RefreshFails(u) \/ RefreshCancelled(u)
        PROVE  Referenced(t)'
    <3>1. \E f : task' = Tidy(f, caller', refresh')
      BY <2>3 DEF RefreshSucceeds, RefreshFails, RefreshCancelled, Ended
    <3> QED  BY <3>1, TidyRefers
  <2>4. CASE Close
    <3>1. task' = Tidy(task, caller', refresh')
      BY <2>4 DEF Close
    <3> QED  BY <3>1, TidyRefers
  <2>5. CASE Rotate
    BY <2>1, <2>5 DEF Rotate, Referenced, Unfinished
  <2>6. CASE Tick
    <3>1. task[t] = Free => task'[t] = Free
      BY <2>6 DEF Tick, Free, Unfinished
    <3>2. Unfinished(t) => Unfinished(t)'
      <4>1. Unfinished(t) => task'[t] = [task[t] EXCEPT !.age = @ + 1]
        BY <2>6 DEF Tick
      <4>2. task[t] \in [state : TaskStates, keys : SUBSET Keys, age : Nat]
        BY DEF IInv, TasksTyped
      <4> QED  BY <4>1, <4>2 DEF Unfinished
    <3>3. UNCHANGED <<refresh, caller>>
      BY <2>6 DEF Tick
    <3> QED  BY <2>1, <3>1, <3>2, <3>3 DEF Referenced
  <2> QED  BY <2>2, <2>3, <2>4, <2>5, <2>6
<1> QED  BY <1>1, <1>2 DEF CallInv

LEMMA CallNext == ASSUME IInv, CallInv, [Next]_vars PROVE CallInv'
<1>1. CASE UNCHANGED vars
  BY <1>1 DEF vars, CallInv, Referenced, Unfinished
<1> QED
  BY <1>1, CallLookup, CallResume, CallSettle, CallLeave, CallKept DEF Next

----------------------------------------------------------------------------
(* Ages: what the keys of a response, the snapshot and the waits owe to the *)
(* time that has passed.                                                    *)

(* The endpoint served the keys at most age ticks ago. *)
Seen(keys, age) == \A k \in keys : k \in served \/ withdrawn[k] <= age

TaskFine(t) ==
    /\ Unfinished(t) => task[t].age <= FetchTimeout
    /\ task[t].state = "answered" => Seen(task[t].keys, task[t].age)
    /\ task[t].state = "ok" => /\ task[t].age <= MaxAge
                               /\ Seen(task[t].keys, task[t].age + FetchTimeout)

SnapshotFine ==
    snapshot # None => snapshot.age <= MaxAge /\ Seen(snapshot.keys, snapshot.age + FetchTimeout)

(* An unpublished result is younger than the snapshot it will replace. *)
YoungerThanSnapshot(t) ==
    refresh = t /\ task[t].state = "ok" /\ snapshot # None => task[t].age <= snapshot.age

Gap == Min({MinInterval, Backoff})

(* What is left to wait makes up for the time since the last fetch, also    *)
(* once the shared result is published.                                     *)
Spacing ==
    /\ ~closed /\ refresh = None => wait + idle >= Gap
    /\ ~closed => \A t \in Tasks :
          refresh = t /\ task[t].state = "ok" => idle >= task[t].age \/ idle = MinInterval

AgeTypes ==
    /\ withdrawn \in [Keys -> 0 .. Horizon]
    /\ wait \in Nat /\ idle \in 0 .. MinInterval

AgeInv ==
    /\ AgeTypes
    /\ \A t \in Tasks : TaskFine(t) /\ YoungerThanSnapshot(t)
    /\ SnapshotFine
    /\ Spacing

LEMMA GapBounds == Gap \in Nat \ {0} /\ Gap <= MinInterval /\ Gap <= Backoff
<1>1. {MinInterval, Backoff} \in SUBSET Nat /\ {MinInterval, Backoff} # {}
  OBVIOUS
<1>2. Gap \in {MinInterval, Backoff} /\ \A i \in {MinInterval, Backoff} : Gap <= i
  BY <1>1, LeastIn DEF Gap
<1> QED  BY <1>2

LEMMA MaxZero ==
    ASSUME NEW x \in Int
    PROVE  Max({0, x}) \in Nat /\ Max({0, x}) >= x
<1>1. \E y \in {0, x} : \A z \in {0, x} : y >= z
  BY 0 >= x \/ x >= 0
<1>2. Max({0, x}) \in {0, x} /\ \A z \in {0, x} : Max({0, x}) >= z
  BY <1>1 DEF Max
<1> QED  BY <1>2

LEMMA AgeInit == Init => AgeInv
<1> SUFFICES ASSUME Init PROVE AgeInv
  OBVIOUS
<1>1. AgeTypes
  BY DEF Init, AgeTypes, Horizon
<1>2. \A t \in Tasks : task[t].state = "free"
  BY DEF Init, Free
<1>3. \A t \in Tasks : TaskFine(t) /\ YoungerThanSnapshot(t)
  BY <1>2 DEF TaskFine, YoungerThanSnapshot, Unfinished
<1>4. Spacing
  BY <1>2, GapBounds DEF Spacing, Init
<1> QED  BY <1>1, <1>3, <1>4 DEF AgeInv, SnapshotFine, Init

(* The issuer and the clock stand still, and each task is what it was or    *)
(* forgotten.                                                               *)
LEMMA TasksFineKept ==
    ASSUME AgeInv, UNCHANGED <<served, withdrawn>>, NEW t \in Tasks,
           task'[t] = task[t] \/ task'[t].state = "free"
    PROVE  TaskFine(t)'
<1>1. TaskFine(t)
  BY DEF AgeInv
<1> QED  BY <1>1 DEF TaskFine, Unfinished, Seen

LEMMA TidyKeeps ==
    ASSUME NEW f, NEW cs, NEW r, NEW t \in Tasks
    PROVE  Tidy(f, cs, r)[t] = f[t] \/ Tidy(f, cs, r)[t].state = "free"
  BY DEF Tidy, Free

(* Calls come and go; nothing is published or started. *)
LEMMA AgeKept ==
    ASSUME AgeInv, UNCHANGED <<served, withdrawn, wait, idle>>,
           \/ UNCHANGED <<closed, refresh, snapshot>>
           \/ closed' /\ refresh' = None /\ snapshot' = None,
           \A t \in Tasks : task'[t] = task[t] \/ task'[t].state = "free"
    PROVE  AgeInv'
<1>1. \A t \in Tasks : TaskFine(t)'
  BY TasksFineKept
<1>2. AgeTypes'
  BY DEF AgeInv, AgeTypes, Horizon
<1>3. SnapshotFine'
  BY DEF AgeInv, SnapshotFine, Seen
<1>4. \A t \in Tasks : YoungerThanSnapshot(t)'
  BY TaskIds DEF AgeInv, YoungerThanSnapshot
<1>5. Gap' = Gap
  BY DEF Gap
<1>6. Spacing'
  BY <1>5 DEF AgeInv, Spacing
<1> QED  BY <1>1, <1>2, <1>3, <1>4, <1>6 DEF AgeInv

(* What the three action properties say of a step. *)
ServesFresh ==
    \A c \in Callers :
        caller'[c].pc = "served" /\ caller[c].pc # "served"
           => \A k \in caller'[c].got : k \in served \/ withdrawn[k] < Horizon

StartsSpaced ==
    \A t \in Tasks : task'[t].state = "running" /\ task[t].state = "free" => idle >= Gap

SnapshotAdvances ==
    snapshot # None /\ snapshot' # None /\ snapshot'.keys # snapshot.keys
        => snapshot'.age <= snapshot.age

Good == ServesFresh /\ StartsSpaced /\ SnapshotAdvances

(* What a lookup or a settled call is handed. *)
LEMMA MatchIsFresh ==
    ASSUME CallInv, AgeInv, NEW key, Matches(key)
    PROVE  \A k \in snapshot.keys : k \in served \/ withdrawn[k] < Horizon
<1>1. /\ snapshot # None /\ snapshot.age < MaxAge
      /\ snapshot \in [keys : SUBSET Keys, age : Nat]
  BY DEF Matches, CallInv
<1>2. Seen(snapshot.keys, snapshot.age + FetchTimeout)
  BY <1>1 DEF AgeInv, SnapshotFine
<1>3. \A k \in snapshot.keys : withdrawn[k] \in Nat
  BY <1>1 DEF AgeInv, AgeTypes, Horizon
<1> QED  BY <1>1, <1>2, <1>3 DEF Seen, Horizon

LEMMA AgeLookup ==
    ASSUME IInv, CallInv, AgeInv, NEW c \in Callers, NEW key \in Lookups, Lookup(c, key)
    PROVE  AgeInv' /\ Good
<1>1. UNCHANGED <<served, withdrawn, snapshot, wait, closed, idle>> /\ caller[c].pc = "idle"
  BY DEF Lookup
<1>2. SnapshotAdvances
  BY <1>1 DEF SnapshotAdvances
<1>3. ASSUME UNCHANGED <<refresh, task>> PROVE AgeInv' /\ StartsSpaced
  <2>1. AgeInv'
    BY <1>1, <1>3, AgeKept
  <2>2. StartsSpaced
    BY <1>3 DEF StartsSpaced
  <2> QED  BY <2>1, <2>2
<1>4. ASSUME NEW got \in SUBSET Keys, NEW pc \in {"served", "refused"}, caller' = Finish(c, pc, got),
             pc = "served" => \A k \in got : k \in served \/ withdrawn[k] < Horizon
      PROVE  ServesFresh
  <2>1. /\ caller'[c].pc = pc /\ caller'[c].got = got
        /\ \A d \in Callers \ {c} : caller'[d] = caller[d]
    BY <1>4, FinishTyped
  <2> QED  BY <1>4, <2>1 DEF ServesFresh
<1>5. ASSUME NEW t \in Tasks,
             caller' = [caller EXCEPT ![c] =
                           [NewCall EXCEPT !.pc = "waiting", !.key = key, !.task = t]]
      PROVE  ServesFresh
  <2>1. caller'[c].pc = "waiting" /\ \A d \in Callers \ {c} : caller'[d] = caller[d]
    BY <1>5, WaitTyped, Zenon
  <2> QED  BY <2>1 DEF ServesFresh
<1>6. CASE closed
  <2>1. caller' = Finish(c, "refused", {}) /\ UNCHANGED <<refresh, task>>
    BY <1>6 DEF Lookup
  <2> QED  BY <1>2, <1>3, <1>4, <2>1 DEF Good
<1>7. CASE ~closed /\ Matches(key)
  <2>1. caller' = Finish(c, "served", snapshot.keys) /\ UNCHANGED <<refresh, task>>
    BY <1>7 DEF Lookup
  <2>2. snapshot.keys \in SUBSET Keys
    BY <1>7 DEF Matches, CallInv
  <2>3. \A k \in snapshot.keys : k \in served \/ withdrawn[k] < Horizon
    BY <1>7, MatchIsFresh
  <2> QED  BY <1>2, <1>3, <1>4, <2>1, <2>2, <2>3 DEF Good
<1>8. CASE ~closed /\ ~Matches(key) /\ refresh # None
  <2>1. refresh \in Tasks /\ UNCHANGED <<refresh, task>>
    BY <1>8 DEF Lookup, CallInv
  <2>2. caller' = [caller EXCEPT ![c] =
                      [NewCall EXCEPT !.pc = "waiting", !.key = key, !.task = refresh]]
    BY <1>8 DEF Lookup
  <2> QED  BY <1>2, <1>3, <1>5, <2>1, <2>2, Zenon DEF Good
<1>9. CASE ~closed /\ ~Matches(key) /\ refresh = None
  <2>1. StartRefresh(c, key)
    BY <1>9 DEF Lookup
  <2>2. CASE wait > 0
    <3>1. caller' = Finish(c, "refused", {}) /\ UNCHANGED <<refresh, task>>
      BY <2>1, <2>2 DEF StartRefresh
    <3> QED  BY <1>2, <1>3, <1>4, <3>1 DEF Good
  <2>3. CASE ~(wait > 0)
    <3>1. PICK t \in Tasks : t = Min({u \in Tasks : task[u] = Free}) /\ task[t] = Free
      BY <1>9, TaskToStart, Zenon
    <3> DEFINE x == [task[t] EXCEPT !.state = "running"]
    <3>2. /\ task' = [task EXCEPT ![t].state = "running"] /\ refresh' = t
          /\ caller' = [caller EXCEPT ![c] =
                           [NewCall EXCEPT !.pc = "waiting", !.key = key, !.task = t]]
      BY <2>1, <2>3, <3>1 DEF StartRefresh
    <3>3. x.state = "running" /\ x.age = 0
      BY <3>1 DEF Free
    <3>4. task' = [task EXCEPT ![t] = x]
      BY <3>1, <3>2 DEF IInv, TasksTyped
    <3> HIDE DEF x
    <3>5. task'[t] = x /\ \A u \in Tasks \ {t} : task'[u] = task[u]
      BY <3>1, <3>4 DEF IInv, TasksTyped
    <3>6. ServesFresh
      BY <1>5, <3>1, <3>2, Zenon
    <3>7. idle >= Gap
      <4>1. wait + idle >= Gap /\ wait \in Nat /\ idle \in Nat
        BY <1>9 DEF AgeInv, Spacing, AgeTypes
      <4> QED  BY <2>3, <4>1
    <3>8. StartsSpaced
      BY <3>7 DEF StartsSpaced
    <3>9. TaskFine(t)'
      BY <3>3, <3>5 DEF TaskFine, Unfinished
    <3>10. \A u \in Tasks : TaskFine(u)'
      BY <1>1, <3>5, <3>9, TasksFineKept
    <3>11. \A u \in Tasks : YoungerThanSnapshot(u)'
      BY <3>2, <3>3, <3>5 DEF YoungerThanSnapshot
    <3>12. SnapshotFine' /\ AgeTypes'
      BY <1>1 DEF AgeInv, SnapshotFine, Seen, AgeTypes, Horizon
    <3>13. Spacing'
      BY <3>1, <3>2, <3>3, <3>5, TaskIds, Zenon DEF Spacing
    <3> QED  BY <1>2, <3>6, <3>8, <3>10, <3>11, <3>12, <3>13 DEF AgeInv, Good
  <2> QED  BY <2>2, <2>3
<1> QED  BY <1>6, <1>7, <1>8, <1>9

(* Steps that serve nothing, start nothing and publish nothing. *)
LEMMA CalmIsGood ==
    ASSUME \A c \in Callers : caller'[c].pc = "served" => caller[c].pc = "served",
           \A t \in Tasks : task[t].state = "free" => task'[t].state = "free",
           snapshot' \in {snapshot, None}
    PROVE  Good
  BY DEF Good, ServesFresh, StartsSpaced, SnapshotAdvances

LEMMA AgeLeave == ASSUME IInv, CallInv, AgeInv, NEW c \in Callers, Leave(c) PROVE AgeInv' /\ Good
<1>1. /\ UNCHANGED <<served, withdrawn, wait, idle, closed, refresh, snapshot>>
      /\ task' = Tidy(task, caller', refresh) /\ caller' = [caller EXCEPT ![c] = NewCall]
  BY DEF Leave
<1>2. \A t \in Tasks : task'[t] = task[t] \/ task'[t].state = "free"
  BY <1>1, TidyKeeps
<1>3. \A d \in Callers : caller'[d].pc = "served" => caller[d].pc = "served"
  BY <1>1 DEF CallInv, NewCall
<1> QED  BY <1>1, <1>2, <1>3, AgeKept, CalmIsGood, Zenon

LEMMA AgeClose == ASSUME IInv, CallInv, AgeInv, Close PROVE AgeInv' /\ Good
<1>1. /\ UNCHANGED <<served, withdrawn, wait, idle, caller>>
      /\ closed' /\ refresh' = None /\ snapshot' = None /\ task' = Tidy(task, caller, None)
  BY DEF Close
<1>2. \A t \in Tasks : task'[t] = task[t] \/ task'[t].state = "free"
  BY <1>1, TidyKeeps
<1> QED  BY <1>1, <1>2, AgeKept, CalmIsGood

LEMMA AgeSettle == ASSUME IInv, CallInv, AgeInv, NEW c \in Callers, Settle(c) PROVE AgeInv' /\ Good
<1>1. UNCHANGED <<served, withdrawn, snapshot, refresh, wait, closed, task, idle>>
  BY DEF Settle
<1>2. AgeInv'
  BY <1>1, AgeKept
<1>3. ServesFresh
  <2>1. CASE Matches(caller[c].key)
    <3>1. caller' = Finish(c, "served", snapshot.keys) /\ snapshot.keys \in SUBSET Keys
      BY <2>1 DEF Settle, Matches, CallInv
    <3>2. caller'[c].got = snapshot.keys /\ \A d \in Callers \ {c} : caller'[d] = caller[d]
      BY <3>1, FinishTyped
    <3>3. \A k \in snapshot.keys : k \in served \/ withdrawn[k] < Horizon
      BY <2>1, MatchIsFresh
    <3> QED  BY <3>2, <3>3 DEF ServesFresh
  <2>2. CASE ~Matches(caller[c].key)
    <3>1. caller' = Finish(c, "refused", {})
      BY <2>2 DEF Settle
    <3>2. caller'[c].pc = "refused" /\ \A d \in Callers \ {c} : caller'[d] = caller[d]
      BY <3>1, FinishTyped
    <3> QED  BY <3>2 DEF ServesFresh
  <2> QED  BY <2>1, <2>2
<1> QED  BY <1>1, <1>2, <1>3 DEF Good, StartsSpaced, SnapshotAdvances

LEMMA AgeAnswer == ASSUME IInv, CallInv, AgeInv, NEW t \in Tasks, Answer(t) PROVE AgeInv' /\ Good
<1> DEFINE x == [task[t] EXCEPT !.state = "answered", !.keys = served]
<1>1. /\ UNCHANGED <<served, withdrawn, snapshot, refresh, wait, closed, caller, idle>>
      /\ task[t].state = "running" /\ task' = [task EXCEPT ![t] = x]
  BY Zenon DEF Answer, IInv, TasksTyped
<1>2. x.state = "answered" /\ x.keys = served /\ x.age = task[t].age
  BY DEF IInv, TasksTyped
<1> HIDE DEF x
<1>3. task'[t] = x /\ \A u \in Tasks \ {t} : task'[u] = task[u]
  BY <1>1 DEF IInv, TasksTyped
<1>4. TaskFine(t)'
  <2>1. task[t].age <= FetchTimeout
    BY <1>1 DEF AgeInv, TaskFine, Unfinished
  <2> QED  BY <1>1, <1>2, <1>3, <2>1 DEF TaskFine, Unfinished, Seen
<1>5. \A u \in Tasks : TaskFine(u)'
  BY <1>1, <1>3, <1>4, TasksFineKept
<1>6. \A u \in Tasks : YoungerThanSnapshot(u)'
  BY <1>1, <1>2, <1>3 DEF AgeInv, YoungerThanSnapshot
<1>7. SnapshotFine' /\ AgeTypes'
  BY <1>1 DEF AgeInv, SnapshotFine, Seen, AgeTypes, Horizon
<1>8. Spacing'
  BY <1>1, <1>2, <1>3 DEF AgeInv, Spacing, Gap
<1>9. Good
  BY <1>1, <1>2, <1>3, CalmIsGood
<1> QED  BY <1>5, <1>6, <1>7, <1>8, <1>9 DEF AgeInv

(* A fetch ends: the interval starts anew, and a result is of age 0. *)
LEMMA AgeEnded ==
    ASSUME IInv, CallInv, AgeInv, NEW t \in Tasks,
           RefreshSucceeds(t) \/ RefreshFails(t) \/ RefreshCancelled(t)
    PROVE  AgeInv' /\ Good
<1>1. PICK x : /\ Ended(t, x) /\ x.state \in {"ok", "failed", "cancelled"}
               /\ x.state = "ok" => task[t].state = "answered" /\ x.keys = task[t].keys /\ x.age = 0
  <2>1. CASE RefreshSucceeds(t)
    <3> DEFINE x == [state |-> "ok", keys |-> task[t].keys, age |-> 0]
    <3>1. Ended(t, x) /\ task[t].state = "answered"
      BY <2>1 DEF RefreshSucceeds
    <3> QED  BY <3>1
  <2>2. CASE RefreshFails(t)
    <3> DEFINE x == [Free EXCEPT !.state = "failed"]
    <3>1. Ended(t, x)
      BY <2>2 DEF RefreshFails
    <3>2. x.state = "failed"
      BY DEF Free
    <3> QED  BY <3>1, <3>2, Zenon
  <2>3. CASE RefreshCancelled(t)
    <3> DEFINE x == [Free EXCEPT !.state = "cancelled"]
    <3>1. Ended(t, x)
      BY <2>3 DEF RefreshCancelled
    <3>2. x.state = "cancelled"
      BY DEF Free
    <3> QED  BY <3>1, <3>2, Zenon
  <2> QED  BY <2>1, <2>2, <2>3
<1>2. /\ UNCHANGED <<served, withdrawn, snapshot, refresh, wait, closed, caller>> /\ idle' = 0
      /\ task' = Tidy([task EXCEPT ![t] = x], caller, refresh)
  BY <1>1 DEF Ended
<1>3. Unfinished(t)
  BY DEF RefreshSucceeds, RefreshFails, RefreshCancelled, Unfinished
<1>4. PICK f : f = [task EXCEPT ![t] = x]
  BY Zenon
<1>5. /\ task'[t] = x \/ task'[t].state = "free"
      /\ \A u \in Tasks \ {t} : task'[u] = task[u] \/ task'[u].state = "free"
  <2>1. \A u \in Tasks : f[u] = IF u = t THEN x ELSE task[u]
    BY <1>4 DEF IInv, TasksTyped
  <2>2. task' = Tidy(f, caller, refresh)
    BY <1>2, <1>4
  <2>3. \A u \in Tasks : Tidy(f, caller, refresh)[u] = f[u] \/ Tidy(f, caller, refresh)[u].state = "free"
    BY TidyKeeps
  <2> QED  BY <2>1, <2>2, <2>3
<1>6. ASSUME x.state = "ok" PROVE Seen(x.keys, FetchTimeout)
  <2>1. /\ task[t].age <= FetchTimeout /\ Seen(task[t].keys, task[t].age)
        /\ task[t].age \in Nat /\ task[t].keys \in SUBSET Keys
    BY <1>1, <1>3, <1>6 DEF AgeInv, TaskFine, IInv, TasksTyped
  <2>2. \A k \in Keys : withdrawn[k] \in Nat
    BY DEF AgeInv, AgeTypes, Horizon
  <2> QED  BY <1>1, <1>6, <2>1, <2>2 DEF Seen
<1>7. TaskFine(t)'
  <2>1. CASE task'[t].state = "free"
    BY <2>1 DEF TaskFine, Unfinished
  <2>2. CASE task'[t] = x /\ x.state # "ok"
    BY <1>1, <2>2 DEF TaskFine, Unfinished
  <2>3. CASE task'[t] = x /\ x.state = "ok"
    <3>1. x.age = 0 /\ x.age + FetchTimeout = FetchTimeout /\ 0 <= MaxAge
      BY <1>1, <2>3
    <3>2. Seen(x.keys, FetchTimeout)
      BY <1>6, <2>3
    <3>3. \A k \in x.keys : k \in served' \/ withdrawn'[k] <= FetchTimeout
      BY <1>2, <3>2 DEF Seen
    <3> QED  BY <2>3, <3>1, <3>3 DEF TaskFine, Unfinished, Seen
  <2> QED  BY <1>5, <2>1, <2>2, <2>3
<1>8. \A u \in Tasks : TaskFine(u)'
  BY <1>2, <1>5, <1>7, TasksFineKept, Zenon
<1>9. ASSUME NEW u \in Tasks PROVE YoungerThanSnapshot(u)'
  <2>1. CASE u = t
    <3>1. snapshot # None => snapshot.age \in Nat
      BY DEF CallInv
    <3>2. x.state = "ok" /\ snapshot # None => x.age <= snapshot.age
      BY <1>1, <3>1
    <3> QED  BY <1>1, <1>2, <1>5, <2>1, <3>2, Zenon DEF YoungerThanSnapshot
  <2>2. CASE u # t
    BY <1>2, <1>5, <2>2, Zenon DEF AgeInv, YoungerThanSnapshot
  <2> QED  BY <2>1, <2>2
<1>10. SnapshotFine' /\ AgeTypes'
  <2>1. SnapshotFine'
    BY <1>2 DEF AgeInv, SnapshotFine, Seen
  <2>2. idle' \in 0 .. MinInterval
    BY <1>2
  <2>3. withdrawn' \in [Keys -> 0 .. Horizon] /\ wait' \in Nat
    BY <1>2 DEF AgeInv, AgeTypes
  <2> QED  BY <2>1, <2>2, <2>3 DEF AgeTypes, Horizon
<1>11. ~closed => refresh = t /\ refresh # None
  BY <1>3, TaskIds DEF IInv, OneUnfinished
<1>12. Spacing'
  <2>1. ~(~closed' /\ refresh' = None)
    BY <1>2, <1>11
  <2>2. ASSUME ~closed', NEW u \in Tasks, refresh' = u, task'[u].state = "ok"
        PROVE  idle' >= task'[u].age
    <3>1. u = t
      BY <1>2, <1>11, <2>2
    <3>2. task'[t] = x /\ x.age = 0
      BY <1>1, <1>5, <2>2, <3>1
    <3> QED  BY <1>2, <3>1, <3>2
  <2> QED  BY <2>1, <2>2 DEF Spacing
<1>13. \A u \in Tasks : task[u].state = "free" => task'[u].state = "free"
  BY <1>3, <1>5 DEF Unfinished
<1>14. Good
  BY <1>2, <1>13, CalmIsGood, Zenon
<1> QED  BY <1>8, <1>9, <1>10, <1>12, <1>14 DEF AgeInv

LEMMA AgeResume == ASSUME IInv, CallInv, AgeInv, NEW c \in Callers, Resume(c) PROVE AgeInv' /\ Good
<1> DEFINE t == caller[c].task
<1>1. /\ UNCHANGED <<served, withdrawn, closed, idle>> /\ task' = Tidy(task, caller', refresh')
      /\ caller[c].pc = "waiting"
  BY DEF Resume
<1>2. t \in Tasks
  BY <1>1 DEF CallInv, Calls
<1>3. \A u \in Tasks : task'[u] = task[u] \/ task'[u].state = "free"
  BY <1>1, TidyKeeps
<1>4. \A d \in Callers : caller'[d].pc = "served" => caller[d].pc = "served"
  <2>1. CASE caller' = Finish(c, "refused", {})
    BY <2>1, FinishTyped
  <2>2. CASE caller' = [caller EXCEPT ![c].pc = "settling", ![c].task = None]
    <3> DEFINE q == [caller[c] EXCEPT !.pc = "settling", !.task = None]
    <3>1. caller' = [caller EXCEPT ![c] = q]
      BY <2>2, Zenon DEF CallInv
    <3>2. q.pc = "settling"
      BY DEF CallInv, Calls
    <3> HIDE DEF q
    <3> QED  BY <3>1, <3>2 DEF CallInv
  <2> QED  BY <2>1, <2>2 DEF Resume
<1>5. CASE UNCHANGED <<snapshot, refresh, wait>>
  BY <1>1, <1>3, <1>4, <1>5, AgeKept, CalmIsGood
<1>6. CASE ~UNCHANGED <<snapshot, refresh, wait>>
  <2>1. /\ ~closed /\ refresh = t /\ refresh' = None
        /\ \/ /\ task[t].state = "ok"
              /\ snapshot' = [keys |-> task[t].keys, age |-> task[t].age]
              /\ wait' = Max({0, MinInterval - task[t].age})
           \/ wait' = Backoff /\ UNCHANGED snapshot
    BY <1>6 DEF Resume, Publish
  <2>2. \A u \in Tasks : TaskFine(u)' /\ YoungerThanSnapshot(u)'
    BY <1>1, <1>3, <2>1, TasksFineKept, TaskIds DEF YoungerThanSnapshot
  <2>3. \A u \in Tasks : refresh' # u
    BY <2>1, TaskIds
  <2>4. idle \in Nat /\ idle' = idle
    BY <1>1 DEF AgeInv, AgeTypes
  <2>5. CASE wait' = Backoff /\ UNCHANGED snapshot
    <3>1. SnapshotFine' /\ AgeTypes'
      BY <1>1, <2>5 DEF AgeInv, SnapshotFine, Seen, AgeTypes, Horizon
    <3>2. wait' + idle' >= Gap
      BY <2>4, <2>5, GapBounds
    <3>3. Spacing'
      BY <2>3, <3>2 DEF Spacing, Gap
    <3>4. Good
      BY <1>3, <1>4, <2>5, CalmIsGood
    <3> QED  BY <2>2, <3>1, <3>3, <3>4 DEF AgeInv
  <2>6. CASE /\ task[t].state = "ok"
             /\ snapshot' = [keys |-> task[t].keys, age |-> task[t].age]
             /\ wait' = Max({0, MinInterval - task[t].age})
    <3>1. TaskFine(t) /\ YoungerThanSnapshot(t) /\ task[t].age \in Nat
      BY <1>2 DEF AgeInv, IInv, TasksTyped
    <3>2. snapshot'.keys = task[t].keys /\ snapshot'.age = task[t].age
      BY <2>6
    <3>3. SnapshotFine'
      BY <1>1, <2>6, <3>1, <3>2 DEF TaskFine, SnapshotFine, Seen
    <3>4. wait' \in Nat /\ wait' >= MinInterval - task[t].age
      <4>1. MinInterval - task[t].age \in Int
        BY <3>1
      <4> QED  BY <2>6, <4>1, MaxZero
    <3>5. AgeTypes'
      BY <1>1, <3>4 DEF AgeInv, AgeTypes, Horizon
    <3>6. idle >= task[t].age \/ idle = MinInterval
      BY <1>2, <2>1, <2>6 DEF AgeInv, Spacing
    <3>7. wait' + idle' >= Gap
      <4>1. Gap \in Nat /\ Gap <= MinInterval /\ MinInterval \in Nat
        BY GapBounds
      <4>2. CASE idle = MinInterval
        BY <2>4, <3>4, <4>1, <4>2, SumBounds, Zenon
      <4>3. CASE idle >= task[t].age
        BY <2>4, <3>1, <3>4, <4>1, <4>3, RestBounds, Zenon
      <4> QED  BY <3>6, <4>2, <4>3
    <3>8. Spacing'
      BY <2>3, <3>7 DEF Spacing, Gap
    <3>9. SnapshotAdvances
      BY <2>1, <2>6, <3>1, <3>2 DEF YoungerThanSnapshot, SnapshotAdvances
    <3>10. Good
      BY <1>3, <1>4, <3>9 DEF Good, ServesFresh, StartsSpaced
    <3> QED  BY <2>2, <3>3, <3>5, <3>8, <3>10 DEF AgeInv
  <2> QED  BY <2>1, <2>5, <2>6
<1> QED  BY <1>5, <1>6

LEMMA AgeRotate == ASSUME IInv, CallInv, AgeInv, Rotate PROVE AgeInv' /\ Good
<1>1. /\ UNCHANGED <<snapshot, refresh, wait, closed, task, caller, idle>>
      /\ withdrawn' = [k \in Keys |-> IF k \in served \cup served' THEN 0 ELSE withdrawn[k]]
  BY DEF Rotate
<1>2. ASSUME NEW keys \in SUBSET Keys, NEW age \in Nat, Seen(keys, age)
      PROVE  \A k \in keys : k \in served' \/ withdrawn'[k] <= age
  BY <1>1, <1>2 DEF Seen
<1>3. AgeTypes'
  BY <1>1 DEF AgeInv, AgeTypes, Horizon
<1>4. ASSUME NEW t \in Tasks PROVE TaskFine(t)'
  <2>1. TaskFine(t) /\ task[t].keys \in SUBSET Keys /\ task[t].age \in Nat
    BY DEF AgeInv, IInv, TasksTyped
  <2>2. task[t].age + FetchTimeout \in Nat
    BY <2>1
  <2>3. task[t].state = "answered" => \A k \in task[t].keys : k \in served' \/ withdrawn'[k] <= task[t].age
    BY <1>2, <2>1 DEF TaskFine
  <2>4. task[t].state = "ok" =>
           \A k \in task[t].keys : k \in served' \/ withdrawn'[k] <= task[t].age + FetchTimeout
    BY <1>2, <2>1, <2>2 DEF TaskFine
  <2> QED  BY <1>1, <2>1, <2>3, <2>4 DEF TaskFine, Unfinished, Seen
<1>5. SnapshotFine'
  <2> SUFFICES ASSUME snapshot # None
               PROVE  /\ snapshot.age <= MaxAge
                      /\ \A k \in snapshot.keys :
                            k \in served' \/ withdrawn'[k] <= snapshot.age + FetchTimeout
    BY <1>1 DEF SnapshotFine, Seen
  <2>1. snapshot.keys \in SUBSET Keys /\ snapshot.age + FetchTimeout \in Nat
    BY DEF CallInv
  <2>2. snapshot.age <= MaxAge /\ Seen(snapshot.keys, snapshot.age + FetchTimeout)
    BY DEF AgeInv, SnapshotFine
  <2> QED  BY <1>2, <2>1, <2>2
<1>6. \A t \in Tasks : YoungerThanSnapshot(t)'
  BY <1>1 DEF AgeInv, YoungerThanSnapshot
<1>7. Spacing'
  BY <1>1 DEF AgeInv, Spacing, Gap
<1>8. Good
  BY <1>1, CalmIsGood
<1> QED  BY <1>3, <1>4, <1>5, <1>6, <1>7, <1>8 DEF AgeInv

LEMMA CappedBounds ==
    ASSUME NEW cap \in Nat, NEW age \in 0 .. cap
    PROVE  /\ Capped(age, cap) \in 0 .. cap /\ Capped(age, cap) \in Nat
           /\ Capped(age, cap) = age + 1 \/ Capped(age, cap) = cap
           /\ age <= Capped(age, cap) /\ Capped(age, cap) <= age + 1 /\ Capped(age, cap) <= cap
<1>1. CASE age < cap
  BY <1>1 DEF Capped
<1>2. CASE age = cap
  BY <1>2 DEF Capped
<1> QED  BY <1>1, <1>2

LEMMA AgeTick == ASSUME IInv, CallInv, AgeInv, Tick PROVE AgeInv' /\ Good
<1>1. /\ withdrawn' = [k \in Keys |-> IF k \in served THEN 0 ELSE Capped(withdrawn[k], Horizon)]
      /\ wait' = Max({0, wait - 1}) /\ idle' = Capped(idle, MinInterval)
      /\ UNCHANGED <<served, refresh, closed, caller>>
  BY DEF Tick
<1>2. withdrawn \in [Keys -> 0 .. Horizon] /\ wait \in Nat /\ idle \in 0 .. MinInterval
      /\ Horizon = MaxAge + FetchTimeout
  BY DEF AgeInv, AgeTypes, Horizon
<1>3. \A k \in Keys : /\ withdrawn'[k] \in 0 .. Horizon
                      /\ k \in served \/ withdrawn'[k] <= withdrawn[k] + 1
  BY <1>1, <1>2 DEF Capped
<1>4. wait' \in Nat /\ wait' >= wait - 1 /\ idle' \in 0 .. MinInterval
      /\ (idle' = idle + 1 \/ idle' = MinInterval)
  <2>1. wait - 1 \in Int /\ MinInterval \in Nat
    BY <1>2
  <2>2. wait' \in Nat /\ wait' >= wait - 1
    BY <1>1, <2>1, MaxZero
  <2> QED  BY <1>1, <1>2, <2>1, <2>2, CappedBounds
<1>5. AgeTypes'
  <2>1. withdrawn' = [k \in Keys |-> withdrawn'[k]]
    BY <1>1
  <2> QED  BY <1>3, <1>4, <2>1 DEF AgeTypes, Horizon
<1>6. ASSUME NEW keys \in SUBSET Keys, NEW age \in Nat, Seen(keys, age)
      PROVE  \A k \in keys : k \in served' \/ withdrawn'[k] <= age + 1
  BY <1>1, <1>2, <1>3, <1>6 DEF Seen
<1>7. ASSUME NEW age \in Nat, age <= MaxAge
      PROVE  /\ Capped(age, MaxAge) \in Nat /\ Capped(age, MaxAge) <= MaxAge
             /\ Capped(age, MaxAge) = age + 1 \/ Capped(age, MaxAge) = MaxAge
             /\ age <= Capped(age, MaxAge) /\ Capped(age, MaxAge) <= age + 1
  <2>1. MaxAge \in Nat /\ age \in 0 .. MaxAge
    BY <1>7
  <2> QED  BY <2>1, CappedBounds, Zenon
<1>8. ASSUME NEW keys \in SUBSET Keys, NEW age \in Nat, age <= MaxAge,
             Seen(keys, age + FetchTimeout)
      PROVE  \A k \in keys : k \in served' \/ withdrawn'[k] <= Capped(age, MaxAge) + FetchTimeout
  <2>1. CASE Capped(age, MaxAge) = age + 1
    <3>1. age + FetchTimeout \in Nat /\ (age + FetchTimeout) + 1 = (age + 1) + FetchTimeout
      OBVIOUS
    <3> QED  BY <1>6, <1>8, <2>1, <3>1
  <2>2. CASE Capped(age, MaxAge) = MaxAge
    BY <1>2, <1>3, <2>2
  <2> QED  BY <1>7, <1>8, <2>1, <2>2
<1>9. ASSUME NEW t \in Tasks
      PROVE  /\ task'[t].state = task[t].state /\ task'[t].keys = task[t].keys
             /\ Unfinished(t) => task'[t].age = task[t].age + 1 /\ task[t].age < FetchTimeout
             /\ task[t].state = "ok" => task'[t].age = Capped(task[t].age, MaxAge)
  <2>1. task[t] \in [state : TaskStates, keys : SUBSET Keys, age : Nat]
    BY DEF IInv, TasksTyped
  <2>2. CASE Unfinished(t)
    <3>1. task'[t] = [task[t] EXCEPT !.age = @ + 1] /\ task[t].age < FetchTimeout
      BY <2>2 DEF Tick
    <3>2. task[t].state # "ok"
      BY <2>2 DEF Unfinished
    <3> QED  BY <2>1, <3>1, <3>2
  <2>3. CASE ~Unfinished(t) /\ task[t].state = "ok"
    <3>1. task'[t] = [task[t] EXCEPT !.age = Capped(@, MaxAge)]
      BY <2>3 DEF Tick
    <3> QED  BY <2>1, <2>3, <3>1
  <2>4. CASE ~Unfinished(t) /\ task[t].state # "ok"
    <3>1. task'[t] = task[t]
      BY <2>4 DEF Tick
    <3> QED  BY <2>4, <3>1
  <2> QED  BY <2>2, <2>3, <2>4
<1>10. ASSUME NEW t \in Tasks PROVE TaskFine(t)'
  <2>1. TaskFine(t) /\ task[t].keys \in SUBSET Keys /\ task[t].age \in Nat
    BY DEF AgeInv, IInv, TasksTyped
  <2>2. CASE task[t].state = "ok"
    <3>1. task[t].age <= MaxAge /\ Seen(task[t].keys, task[t].age + FetchTimeout)
      BY <2>1, <2>2 DEF TaskFine
    <3>2. /\ Capped(task[t].age, MaxAge) <= MaxAge
          /\ \A k \in task[t].keys :
                k \in served' \/ withdrawn'[k] <= Capped(task[t].age, MaxAge) + FetchTimeout
      BY <1>7, <1>8, <2>1, <3>1
    <3>3. task'[t].state = "ok" /\ task'[t].keys = task[t].keys
          /\ task'[t].age = Capped(task[t].age, MaxAge)
      BY <1>9, <2>2
    <3> QED  BY <3>2, <3>3 DEF TaskFine, Unfinished, Seen
  <2>3. CASE Unfinished(t)
    <3>1. /\ task'[t].state = task[t].state /\ task'[t].keys = task[t].keys
          /\ task'[t].age = task[t].age + 1 /\ task[t].age + 1 <= FetchTimeout
          /\ task[t].state # "ok"
      BY <1>9, <2>1, <2>3 DEF Unfinished
    <3>2. task[t].state = "answered" =>
             \A k \in task[t].keys : k \in served' \/ withdrawn'[k] <= task[t].age + 1
      BY <1>6, <2>1 DEF TaskFine
    <3> QED  BY <3>1, <3>2 DEF TaskFine, Unfinished, Seen
  <2>4. CASE task[t].state # "ok" /\ ~Unfinished(t)
    BY <1>9, <2>4 DEF TaskFine, Unfinished
  <2> QED  BY <2>2, <2>3, <2>4
<1>11. SnapshotFine'
  <2>1. CASE snapshot = None
    BY <2>1 DEF Tick, SnapshotFine
  <2>2. CASE snapshot # None
    <3>1. /\ snapshot \in [keys : SUBSET Keys, age : Nat]
          /\ snapshot.age <= MaxAge /\ Seen(snapshot.keys, snapshot.age + FetchTimeout)
      BY <2>2 DEF CallInv, AgeInv, SnapshotFine
    <3>2. /\ Capped(snapshot.age, MaxAge) <= MaxAge
          /\ \A k \in snapshot.keys :
                k \in served' \/ withdrawn'[k] <= Capped(snapshot.age, MaxAge) + FetchTimeout
      BY <1>7, <1>8, <3>1
    <3>3. snapshot' = [snapshot EXCEPT !.age = Capped(@, MaxAge)]
      BY <2>2 DEF Tick
    <3>4. snapshot'.keys = snapshot.keys /\ snapshot'.age = Capped(snapshot.age, MaxAge)
      BY <3>1, <3>3
    <3> QED  BY <3>2, <3>4 DEF SnapshotFine, Seen
  <2> QED  BY <2>1, <2>2
<1>12. ASSUME NEW t \in Tasks PROVE YoungerThanSnapshot(t)'
  <2> SUFFICES ASSUME refresh = t, task'[t].state = "ok", snapshot' # None
               PROVE  task'[t].age <= snapshot'.age
    BY <1>1 DEF YoungerThanSnapshot
  <2>1. snapshot # None /\ snapshot' = [snapshot EXCEPT !.age = Capped(@, MaxAge)]
    BY DEF Tick
  <2>2. /\ snapshot \in [keys : SUBSET Keys, age : Nat] /\ snapshot.age <= MaxAge
    BY <2>1 DEF CallInv, AgeInv, SnapshotFine
  <2>3. task[t].state = "ok" /\ task'[t].age = Capped(task[t].age, MaxAge) /\ task[t].age \in Nat
    BY <1>9 DEF IInv, TasksTyped
  <2>4. task[t].age <= snapshot.age
    BY <2>1, <2>3 DEF AgeInv, YoungerThanSnapshot
  <2>5. Capped(task[t].age, MaxAge) <= Capped(snapshot.age, MaxAge)
    BY <2>2, <2>3, <2>4 DEF Capped
  <2> QED  BY <2>1, <2>2, <2>3, <2>5
<1>13. Spacing'
  <2>1. ASSUME ~closed, refresh = None PROVE wait' + idle' >= Gap
    <3>1. wait + idle >= Gap
      BY <2>1 DEF AgeInv, Spacing
    <3>2. Gap \in Nat /\ Gap <= MinInterval /\ MinInterval \in Nat
      BY GapBounds
    <3>3. wait \in Nat /\ idle \in Nat /\ wait' \in Nat /\ idle' \in Nat
      BY <1>2, <1>4
    <3>4. CASE idle' = idle + 1
      BY <1>4, <3>1, <3>2, <3>3, <3>4, SumBounds, Zenon
    <3>5. CASE idle' = MinInterval
      BY <3>2, <3>3, <3>5, SumBounds, Zenon
    <3> QED  BY <1>4, <3>4, <3>5
  <2>2. ASSUME ~closed, NEW t \in Tasks, refresh = t, task'[t].state = "ok"
        PROVE  idle' >= task'[t].age \/ idle' = MinInterval
    <3>1. task[t].state = "ok" /\ task'[t].age = Capped(task[t].age, MaxAge) /\ task[t].age \in Nat
      BY <1>9, <2>2 DEF IInv, TasksTyped
    <3>2. idle >= task[t].age \/ idle = MinInterval
      BY <2>2, <3>1 DEF AgeInv, Spacing
    <3>3. task[t].age <= MaxAge
      BY <3>1 DEF AgeInv, TaskFine
    <3>4. task'[t].age \in Nat /\ task'[t].age <= task[t].age + 1
      BY <1>7, <3>1, <3>3
    <3> QED  BY <1>2, <1>4, <3>1, <3>2, <3>4
  <2>3. Gap' = Gap
    BY DEF Gap
  <2> QED  BY <1>1, <2>1, <2>2, <2>3 DEF Spacing
<1>14. Good
  <2>1. ServesFresh
    BY <1>1 DEF ServesFresh
  <2>2. StartsSpaced
    BY <1>9 DEF StartsSpaced
  <2>3. SnapshotAdvances
    <3> SUFFICES ASSUME snapshot # None PROVE snapshot'.keys = snapshot.keys
      BY DEF SnapshotAdvances
    <3>1. snapshot \in [keys : SUBSET Keys, age : Nat]
      BY DEF CallInv
    <3> QED  BY <3>1 DEF Tick
  <2> QED  BY <2>1, <2>2, <2>3 DEF Good
<1> QED  BY <1>5, <1>10, <1>11, <1>12, <1>13, <1>14 DEF AgeInv

LEMMA AgeNext == ASSUME IInv, CallInv, AgeInv, Next PROVE AgeInv' /\ Good
  BY AgeLookup, AgeResume, AgeSettle, AgeLeave, AgeAnswer, AgeEnded, AgeClose, AgeRotate, AgeTick
     DEF Next

LEMMA AgeStutter == ASSUME AgeInv, UNCHANGED vars PROVE AgeInv'
  BY DEF vars, AgeInv, AgeTypes, TaskFine, Unfinished, Seen, YoungerThanSnapshot, SnapshotFine,
         Spacing, Gap, Horizon

LEMMA AlwaysAgeInv == Spec => [](IInv /\ CallInv /\ AgeInv)
<1>1. Init => CallInv /\ AgeInv
  BY CallInit, AgeInit
<1>2. IInv /\ CallInv /\ AgeInv /\ [Next]_vars => CallInv' /\ AgeInv'
  BY CallNext, AgeNext, AgeStutter
<1> QED  BY <1>1, <1>2, AlwaysIInv, PTL DEF Spec

LEMMA StepsGood == IInv /\ CallInv /\ AgeInv /\ [Next]_vars => [Good]_vars
  BY AgeNext

(* No call is handed a key that the endpoint stopped serving MaxAge +       *)
(* FetchTimeout ticks ago or more: get_signing_keys matches only in a       *)
(* snapshot younger than the cache lifespan, and a response is at most one  *)
(* fetch timeout older than its snapshot.                                   *)
THEOREM KeysExpire == Spec => WithdrawnKeysExpire
<1>1. [Good]_vars => [ServesFresh]_vars
  BY DEF Good
<1> QED  BY <1>1, AlwaysAgeInv, StepsGood, PTL DEF Spec, WithdrawnKeysExpire, ServesFresh

(* From the end of one fetch to the start of the next at least the smaller  *)
(* of the refresh interval and the failure backoff passes, whoever looks    *)
(* up which key: the deadline that _publish sets outlives the result.       *)
THEOREM FetchesSpaced == Spec => FetchesAreSpaced
<1>1. [Good]_vars => [StartsSpaced]_vars
  BY DEF Good
<1> QED  BY <1>1, AlwaysAgeInv, StepsGood, PTL DEF Spec, FetchesAreSpaced, StartsSpaced, Gap

(* A waiter resumed late never replaces the snapshot by an older response:  *)
(* only the waiter that finds its task still shared publishes it.           *)
THEOREM CacheAdvances == Spec => SnapshotNeverRollsBack
<1>1. [Good]_vars => [SnapshotAdvances]_vars
  BY DEF Good
<1> QED  BY <1>1, AlwaysAgeInv, StepsGood, PTL DEF Spec, SnapshotNeverRollsBack, SnapshotAdvances

============================================================================
