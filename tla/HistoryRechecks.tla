--------------------------- MODULE HistoryRechecks --------------------------
(***************************************************************************)
(* The queue of workflow runs whose attempts are read again: one row per   *)
(* run with an interval of attempts, the next one to read, a bounded count *)
(* of acquisitions and a lease.                                            *)
(*                                                                         *)
(* A lease is the worker whose claim is current, "lost" while a lease is   *)
(* live whose claim no longer matches the row or the configuration,        *)
(* "lapsed" once it expired and "none" when there is none.  The revision   *)
(* of the row, which a claim must match exactly, is represented that way.  *)
(***************************************************************************)
EXTENDS HistoryCursor

CONSTANTS
    Workers,           \* concurrent lane tasks of all replicas
    NoRow,             \* an absent row
    MaxAcquisitions,   \* MAX_HISTORY_RECHECK_ACQUISITIONS
    MaxRecheckRuns,    \* MAX_HISTORY_RECHECK_RUNS
    MaxRepairRuns      \* MAX_HISTORY_REPAIR_RUNS

RecheckRows ==
    [lower : Nat, latest : Nat, next : Nat, count : Nat,
     lease : Workers \cup {"none", "lost", "lapsed"}, source : {"recent", "repair"}]

ASSUME RecheckAssumption ==
    /\ Workers \cap {"none", "lost", "lapsed"} = {}
    /\ {MaxAcquisitions, MaxRecheckRuns, MaxRepairRuns} \subseteq Nat \ {0}
    /\ MaxRepairRuns <= MaxRecheckRuns
    /\ NoRow \notin RecheckRows

Live(lease) == lease \in Workers \cup {"lost"}

(* What a write by someone else leaves of a lease. *)
Superseded(lease) == IF lease \in Workers THEN "lost" ELSE lease

Hint(lower, latest, source) == [lower |-> lower, latest |-> latest, source |-> source]

InitialRecheck(hint) ==
    [lower |-> hint.lower, latest |-> hint.latest, next |-> hint.lower,
     count |-> 0, lease |-> "none", source |-> hint.source]

MergeHint(row, hint, revisit) ==
    LET lower == LowerOf(row.lower, hint.lower)
        next == IF revisit \/ hint.lower < row.lower
                THEN LowerOf(row.next, hint.lower) ELSE row.next
        rewound == next < row.next
        merged == [row EXCEPT !.lower = lower,
                              !.latest = HigherOf(@, hint.latest),
                              !.next = next,
                              !.source = IF hint.source = "recent" THEN "recent" ELSE @]
    IN IF merged = row THEN row
       ELSE [merged EXCEPT !.count = IF rewound THEN 0 ELSE @,
                           !.lease = IF rewound THEN "none" ELSE Superseded(@)]

Queued(rows) == {r \in DOMAIN rows : rows[r] # NoRow}

CapacityAvailable(rows, source) ==
    /\ Cardinality(Queued(rows)) < MaxRecheckRuns
    /\ \/ source = "recent"
       \/ Cardinality({r \in Queued(rows) : rows[r].source = "repair"}) < MaxRepairRuns

(* Admission: merge into the run's row, or insert one if there is room. *)
Admissible(rows, run, hint) == rows[run] # NoRow \/ CapacityAvailable(rows, hint.source)

Admit(rows, run, hint, revisit) ==
    [rows EXCEPT ![run] = IF @ = NoRow THEN InitialRecheck(hint)
                          ELSE MergeHint(@, hint, revisit)]

Acquire(row, w) == [row EXCEPT !.count = @ + 1, !.lease = w]

(* The attempt is dealt with; the last one ends the row. *)
AdvanceRecheck(row) ==
    IF row.next = row.latest THEN NoRow
    ELSE [row EXCEPT !.next = @ + 1, !.count = 0, !.lease = "none"]

(* The acquisition is given back: it read nothing that could be kept. *)
Postpone(row) == [row EXCEPT !.lease = "none", !.count = @ - 1]

Exhausted(row) == row.count = MaxAcquisitions

(* Faulty variant, for sensitivity checks only: the last acquisition is deferred like any other. *)
FinishDeferredUnbounded(row) == [row EXCEPT !.lease = "none"]

(* A failed read leaves the row due again until its acquisitions run out. *)
FinishDeferred(row) ==
    IF Exhausted(row) THEN AdvanceRecheck(row) ELSE [row EXCEPT !.lease = "none"]

(* HistoryRecheckState.__post_init__ *)
RecheckReadable(row) ==
    /\ 1 <= row.lower /\ row.lower <= row.next /\ row.next <= row.latest
    /\ row.count \in 0 .. MaxAcquisitions
    /\ row.count = MaxAcquisitions => row.lease # "none"
    /\ row.lease # "none" => row.count > 0
    /\ row.source \in {"recent", "repair"}

=============================================================================
