---------------------------- MODULE HistoryCursor ---------------------------
(***************************************************************************)
(* How a history scan walks a frozen population of workflow runs: windows  *)
(* of creation time, numbered pages inside a window, and the runs of a     *)
(* page with their attempts.  Everything here is a function of a scan row; *)
(* HistoryCollection says when it is applied.                              *)
(*                                                                         *)
(* Times are whole seconds, the precision of the provider's created query. *)
(* Both ends of a window are included.  A page is what one provider read   *)
(* returned: its runs with the latest attempt of each, the total of the    *)
(* window and how the listing ended.  The provider lists newest first, so  *)
(* the set of the runs of a page also gives their order.                   *)
(***************************************************************************)
EXTENDS Integers, FiniteSets

CONSTANTS
    PageSize,     \* DISCOVERY_PAGE_SIZE
    MaxPages,     \* MAX_DISCOVERY_PAGES
    MaxWindow     \* MAX_DISCOVERY_WINDOW_SECONDS

ASSUME CursorAssumption == {PageSize, MaxPages, MaxWindow} \subseteq Nat \ {0}

LowerOf(x, y) == IF x <= y THEN x ELSE y

HigherOf(x, y) == IF x >= y THEN x ELSE y

----------------------------------------------------------------------------
(* Windows *)

(* The window that starts at from, no wider than the provider admits. *)
Segment(scan, from) ==
    [scan EXCEPT !.wfrom = from,
                 !.wto = LowerOf(scan.through, from + MaxWindow),
                 !.page = 1]

(* A scan at the start of its frozen interval.  Its cycle names the moment  *)
(* the interval was frozen.                                                 *)
StartCursor(from, through, cycle, floor, done) ==
    Segment([from |-> from, through |-> through, cycle |-> cycle,
             wfrom |-> from, wto |-> from, page |-> 1,
             runs |-> {}, next |-> 1, more |-> FALSE, complete |-> FALSE,
             lease |-> "none", due |-> FALSE, floor |-> floor, done |-> done], from)

CanSplit(scan) == scan.wto - scan.wfrom > 1

Split(scan) ==
    [scan EXCEPT !.wto = scan.wfrom + ((scan.wto - scan.wfrom) \div 2), !.page = 1]

(* Faulty variant, for sensitivity checks only: the next window skips a second. *)
AdvanceWindowPastEnd(scan) ==
    IF scan.wto = scan.through
    THEN [scan EXCEPT !.complete = TRUE]
    ELSE Segment(scan, scan.wto + 1)

(* The next window starts at the end of this one; the interval is done when *)
(* this one reached its end.                                                *)
AdvanceWindow(scan) ==
    IF scan.wto = scan.through
    THEN [scan EXCEPT !.complete = TRUE]
    ELSE Segment(scan, scan.wto)

----------------------------------------------------------------------------
(* Pages *)

(* Where a run stands in a listing; numbers of runs grow with their         *)
(* creation.                                                                *)
Position(listed, r) == Cardinality({q \in listed : q >= r})

(* The provider offers a next page while runs remain, and the reader stops  *)
(* at the last page it may ask for.                                         *)
ProviderPage(listed, latestOf, number) ==
    LET total == Cardinality(listed)
        shown == {r \in listed : /\ Position(listed, r) > (number - 1) * PageSize
                                 /\ Position(listed, r) <= number * PageSize}
    IN [runs |-> {[run |-> r, latest |-> latestOf[r]] : r \in shown},
        total |-> total,
        termination |-> IF number * PageSize >= total THEN "exhausted"
                        ELSE IF number = MaxPages THEN "truncated" ELSE "next_page"]

Oversized(page) == page.total > PageSize * MaxPages

(* A window with more runs than pages can list is split while it can be. *)
Subdivides(scan, page) == Oversized(page) /\ CanSplit(scan)

(* The window's remainder is given up: the page leaves a gap. *)
Truncates(scan, page) ==
    /\ ~Subdivides(scan, page)
    /\ page.termination # "next_page"
    /\ page.termination = "truncated" \/ Oversized(page)

(* Where the cursor goes once every run of a page is dealt with. *)
AfterPage(scan, more) ==
    LET cleared == [scan EXCEPT !.runs = {}, !.next = 1, !.more = FALSE]
    IN IF more THEN [cleared EXCEPT !.page = @ + 1] ELSE AdvanceWindow(cleared)

AcceptPage(scan, page) ==
    IF Subdivides(scan, page) THEN Split(scan)
    ELSE IF page.runs = {} THEN AfterPage(scan, page.termination = "next_page")
    ELSE [scan EXCEPT !.runs = page.runs, !.more = (page.termination = "next_page")]

----------------------------------------------------------------------------
(* The pending page.  Its newest run is the one in progress. *)

Pending(scan) == scan.runs # {}

Current(scan) == CHOOSE x \in scan.runs : \A y \in scan.runs : y.run <= x.run

AdvanceRun(scan) ==
    LET rest == scan.runs \ {Current(scan)}
    IN IF rest # {} THEN [scan EXCEPT !.runs = rest, !.next = 1]
       ELSE AfterPage(scan, scan.more)

CompleteAttempt(scan) ==
    IF scan.next < Current(scan).latest
    THEN [scan EXCEPT !.next = @ + 1]
    ELSE AdvanceRun(scan)

(* A finished discovery cycle records how far it got. *)
FinishClaim(scan, lane) ==
    [scan EXCEPT !.lease = "none",
                 !.done = IF lane = "discovery" /\ scan.complete THEN scan.through ELSE @]

(* Faulty variant, for sensitivity checks only: cycles do not overlap. *)
NextCycleWithoutOverlap(scan, overlap, now) ==
    StartCursor(LowerOf(scan.done + 1, now), now, now, scan.floor, scan.done)

(* The next discovery cycle overlaps the previous one and ends now. *)
NextCycle(scan, overlap, now) ==
    StartCursor(scan.done - LowerOf(scan.done - scan.floor, overlap), now, now,
                scan.floor, scan.done)

=============================================================================
