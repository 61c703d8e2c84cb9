------------------------------ MODULE Screens ------------------------------
(* The list screens of the staff portal: a search box, a filter, a pager   *)
(* and a list asked for by search, filter and page.                        *)
(*                                                                         *)
(* What a page does differently is its record of traits.  Answers are kept *)
(* under the query they answer, so an answer to a query that is no longer  *)
(* on display changes nothing, and a cached one is an answer that arrives  *)
(* at once.  A list is what the screen can tell of it: its pages.          *)
EXTENDS Integers, FiniteSets

CONSTANTS
    Finds,       \* texts of the search box, "" among them
    Filters,     \* values of the filter, "all" among them
    MaxPages     \* bound on the pages of a list

ASSUME ScreenConstants == "" \in Finds /\ "all" \in Filters /\ MaxPages \in Nat \ {0}

VARIABLES
    scr,       \* the screen
    pages      \* pages[f, x]: how many pages the list has for filter f and search x

screenVars == <<scr, pages>>

\* box: what typing does: nothing, ask at once, ask after a pause, filter
\* the rows at hand, or change the address after a pause.  preset: the
\* filter is set when its values arrive.  keep: the last list shows until
\* the next arrives.  jumps: the pager always shows and reaches any page;
\* otherwise it shows for lists of several pages and goes page by page.
\* waits: it is disabled while a list is asked for.
Plain == [box |-> "none", filter |-> TRUE, preset |-> FALSE, keep |-> FALSE,
          pager |-> FALSE, jumps |-> FALSE, waits |-> FALSE]

\* Each page: its search and filter, then its list and pager
Outstanding == [Plain EXCEPT !.box = "pause"]
OutstandingPager == [Outstanding EXCEPT !.pager = TRUE]

DemandLedger == [Plain EXCEPT !.box = "pause", !.preset = TRUE]
DemandLedgerPager == [DemandLedger EXCEPT !.pager = TRUE]

FindProperty == [Plain EXCEPT !.box = "pause"]
FindPropertyPager == [FindProperty EXCEPT !.pager = TRUE, !.waits = TRUE]

ImportHistory == [Plain EXCEPT !.box = "pause"]
ImportHistoryPager == [ImportHistory EXCEPT !.pager = TRUE, !.waits = TRUE]

PaymentsList == [Plain EXCEPT !.filter = FALSE]
PaymentsPager == [PaymentsList EXCEPT !.pager = TRUE, !.waits = TRUE]

Notices == [Plain EXCEPT !.box = "now"]
NoticesPager == [Notices EXCEPT !.pager = TRUE]

SurveyList == [Plain EXCEPT !.box = "address", !.keep = TRUE]
SurveyPager == [SurveyList EXCEPT !.pager = TRUE, !.jumps = TRUE]

AuditLogs == [Plain EXCEPT !.box = "client"]
UserList == [Plain EXCEPT !.box = "client", !.filter = FALSE]
PermissionList == [Plain EXCEPT !.box = "client", !.filter = FALSE]
Dashboard == Plain
CustomerLedger == [Plain EXCEPT !.box = "pause", !.filter = FALSE]

Screens == {OutstandingPager, DemandLedgerPager, FindPropertyPager, ImportHistoryPager,
            PaymentsPager, NoticesPager, SurveyPager, AuditLogs, UserList, PermissionList,
            Dashboard, CustomerLedger}

-----------------------------------------------------------------------------
(* The screen: the text typed, the query on display, the pages of the list *)
(* shown and the query it answers, whether a list is asked for, an address *)
(* on its way, and why the page may lie past the end of the list.          *)

FirstQuery == [f |-> "all", x |-> "", p |-> 1]

NoScreen(tr) == [tr |-> tr, box |-> "", q |-> FirstQuery, got |-> {}, of |-> FirstQuery,
                 busy |-> TRUE, nav |-> {}, astray |-> {}]

Here == pages[scr.q.f, scr.q.x]

SameList(q, r) == q.f = r.f /\ q.x = r.x

\* Another query is on display; without keep its list shows when it arrives
Ask(s, q) ==
    IF q = s.q THEN s
    ELSE [s EXCEPT !.q = q, !.busy = TRUE, !.got = IF s.tr.keep THEN @ ELSE {}]

\* Mutant: a new search or filter keeps the page
MutFirstPage(q) == q

\* A new search or filter starts at the first page
FirstPage(q) == [q EXCEPT !.p = 1]

\* The new query is shown at once, or when its address arrives; a later
\* address overtakes one still on its way
Show(s, q) == scr' = IF s.tr.box = "address" THEN [s EXCEPT !.nav = {q}] ELSE Ask(s, q)

Type(x) ==
    /\ scr.tr.box # "none" /\ x # scr.box
    /\ IF scr.tr.box = "now" THEN Show([scr EXCEPT !.box = x], FirstPage([scr.q EXCEPT !.x = x]))
                             ELSE scr' = [scr EXCEPT !.box = x]
    /\ UNCHANGED pages

\* The pause after the last keystroke
Debounce ==
    /\ scr.tr.box \in {"pause", "address"} /\ scr.box # scr.q.x
    /\ Show(scr, FirstPage([scr.q EXCEPT !.x = scr.box]))
    /\ UNCHANGED pages

SetFilter(f) ==
    /\ scr.tr.filter /\ f # scr.q.f
    /\ Show(scr, FirstPage([scr.q EXCEPT !.f = f]))
    /\ UNCHANGED pages

\* The filter's values have arrived and it is on all of them: the effect
\* sets the latest, and the page stays
PresetFilter(f) ==
    /\ scr.tr.preset /\ scr.q.f = "all" /\ f # "all"
    /\ scr' = [Ask(scr, [scr.q EXCEPT !.f = f]) EXCEPT
                 !.astray = IF scr.q.p > 1 THEN @ \cup {"preset"} ELSE @]
    /\ UNCHANGED pages

\* The new address is on display; a new search replaces the text typed
Arrive ==
    /\ \E q \in scr.nav : scr' = [Ask(scr, q) EXCEPT !.nav = {},
                                     !.box = IF q.x # scr.q.x THEN q.x ELSE @]
    /\ UNCHANGED pages

\* Previous and Next, by the pages of the list shown
GoPage(p) ==
    /\ scr.tr.pager /\ (scr.tr.waits => ~scr.busy)
    /\ p # scr.q.p /\ (scr.tr.jumps \/ p \in {scr.q.p - 1, scr.q.p + 1})
    /\ \E n \in scr.got : (scr.tr.jumps \/ n > 1) /\ (p < scr.q.p \/ p <= n)
    /\ Show([scr EXCEPT !.astray = IF SameList(scr.of, scr.q) THEN @ ELSE @ \cup {"placeholder"}],
            [scr.q EXCEPT !.p = p])
    /\ UNCHANGED pages

ListAnswered ==
    /\ scr.busy
    /\ scr' = [scr EXCEPT !.got = {Here}, !.of = scr.q, !.busy = FALSE,
                          !.astray = IF scr.q.p = 1 /\ scr.nav = {} THEN {} ELSE @]
    /\ UNCHANGED pages

\* The list is asked for again, when the network is back or the screen is
\* opened anew (the focus of the window does not matter)
AskAgain ==
    /\ ~scr.busy
    /\ scr' = [scr EXCEPT !.busy = TRUE]
    /\ UNCHANGED pages

\* Rows are settled, deleted or moved by somebody else
RowsGo ==
    /\ \E k \in DOMAIN pages : pages[k] > 1
    /\ pages' = [k \in DOMAIN pages |-> 1]
    /\ scr' = [scr EXCEPT !.astray = @ \cup {"removed"}]

-----------------------------------------------------------------------------
ScreenInit ==
    /\ scr \in {NoScreen(tr) : tr \in Screens}
    /\ pages \in [Filters \X Finds -> 1..MaxPages]

ScreenNext ==
    \/ \E x \in Finds : Type(x)
    \/ \E f \in Filters : SetFilter(f) \/ PresetFilter(f)
    \/ \E p \in 1..MaxPages : GoPage(p)
    \/ Debounce \/ Arrive \/ ListAnswered \/ AskAgain \/ RowsGo

ScreenSpec == ScreenInit /\ [][ScreenNext]_screenVars

-----------------------------------------------------------------------------
\* The screen asks for what its controls offer
ScreenTypeOK ==
    LET Query == [f : Filters, x : Finds, p : 1..MaxPages] IN
    /\ scr.tr \in Screens /\ scr.box \in Finds /\ scr.busy \in BOOLEAN
    /\ scr.q \in Query /\ scr.of \in Query /\ scr.nav \subseteq Query
    /\ scr.got \subseteq 1..MaxPages /\ scr.astray \subseteq {"preset", "placeholder", "removed"}
    /\ pages \in [Filters \X Finds -> 1..MaxPages]

\* A list that has arrived is at a page it has, on every screen, however
\* typing, pauses, filters and the pager interleave (setPage(1) with each
\* change of the query).  The exceptions the code has: rows went, Next was
\* pressed on the list kept from the search before, or the assessment year
\* was set behind a page already chosen
PageWithinList ==
    (scr.got # {} /\ scr.of = scr.q /\ ~scr.busy) => (scr.q.p <= Here \/ scr.astray # {})
=============================================================================
