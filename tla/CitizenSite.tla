---------------------------- MODULE CitizenSite ----------------------------
(* The citizen site for one property and assessment year: the search, the  *)
(* dues, pay, return and receipt pages, in several tabs, and the public    *)
(* API behind them.                                                        *)
(*                                                                         *)
(* The demand is published and an order is always for the whole            *)
(* outstanding amount, so what is owed is a Boolean.  createPayment reads, *)
(* checks and inserts without a transaction: each database call is a step. *)
(* A status request, a report and a requery each read the payment and      *)
(* write it later; credits and refunds are in module Payments.             *)
EXTENDS Integers, FiniteSets

CONSTANTS
    Tabs,
    Followed,      \* the tabs whose checkout is followed to the return page
    Orders,        \* payments of the property, numbered
    Terms,         \* what a citizen may search for
    MaxSearches,   \* bound on searches
    MaxFailures    \* bound on status requests that fail

ASSUME SiteConstants == Followed \subseteq Tabs /\ Orders \subseteq Nat /\ MaxSearches \in Nat /\ MaxFailures \in Nat

VARIABLES
    tab,       \* what each tab shows
    check,     \* the createPayment request of each tab
    order,     \* Payment rows
    owed,      \* the demand is not paid
    calls,     \* status requests, reports and requeries between read and write
    failures,
    srch       \* the search page

siteVars == <<tab, check, order, owed, calls, failures, srch>>
siteDb == <<order, owed, calls>>

NoTab == [at |-> "search", payable |-> FALSE, submitted |-> FALSE, pid |-> {}, shown |-> "none"]
NoCheck == [pc |-> "idle", awaited |-> FALSE, pid |-> {}, met |-> {}]
NoOrder == [st |-> "none", recent |-> FALSE, gw |-> "none", heard |-> FALSE, with |-> {}]

OpenStates == {"INITIATED", "PENDING"}

-----------------------------------------------------------------------------
(* Search.  A search is a mutation: its answer is applied whatever has     *)
(* happened since, and Reset only stops the page from waiting for it.      *)

NoSearch == [term |-> {}, active |-> {}, result |-> {}, wait |-> {}, flight |-> {},
             n |-> 0, cut |-> {}]

\* The fields of the three tabs of the form
EditForm(x) ==
    /\ srch.term # {x}
    /\ srch' = [srch EXCEPT !.term = {x}]
    /\ UNCHANGED <<tab, check, siteDb, failures>>

\* validate: a search needs its fields
Valid == srch.term # {}

RunSearch(x, pg) ==
    /\ srch.n < MaxSearches
    /\ LET s == [id |-> srch.n + 1, term |-> x, pg |-> pg]
       IN  srch' = [srch EXCEPT !.active = {s}, !.wait = {s}, !.flight = @ \cup {s}, !.n = @ + 1]
    /\ UNCHANGED <<tab, check, siteDb, failures>>

\* Mutant: the search button stays enabled while a search is awaited
MutHandleSearch == Valid /\ \E x \in srch.term : RunSearch(x, 1)

HandleSearch == Valid /\ srch.wait = {} /\ \E x \in srch.term : RunSearch(x, 1)

\* The next or the previous page of the query last run; there are two
GoToPage ==
    /\ srch.wait = {} /\ srch.result # {}
    /\ \E a \in srch.active : RunSearch(a.term, 3 - a.pg)

SearchAnswered(s) ==
    /\ s \in srch.flight
    /\ srch' = [srch EXCEPT !.result = {s}, !.flight = @ \ {s}, !.wait = @ \ {s}]
    /\ UNCHANGED <<tab, check, siteDb, failures>>

SearchFailed(s) ==
    /\ s \in srch.flight
    /\ srch' = [srch EXCEPT !.result = {}, !.flight = @ \ {s}, !.wait = @ \ {s}]
    /\ UNCHANGED <<tab, check, siteDb, failures>>

HandleReset ==
    /\ srch # NoSearch
    /\ srch' = [NoSearch EXCEPT !.n = srch.n, !.flight = srch.flight,
                                !.cut = srch.cut \cup srch.flight]
    /\ UNCHANGED <<tab, check, siteDb, failures>>

-----------------------------------------------------------------------------
(* Dues and payment.                                                       *)

\* isAlreadyPaidForYear and payableAmount, for a published demand
Payable == owed

\* resolveSearchDueStatuses: a property without dues has no link
DueStatus == IF owed THEN "DUE" ELSE "NO_DUE"

OpenDues(t) ==
    /\ \/ tab[t].at = "search" /\ DueStatus = "DUE"
       \/ tab[t].at = "return" /\ tab[t].shown \notin {"none", "error", "SUCCESS"}
    /\ tab' = [tab EXCEPT ![t] = [NoTab EXCEPT !.at = "dues", !.payable = Payable]]
    /\ UNCHANGED <<check, siteDb, failures, srch>>

\* The dues query again, when the page is opened or the network is back
Refetch(t) ==
    /\ tab[t].at \in {"dues", "pay"}
    /\ tab' = [tab EXCEPT ![t].payable = Payable]
    /\ UNCHANGED <<check, siteDb, failures, srch>>

\* The link to the pay page, shown only for a payable property
PayOnline(t) ==
    /\ tab[t].at = "dues" /\ tab[t].payable
    /\ tab' = [tab EXCEPT ![t].at = "pay"]
    /\ UNCHANGED <<check, siteDb, failures, srch>>

HandleSubmit(t) ==
    /\ tab[t].at = "pay" /\ tab[t].payable /\ ~tab[t].submitted /\ check[t] = NoCheck
    /\ tab' = [tab EXCEPT ![t].submitted = TRUE]
    /\ check' = [check EXCEPT ![t] = [NoCheck EXCEPT !.pc = "dues", !.awaited = TRUE]]
    /\ UNCHANGED <<siteDb, failures, srch>>

\* getDues
CheckDues(t) ==
    /\ check[t].pc = "dues"
    /\ check' = [check EXCEPT ![t].pc = IF Payable THEN "open" ELSE "refused"]
    /\ UNCHANGED <<tab, siteDb, failures, srch>>

\* Mutant: only an order the gateway has accepted blocks another
MutRecentOpen(o) == o.st = "PENDING" /\ o.recent

RecentOpen(o) == o.st \in OpenStates /\ o.recent

CheckOpen(t) ==
    /\ check[t].pc = "open"
    /\ check' = [check EXCEPT ![t].pc = IF \E p \in Orders : RecentOpen(order[p])
                                        THEN "refused" ELSE "create"]
    /\ UNCHANGED <<tab, siteDb, failures, srch>>

\* The requests past their check when p comes to be open
Met(p) == [u \in Tabs |-> IF check[u].pc = "create" THEN [check[u] EXCEPT !.met = @ \cup {p}]
                          ELSE check[u]]

\* The row is inserted
CreateOrder(t) ==
    /\ check[t].pc = "create"
    /\ \E p \in Orders :
          /\ order[p] = NoOrder /\ \A q \in Orders : q < p => order[q] # NoOrder
          /\ order' = [order EXCEPT ![p] = [NoOrder EXCEPT !.st = "INITIATED", !.recent = TRUE,
                                                           !.with = check[t].met]]
          /\ check' = [Met(p) EXCEPT ![t] = [check[t] EXCEPT !.pc = "gateway", !.pid = {p}]]
    /\ UNCHANGED <<tab, owed, calls, failures, srch>>

\* The gateway issues a checkout token, or refuses the order
OrderIssued(t) ==
    /\ check[t].pc = "gateway"
    /\ order' = [p \in Orders |-> IF p \in check[t].pid
                                  THEN [order[p] EXCEPT !.st = "PENDING", !.gw = "open"] ELSE order[p]]
    /\ check' = [check EXCEPT ![t].pc = "issued"]
    /\ UNCHANGED <<tab, owed, calls, failures, srch>>

OrderRefused(t) ==
    /\ check[t].pc = "gateway"
    /\ order' = [p \in Orders |-> IF p \in check[t].pid
                                  THEN [order[p] EXCEPT !.st = "FAILED"] ELSE order[p]]
    /\ check' = [check EXCEPT ![t].pc = "refused"]
    /\ UNCHANGED <<tab, owed, calls, failures, srch>>

\* onSuccess opens the checkout, unless its script fails to load; an error,
\* like that failure, lets the form be submitted again
CheckoutOpens(t) ==
    /\ check[t].pc = "issued" /\ check[t].awaited
    /\ tab' = [tab EXCEPT ![t].at = "checkout", ![t].pid = check[t].pid]
    /\ check' = [check EXCEPT ![t] = NoCheck]
    /\ UNCHANGED <<siteDb, failures, srch>>

SubmitFailed(t) ==
    /\ check[t].pc \in {"issued", "refused"} /\ check[t].awaited
    /\ tab' = [tab EXCEPT ![t].submitted = FALSE]
    /\ check' = [check EXCEPT ![t] = NoCheck]
    /\ UNCHANGED <<siteDb, failures, srch>>

\* The tab is closed; a request under way goes on in the API
Leave(t) ==
    /\ tab[t].at # "closed"
    /\ tab' = [tab EXCEPT ![t] = [NoTab EXCEPT !.at = "closed"]]
    /\ check' = [check EXCEPT ![t].awaited = FALSE]
    /\ UNCHANGED <<siteDb, failures, srch>>

\* An answer nobody awaits
Unheard(t) ==
    /\ check[t].pc \in {"issued", "refused"} /\ ~check[t].awaited
    /\ check' = [check EXCEPT ![t] = NoCheck]
    /\ UNCHANGED <<tab, siteDb, failures, srch>>

\* Fifteen minutes later an order, and those before it, no longer block another
WindowPasses(p) ==
    /\ RecentOpen(order[p])
    /\ order' = [q \in Orders |-> IF q <= p THEN [order[q] EXCEPT !.recent = FALSE] ELSE order[q]]
    /\ UNCHANGED <<tab, check, owed, calls, failures, srch>>

-----------------------------------------------------------------------------
(* The gateway, its reports and the return page.                           *)

OrderPaid(p) ==
    /\ order[p].gw = "open"
    /\ order' = [order EXCEPT ![p].gw = "paid"]
    /\ UNCHANGED <<tab, check, owed, calls, failures, srch>>

\* handleGatewayReturn redirects the browser to the return page
BrowserReturns(t) ==
    /\ tab[t].at = "checkout" /\ t \in Followed
    /\ tab' = [tab EXCEPT ![t].at = "return"]
    /\ UNCHANGED <<check, siteDb, failures, srch>>

\* Mutant: the page asks once
MutPolls(x) == x.shown = "none"

\* refetchInterval: the first request, then every three seconds while the
\* last answer was PENDING or INITIATED
Polls(x) == x.shown \in {"none"} \cup OpenStates

\* The return page asks so; the receipt page asks once
Inquires(x) == (x.at = "return" /\ Polls(x)) \/ (x.at = "receipt" /\ x.shown = "none")

\* What the gateway knows of the order when it is asked
GatewayTells(p) == IF order[p].gw = "paid" THEN "paid" ELSE "unknown"

Call(kind, t, p, says) ==
    [kind |-> kind, tab |-> t, pid |-> p, says |-> says, read |-> order[p].st]

\* The status request the tab waits for
Awaits(t, c) == c.tab = {t} /\ tab[t].pid = {c.pid}

\* getPaymentByMerchTxnId with sync, of the page or of getReceipt, reads the
\* payment and asks the gateway
Poll(t) ==
    /\ Inquires(tab[t]) /\ ~\E c \in calls : Awaits(t, c)
    /\ \E p \in tab[t].pid : calls' = calls \cup {Call("sync", {t}, p, GatewayTells(p))}
    /\ UNCHANGED <<tab, check, order, owed, failures, srch>>

\* One report and one requery at a time are explored
Free(kind) == \A c \in calls : c.kind # kind

\* handleCallback, by the gateway or the browser, reads the payment; a failed
\* attempt leaves the order open at the gateway.  Once a report has been
\* processed only a success is, and only if the payment is not SUCCESS
Report(p, says) ==
    /\ Free("report") /\ order[p].gw # "none"
    /\ says = "paid" => order[p].gw = "paid"
    /\ order[p].heard => says = "paid" /\ order[p].st # "SUCCESS"
    /\ calls' = calls \cup {Call("report", {}, p, says)}
    /\ UNCHANGED <<tab, check, order, owed, failures, srch>>

\* requery, by the office
OfficeRequery(p) ==
    /\ Free("requery") /\ order[p].st # "none"
    /\ calls' = calls \cup {Call("requery", {}, p, GatewayTells(p))}
    /\ UNCHANGED <<tab, check, order, owed, failures, srch>>

\* Mutant: an answer without a status is taken for a success
MutOutcomes(c) == IF c.says = "declined" /\ c.read # "SUCCESS" THEN {"FAILED"} ELSE {"SUCCESS"}

\* The status a call comes to: of a report what it says, of a request to the
\* gateway the success it tells of - an order paid since the read may be told
\* of or not.  Without a success the status read is written back, except that
\* a report of a failure makes it FAILED
Outcomes(c) ==
    CASE c.says = "paid" -> {"SUCCESS"}
      [] c.says = "declined" -> {IF c.read = "SUCCESS" THEN "SUCCESS" ELSE "FAILED"}
      [] c.kind # "report" /\ order[c.pid].gw = "paid" -> {"SUCCESS", c.read}
      [] OTHER -> {c.read}

\* A sync is answered from a payment it reads as SUCCESS or FAILED
Writes(c) == c.kind # "sync" \/ c.read \in OpenStates

\* A write-back that opens the order again, after the check of whoever has
\* ordered since
Reopens(c, st) == Writes(c) /\ st \in OpenStates /\ order[c.pid].st \notin OpenStates

Written(c, st) ==
    [p \in Orders |->
        IF p = c.pid THEN [order[p] EXCEPT !.st = IF Writes(c) THEN st ELSE @,
                                           !.heard = @ \/ c.kind = "report"]
        ELSE IF Reopens(c, st) /\ c.pid < p /\ order[p] # NoOrder THEN [order[p] EXCEPT !.with = @ \cup {c.pid}]
        ELSE order[p]]

\* handleCallback's transaction, or finalizeRequerySuccess, whose status is
\* what the page that waits for it shows; a receipt needs a SUCCESS
Finish(c) ==
    /\ c \in calls /\ calls' = calls \ {c}
    /\ \E st \in IF Writes(c) THEN Outcomes(c) ELSE {c.read} :
          /\ order' = Written(c, st)
          /\ check' = IF Reopens(c, st) THEN Met(c.pid) ELSE check
          /\ owed' = (owed /\ ~(Writes(c) /\ st = "SUCCESS"))
          /\ tab' = [t \in Tabs |->
                IF ~Awaits(t, c) THEN tab[t]
                ELSE [tab[t] EXCEPT !.shown = IF @ = "none" /\ tab[t].at = "receipt" /\ st # "SUCCESS"
                                              THEN "error" ELSE st]]
    /\ UNCHANGED <<failures, srch>>

\* A call fails before its write, or a status request, with its retries, for
\* the page alone.  The first failure leaves the page in error; a later one
\* keeps the last answer, and the page goes on asking
CallFails(c) ==
    /\ c \in calls /\ failures < MaxFailures
    /\ failures' = failures + 1
    /\ \/ calls' = calls \ {c}
       \/ c.tab # {} /\ calls' = (calls \ {c}) \cup {[c EXCEPT !.tab = {}]}
    /\ tab' = [t \in Tabs |-> IF Awaits(t, c) /\ tab[t].shown = "none"
                              THEN [tab[t] EXCEPT !.shown = "error"] ELSE tab[t]]
    /\ UNCHANGED <<check, order, owed, srch>>

\* The receipt page, whose getReceipt syncs the payment again
ViewReceipt(t) ==
    /\ tab[t].at = "return" /\ tab[t].shown = "SUCCESS"
    /\ tab' = [tab EXCEPT ![t].at = "receipt", ![t].shown = "none"]
    /\ UNCHANGED <<check, siteDb, failures, srch>>

-----------------------------------------------------------------------------
SiteInit ==
    /\ tab = [t \in Tabs |-> NoTab] /\ check = [t \in Tabs |-> NoCheck]
    /\ order = [p \in Orders |-> NoOrder] /\ owed = TRUE
    /\ calls = {} /\ failures = 0 /\ srch = NoSearch

Searching ==
    \/ \E x \in Terms : EditForm(x)
    \/ HandleSearch \/ GoToPage \/ HandleReset
    \/ \E s \in srch.flight : SearchAnswered(s) \/ SearchFailed(s)

Browsing == \E t \in Tabs : OpenDues(t) \/ Refetch(t) \/ Leave(t)

Ordering ==
    \E t \in Tabs :
       \/ PayOnline(t) \/ HandleSubmit(t)
       \/ CheckDues(t) \/ CheckOpen(t) \/ CreateOrder(t) \/ OrderIssued(t) \/ OrderRefused(t)
       \/ CheckoutOpens(t) \/ SubmitFailed(t) \/ Unheard(t)

Asking ==
    \/ \E p \in Orders : WindowPasses(p) \/ OrderPaid(p) \/ OfficeRequery(p)
    \/ \E c \in calls : Finish(c)

Confirming ==
    \/ \E t \in Tabs : BrowserReturns(t) \/ Poll(t) \/ ViewReceipt(t)
    \/ \E p \in Orders, says \in {"paid", "declined", "unknown"} : Report(p, says)
    \/ \E c \in calls : CallFails(c)

SiteNext == Searching \/ Browsing \/ Ordering \/ Asking \/ Confirming

\* The browser's timer runs as long as the return page is open, and what it
\* asks the API is answered or fails
SiteFairness ==
    \A t \in Followed : /\ WF_siteVars(Poll(t))
                        /\ WF_siteVars(\E c \in calls : Awaits(t, c) /\ Finish(c))

SiteSpec == SiteInit /\ [][SiteNext]_siteVars /\ SiteFairness

-----------------------------------------------------------------------------
\* The tabs, the requests and the orders hold what they may hold
SiteTypeOK ==
    /\ tab \in [Tabs -> [at : {"search", "dues", "pay", "checkout", "return", "receipt", "closed"},
                         payable : BOOLEAN, submitted : BOOLEAN, pid : SUBSET Orders,
                         shown : OpenStates \cup {"none", "error", "SUCCESS", "FAILED"}]]
    /\ check \in [Tabs -> [pc : {"idle", "dues", "open", "create", "gateway", "issued", "refused"},
                           awaited : BOOLEAN, pid : SUBSET Orders, met : SUBSET Orders]]
    /\ order \in [Orders -> [st : OpenStates \cup {"none", "SUCCESS", "FAILED"},
                             recent : BOOLEAN, gw : {"none", "open", "paid"}, heard : BOOLEAN,
                             with : SUBSET Orders]]
    /\ calls \subseteq [kind : {"sync", "report", "requery"}, tab : SUBSET Tabs,
                        pid : Orders, says : {"paid", "declined", "unknown"},
                        read : OpenStates \cup {"SUCCESS", "FAILED"}]
    /\ owed \in BOOLEAN /\ failures \in 0..MaxFailures
    /\ srch.result \subseteq [id : 1..MaxSearches, term : Terms, pg : 1..2]

\* createPayment passes no open order by: of two orders of one property that
\* are open within the window, the older came to be open only after the check
\* of the younger (hasRecentOpenCitizenPayment is not a lock) - it was inserted
\* by a request that overlapped, or had failed and a status read before that
\* was written back over the failure
NoOpenOrderPassedBy ==
    \A p, q \in {o \in Orders : RecentOpen(order[o])} : p < q => p \in order[q].with

\* A return or receipt page that shows a payment as successful shows one that
\* the gateway has the money for, and nothing is owed any more, although the
\* payment's own status may have been set back since
SuccessShownIsPaid ==
    \A t \in Tabs : tab[t].shown = "SUCCESS" => ~owed /\ \A p \in tab[t].pid : order[p].gw = "paid"

\* The list under the form answers the query and page last run; the one
\* exception is the answer of a search that was under way at a Reset
ResultsAnswerQuery ==
    srch.wait = {} => srch.result \subseteq srch.active \cup srch.cut

\* A return page that says the payment is being confirmed does not say so
\* for ever once the gateway has the money, even if no report arrives
ConfirmingEnds ==
    \A t \in Followed :
        (/\ tab[t].at = "return" /\ tab[t].shown \in OpenStates
         /\ \A p \in tab[t].pid : order[p].gw = "paid")
        ~> ~(tab[t].at = "return" /\ tab[t].shown \in OpenStates)
=============================================================================
