----------------------------- MODULE Assessment -----------------------------
(***************************************************************************)
(* The papers of one property: what a survey is billed under the published *)
(* rates (tax-calc.ts), what the demand notice, the citizen's dues page,   *)
(* the live preview and the dashboard say about it, and the receipts of    *)
(* its payments with the split over the tax heads that is printed on them  *)
(* (receipt-snapshot.ts, receipt-allocation.ts, receipt-pdf.ts).           *)
(*                                                                         *)
(* Money is in paise and percentages are whole, so that roundMoney is      *)
(* integer rounding (half up); the binary fractions of the code are not    *)
(* modelled.  A usage text is the set of words the code looks for in it.   *)
(* The survey has one rate zone; plinth and built-up area are one number.  *)
(***************************************************************************)
EXTENDS Integers, Sequences, FiniteSets, FiniteSetsExt

CONSTANTS Holdings,      \* the surveys a property may have
          Tables,        \* the tax configurations that may be published
          Books,         \* the sets of published rebate and penalty rules
          CarriedSums,   \* arrears a year-end closing may carry forward
          MaxReceipts    \* bound: payments received

NoCap == -1

\* Rows of the tables: a survey with its floors, a configuration, a rule
SurveyRow == [gis : {"residential", "commercial", "open_land", "mixed", "none"},
              use : SUBSET STRING, plot : Nat, built : Nat,
              floors : Seq([area : Nat, use : SUBSET STRING, con : STRING])]
TaxTable == [cells : Seq([con : STRING, rate : Nat]), residentialPct : Nat, commercialPct : Nat,
             propertyPct : Nat, waterPct : Nat, drainagePct : Nat, penaltyPct : Nat]
AdjustmentRule == [kind : {"REBATE", "PENALTY"}, head : {"WATER", "PROPERTY"},
                   method : {"FLAT_AMOUNT", "PERCENT_OF_HEAD"}, value : Nat, cap : Nat \cup {NoCap}]

\* Rates, percentages and the values of rules are not negative (@Min(0) in
\* tax-config.dto.ts and tax-adjustment.dto.ts); neither is an area.
ASSUME AssessmentAssumption ==
    /\ Holdings \subseteq SurveyRow /\ Tables \subseteq TaxTable
    /\ \A rules \in Books : rules \subseteq AdjustmentRule /\ IsFiniteSet(rules)
    /\ MaxReceipts \in Nat /\ CarriedSums \subseteq Nat

VARIABLES
    holding,     \* the survey row with its floors
    table,       \* the latest published tax configuration of the ward
    book,        \* the published adjustment rules in effect
    account,     \* the property_demand row, or NoAccount
    checkout,    \* the amount of the open online payment, 0 when none is
    receipts,    \* the receiptSnapshots of the successful payments
    notice,      \* the last notice printed, or NoNotice
    moved        \* ghost: the demand was rewritten after its first payment

assessVars == <<holding, table, book, account, checkout, receipts, notice, moved>>

Heads == 1..5            \* arrears, property, water, drainage, penalty
NoAccount == [table |-> <<>>, property |-> 0, water |-> 0, drainage |-> 0, penalty |-> 0,
              rebate |-> 0, arrears |-> 0, current |-> 0, total |-> 0,
              paid |-> 0, outstanding |-> 0, published |-> FALSE]
NoNotice == [printed |-> FALSE]

AtLeast0(n) == IF n < 0 THEN 0 ELSE n
Least(a, b) == IF a < b THEN a ELSE b
Total(f) == MapThenSumSet(LAMBDA i : f[i], DOMAIN f)

\* roundMoney(amount * (pct / 100)).
Portion(amount, pct) == (2 * amount * pct + 100) \div 200
-----------------------------------------------------------------------------
(* The calculation. *)

\* taxConfigToRateTable: the rate of a cell, and the first positive one.
RateTable(cells) ==
    LET codes == {cells[i].con : i \in DOMAIN cells}
        paying == {i \in DOMAIN cells : cells[i].rate > 0}
    IN  [rate |-> [c \in codes |->
                      cells[CHOOSE i \in DOMAIN cells : cells[i].con = c].rate],
         any  |-> IF paying = {} THEN 0 ELSE cells[Min(paying)].rate]

RateOr(rate, con, default) == IF con \in DOMAIN rate THEN rate[con] ELSE default

BaseRate(tab, con) == RateOr(RateTable(tab.cells).rate, con, 0)

\* The OPEN_LAND cell even when it is 0; any other rate only when it is missing.
OpenRate(rates) == RateOr(rates.rate, "open", rates.any)
PlotRate(tab) == OpenRate(RateTable(tab.cells))

\* The floor's usage text wins over the property use.
UsageKey(use, floorUse) == IF floorUse # {} THEN floorUse ELSE use

AssessablePct(gis, use, floorUse, tab) ==
    LET key == UsageKey(use, floorUse)
    IN  CASE gis = "open_land"   -> 100
          [] gis = "commercial"  -> tab.commercialPct
          [] gis = "residential" -> tab.residentialPct
          [] OTHER -> IF "open" \in key THEN 100
                      ELSE IF "commercial" \in key THEN tab.commercialPct
                      ELSE tab.residentialPct

UsageRateMult(gis, use, floorUse) ==
    IF \/ gis = "commercial"
       \/ gis \in {"mixed", "none"} /\ "commercial" \in UsageKey(use, floorUse)
    THEN 2 ELSE 1

AlvTax(alv, tab) == [alv |-> alv, tax |-> Portion(alv, tab.propertyPct)]
FloorAlv(area, rate, pct, tab) == AlvTax(Portion(area * rate * 12, pct), tab)

\* The amounts of one floor of the bill; a floor without a rate is skipped.
TaxAtRate(h, floor, rate, tab) ==
    IF rate = 0 THEN [alv |-> 0, tax |-> 0]
    ELSE FloorAlv(floor.area, rate * UsageRateMult(h.gis, h.use, floor.use),
                  AssessablePct(h.gis, h.use, floor.use, tab), tab)
FloorTax(h, floor, tab) == TaxAtRate(h, floor, BaseRate(tab, floor.con), tab)

DemandTotals(alv, property, tab, serviced) ==
    LET water    == IF serviced THEN Portion(alv, tab.waterPct) ELSE 0
        drainage == IF serviced THEN Portion(alv, tab.drainagePct) ELSE 0
        penalty  == Portion(property, tab.penaltyPct)
    IN  [property |-> property, water |-> water, drainage |-> drainage, penalty |-> penalty,
         total |-> property + water + drainage + penalty]

OpenLand(h) == h.gis = "open_land" \/ (h.gis = "none" /\ "open" \in h.use)

PlotArea(h) == IF h.plot > 0 THEN h.plot ELSE h.built

SumFloors(fs) == [alv |-> Total([i \in DOMAIN fs |-> fs[i].alv]),
                  tax |-> Total([i \in DOMAIN fs |-> fs[i].tax])]

\* A survey none of whose floors has an area is taxed on its plot.
Base(h, tab, rate, sum) ==
    IF /\ sum.alv = 0 /\ \A i \in DOMAIN h.floors : h.floors[i].area = 0
       /\ rate > 0 /\ PlotArea(h) > 0
    THEN FloorAlv(PlotArea(h), rate, AssessablePct(h.gis, h.use, {}, tab), tab)
    ELSE sum

\* Open land is taxed on its plot, without water and drainage.
Bill(h, tab, rate, base) ==
    IF ~OpenLand(h) THEN DemandTotals(base.alv, base.tax, tab, TRUE)
    ELSE IF h.plot > 0 /\ rate > 0
         THEN DemandTotals(0, FloorAlv(h.plot, rate, 100, tab).tax, tab, FALSE)
         ELSE DemandTotals(0, base.tax, tab, FALSE)

\* computeSurveyExportTax.
SurveyTax(h, tab) ==
    Bill(h, tab, PlotRate(tab),
         Base(h, tab, PlotRate(tab),
              SumFloors([i \in DOMAIN h.floors |-> FloorTax(h, h.floors[i], tab)])))

\* computeGisPreviewDemand: one floor of the given area and construction.
GisPreview(gis, area, con, tab) ==
    LET class == IF gis = "none" THEN "residential" ELSE gis
        one == FloorAlv(area, BaseRate(tab, con) * UsageRateMult(class, {}, {}),
                        AssessablePct(class, {}, {}, tab), tab)
    IN  DemandTotals(one.alv, one.tax, tab, class # "open_land")

\* aggregateTaxDemand adds a survey's heads without its penalty.
WithoutPenalty(tax) == tax.property + tax.water + tax.drainage
WardDemand(h, tab) == WithoutPenalty(SurveyTax(h, tab))

\* The rate of a line of the notice's floor table (buildNoticeFloorLines).
LineRate(h, floor, tab) == BaseRate(tab, floor.con) * UsageRateMult(h.gis, h.use, floor.use)

\* The tax column of the floor table; the plot has a line when open land has no floors.
NoticeLines(h, tab) ==
    IF h.floors = <<>>
    THEN IF OpenLand(h) THEN <<FloorAlv(PlotArea(h), PlotRate(tab), 100, tab).tax>> ELSE <<>>
    ELSE [i \in DOMAIN h.floors |->
             LET f == h.floors[i]
             IN  FloorAlv(f.area, LineRate(h, f, tab),
                          AssessablePct(h.gis, h.use, f.use, tab), tab).tax]
\* A floor counts as residential when its usage text, else the property use, says nothing
\* of a business; the use code of the survey decides first.
Residential(h, floor) ==
    \/ h.gis = "residential"
    \/ /\ h.gis \in {"mixed", "none"}
       /\ "commercial" \notin floor.use
       /\ "residential" \in floor.use \/ "commercial" \notin h.use

\* The tax columns of a row of the ward's tax report (residentialTaxCells and
\* nonResidentialTaxCells): one cell for each use and construction band, in which
\* the last taxed floor of its kind overwrites the ones before it.
ReportCells(h, tab) ==
    LET taxed == {i \in DOMAIN h.floors : BaseRate(tab, h.floors[i].con) > 0}
        cell(i) == <<Residential(h, h.floors[i]), h.floors[i].con>>
    IN  [c \in {cell(i) : i \in taxed} |->
            FloorTax(h, h.floors[Max({i \in taxed : cell(i) = c})], tab).tax]

\* buildWardTaxDataRow: the cells, and the total demand at the end of the row.
ReportRow(h, tab) == [cells |-> ReportCells(h, tab), total |-> SurveyTax(h, tab).total]

\* computePublicDuesPayload: the heads of the bill over the floor table.
DuesPayload(h, tab) == [lines |-> NoticeLines(h, tab), tax |-> SurveyTax(h, tab)]

\* The TOTAL row under the citizen's floor table.
FloorTable(dues) == Total(dues.lines)

\* The summary card: the heads and the total of the dues, never the demand's.
SummaryCard(dues) == [heads |-> <<dues.tax.property, dues.tax.water, dues.tax.drainage,
                                  dues.tax.penalty>>,
                      total |-> dues.tax.total]

\* The citizen's notice has the dues only: no rebate, arrears or payment is ever on it.
CitizenNotice(dues) == [rebate |-> 0, arrears |-> 0, paid |-> 0,
                        outstanding |-> dues.tax.total, total |-> dues.tax.total]
-----------------------------------------------------------------------------
(* The demand. *)

\* applyHeadAdjustment: what one rule takes off or adds to its head.
HeadAdjustment(amount, r) ==
    LET raw == IF r.method = "FLAT_AMOUNT" THEN r.value ELSE Portion(amount, r.value)
        capped == IF r.cap = NoCap THEN raw ELSE Least(raw, r.cap)
    IN  Least(capped, amount)

\* computePropertyAssessment, as the row that is published.
PropertyAssessment(tab, tax, rules, arrears, paid) ==
    LET head(r) == IF r.head = "WATER" THEN tax.water ELSE tax.property
        sum(rs) == Total([r \in rs |-> HeadAdjustment(head(r), r)])
        kind(k) == {r \in rules : r.kind = k}
        onProperty == {r \in kind("PENALTY") : r.head = "PROPERTY"}
        penalty == sum(kind("PENALTY"))
                     + (IF onProperty = {} THEN tax.penalty ELSE 0)
        rebate == sum(kind("REBATE"))
        current == AtLeast0(tax.property + tax.water + tax.drainage + penalty - rebate)
        total == current + arrears
    IN  [table |-> <<tab>>, property |-> tax.property, water |-> tax.water,
         drainage |-> tax.drainage, penalty |-> penalty, rebate |-> rebate, arrears |-> arrears,
         current |-> current, total |-> total, paid |-> paid,
         outstanding |-> AtLeast0(total - paid), published |-> TRUE]

Received == Total([i \in DOMAIN receipts |-> receipts[i].amount])

\* Publishing computes the row anew; only a ward's publish keeps the arrears.
PublishDemand(preserve) ==
    /\ account' = PropertyAssessment(table, SurveyTax(holding, table), book,
                                     IF preserve THEN account.arrears ELSE 0, Received)
    /\ account' # account
    /\ moved' = (moved \/ receipts # <<>>)
    /\ UNCHANGED <<holding, table, book, checkout, receipts, notice>>

\* A plausible slip: the balance is not computed again.
MutCarryForward(a) ==
    /\ account.published /\ account.arrears = 0 /\ a > 0
    /\ account' = [account EXCEPT !.arrears = a, !.total = account.current + a]
    /\ moved' = (moved \/ receipts # <<>>)
    /\ UNCHANGED <<holding, table, book, checkout, receipts, notice>>

\* The year-end closing adds arrears to a published demand that has none.
CarryForward(a) ==
    /\ account.published /\ account.arrears = 0 /\ a > 0
    /\ account' = [account EXCEPT !.arrears = a, !.total = account.current + a,
                                  !.outstanding = AtLeast0(account.current + a - account.paid)]
    /\ moved' = (moved \/ receipts # <<>>)
    /\ UNCHANGED <<holding, table, book, checkout, receipts, notice>>

\* A tax configuration is published (its heads reach demands when they are published).
PublishRates(tab) ==
    /\ tab # table
    /\ table' = tab
    /\ UNCHANGED <<holding, book, account, checkout, receipts, notice, moved>>

\* A rule is published or archived.
ChangeBook(rules) ==
    /\ rules # book
    /\ book' = rules
    /\ UNCHANGED <<holding, table, account, checkout, receipts, notice, moved>>

\* The amounts printed on the sheet (generateDemandNoticeHtml), with the warning that
\* the demand is not published.
NoticeSheet(lines, d, published) ==
    [lines |-> lines, property |-> d.property, water |-> d.water, drainage |-> d.drainage,
     penalty |-> d.penalty, rebate |-> d.rebate, arrears |-> d.arrears, total |-> d.total,
     paid |-> d.paid, outstanding |-> d.outstanding, warned |-> ~published]

\* What the notice of an unpublished demand says: the dues, nothing else.
Unbilled(tax) ==
    [NoAccount EXCEPT !.property = tax.property, !.water = tax.water, !.drainage = tax.drainage,
                      !.penalty = tax.penalty, !.total = tax.total, !.outstanding = tax.total]

\* The notice shows the demand's amounts, or the dues', over the dues' floor lines.
PrintNotice ==
    /\ notice' = [printed |-> TRUE,
                  sheet |-> NoticeSheet(NoticeLines(holding, table),
                               IF account.published THEN account
                               ELSE Unbilled(DuesPayload(holding, table).tax),
                               account.published),
                  same |-> account.published => account.table = <<table>>]
    /\ UNCHANGED <<holding, table, book, account, checkout, receipts, moved>>
-----------------------------------------------------------------------------
(* Payments and receipts. *)

\* computeOutstandingAfterPayment, the snapshot and the demand's new balance.
Receive(amount) ==
    LET paid == account.paid + amount
        after == AtLeast0(account.total - paid)
    IN  /\ receipts' = Append(receipts, [account |-> account, amount |-> amount,
                                         paidAfter |-> paid, after |-> after])
        /\ account' = [account EXCEPT !.paid = paid, !.outstanding = after]

\* recordOffline: at most what is outstanding under the row lock.
CollectOffline(amount) ==
    /\ account.published
    /\ Len(receipts) < MaxReceipts
    /\ amount \in 1..account.outstanding
    /\ Receive(amount)
    /\ UNCHANGED <<holding, table, book, checkout, notice, moved>>

\* A checkout is for the outstanding of the demand; without one for the dues, once.
OpenCheckout ==
    LET payable == IF account.published THEN account.outstanding
                   ELSE IF receipts = <<>> THEN DuesPayload(holding, table).tax.total ELSE 0
    IN  /\ checkout = 0 /\ payable > 0
        /\ checkout' = payable
        /\ UNCHANGED <<holding, table, book, account, receipts, notice, moved>>

\* applyOnlineSuccessToDemand: no check against the outstanding of today, and
\* without a published demand no snapshot.
CheckoutPaid ==
    /\ checkout > 0 /\ Len(receipts) < MaxReceipts
    /\ checkout' = 0
    /\ IF account.published THEN Receive(checkout)
       ELSE /\ receipts' = Append(receipts, [account |-> NoAccount, amount |-> checkout,
                                             paidAfter |-> checkout, after |-> 0])
            /\ UNCHANGED account
    /\ UNCHANGED <<holding, table, book, notice, moved>>

\* outstandingBeforeFromSnapshot, with its tolerance of two paise.
OutstandingBefore(r) ==
    LET fromPayable == AtLeast0(r.account.total - AtLeast0(r.paidAfter - r.amount))
        fromAfter == r.after + r.amount
    IN  IF fromPayable - fromAfter \in -2..2 THEN fromPayable ELSE fromAfter

\* What the heads still ask before any payment, in waterfall order.
Due(r) == <<r.account.arrears, AtLeast0(r.account.property - r.account.rebate),
            r.account.water, r.account.drainage, r.account.penalty>>

\* An amount poured over the heads in order.
Pour(due, amount) ==
    LET before == <<0, due[1], due[1] + due[2], due[1] + due[2] + due[3],
                    due[1] + due[2] + due[3] + due[4]>>
    IN  [i \in Heads |-> Least(due[i], AtLeast0(amount - before[i]))]

\* A plausible slip: every receipt is split as if it were the first.
MutPaidBefore(r) == 0

PaidBefore(r) == AtLeast0(r.paidAfter - r.amount)

\* What no head takes goes to the last that took or owes.
Overflow(unpaid, applied, amount) ==
    LET last == Max({i \in Heads : applied[i] > 0 \/ unpaid[i] > 0 \/ i = 2})
    IN  [applied EXCEPT ![last] = @ + amount - Total(applied)]

Split(unpaid, amount) == Overflow(unpaid, Pour(unpaid, amount), amount)
Less(due, skipped) == [i \in Heads |-> due[i] - skipped[i]]

\* buildReceiptAllocation: earlier payments first, then this one.
Allocation(r) == Split(Less(Due(r), Pour(Due(r), PaidBefore(r))), r.amount)

\* buildCopy: what both copies of the printed receipt say; without a snapshot no split.
ReceiptCopy(r) ==
    LET snap == r.account.published
    IN  [before |-> IF snap THEN OutstandingBefore(r) ELSE r.amount,
         split  |-> IF snap THEN Allocation(r) ELSE [i \in Heads |-> 0],
         full   |-> r.after = 0]

\* The citizen's receipt: the heads and the total of the snapshot (rebate and arrears
\* are not on it), or of the dues of the day when there is none.
Heading(r, d) == [paid |-> r.amount, heads |-> WithoutPenalty(d) + d.penalty, total |-> d.total]
CitizenReceipt(r) ==
    Heading(r, IF r.account.published THEN r.account ELSE DuesPayload(holding, table).tax)
-----------------------------------------------------------------------------
AssessInit ==
    /\ holding \in Holdings /\ table \in Tables /\ book \in Books
    /\ account = NoAccount /\ checkout = 0 /\ receipts = <<>>
    /\ notice = NoNotice /\ moved = FALSE

\* What changes the papers without a payment.
Billing ==
    \/ \E preserve \in BOOLEAN : PublishDemand(preserve)
    \/ \E tab \in Tables : PublishRates(tab)
    \/ PrintNotice

Collecting ==
    \/ \E a \in CarriedSums : CarryForward(a)
    \/ \E rules \in Books : ChangeBook(rules)
    \/ \E amount \in 1..account.outstanding : CollectOffline(amount)
    \/ OpenCheckout
    \/ CheckoutPaid

AssessNext == Billing \/ Collecting

AssessSpec == AssessInit /\ [][AssessNext]_assessVars
-----------------------------------------------------------------------------
\* The variables have their types, and the balance is what the totals leave.
AssessTypeOK ==
    /\ holding \in Holdings /\ table \in Tables /\ book \in Books
    /\ checkout \in Nat /\ moved \in BOOLEAN
    /\ Len(receipts) <= MaxReceipts
    /\ account.outstanding = AtLeast0(account.total - account.paid)

\* The bills of a property tell one story.  A notice that is printed with the rates of
\* the demand adds up: its floor lines (buildNoticeFloorLines) to the property tax above
\* them, for a built property some floor of which has an area and for open land without
\* floors (the code taxes other properties on their plot, which has no line); its heads,
\* less the rebate as far as they go, to its total.  The live preview of a floor (computeGisPreviewDemand)
\* is the bill of a survey with that one floor and no usage text; the dashboard's demand
\* is the bill without its penalty; the cells of the ward report (buildWardTaxDataRow)
\* add up to the property tax unless two floors share a cell; and what the citizen sees
\* as due is what the demand asks when it has no rule, arrears or payment in it.
BillsAgree ==
    LET bill   == SurveyTax(holding, table)
        dues   == DuesPayload(holding, table)
        sheet  == notice.sheet
        floors == {holding.floors[i] : i \in DOMAIN holding.floors}
        built  == ~OpenLand(holding) /\ \E f \in floors : f.area > 0
        cells  == ReportRow(holding, table).cells
        untouched == /\ account.published /\ account.table = <<table>>
                     /\ account.rebate = 0 /\ account.penalty = bill.penalty
                     /\ account.arrears = 0 /\ account.paid = 0
    IN  notice.printed =>
        /\ notice.same /\ (built \/ (OpenLand(holding) /\ holding.floors = <<>>)) =>
              Total(sheet.lines) = sheet.property /\ FloorTable(dues) = bill.property
        /\ sheet.total = sheet.arrears + AtLeast0(sheet.property + sheet.water + sheet.drainage
                                                    + sheet.penalty - sheet.rebate)
        /\ Total(SummaryCard(dues).heads) = SummaryCard(dues).total
        /\ \A f \in floors :
              /\ Len(holding.floors) = 1 /\ f.area > 0
              /\ f.use = {} /\ holding.use = {} /\ ~OpenLand(holding)
              => GisPreview(holding.gis, f.area, f.con, table) = bill
        /\ WardDemand(holding, table) = bill.total - bill.penalty
        /\ built /\ Cardinality(DOMAIN cells)
                      = Cardinality({i \in DOMAIN holding.floors :
                                        BaseRate(table, holding.floors[i].con) > 0})
              => Total(cells) = bill.property
        /\ untouched => CitizenNotice(dues).outstanding = account.outstanding

\* The receipts of a demand add up: the split computed for every receipt
\* (buildReceiptAllocation; its arrears part is not printed) sums to the money
\* received, and while the demand is neither rewritten between payments nor overpaid
\* by a late checkout, all receipts together put on no head more than it asks, each
\* one starts from the balance the previous one ended with
\* (outstandingBeforeFromSnapshot), and "FULL PAYMENT RECEIVED" is printed exactly on
\* the receipt after which nothing is outstanding.  The heads on the citizen's receipt
\* (taxBreakdownFromReceiptSnapshot) add up to its total when the demand has no rebate
\* and no arrears.
ReceiptsAddUp ==
    LET copy == [i \in DOMAIN receipts |-> ReceiptCopy(receipts[i])]
        snaps == {i \in DOMAIN receipts : receipts[i].account.published}
    IN  /\ \A i \in snaps : Total(copy[i].split) = receipts[i].amount
        /\ \A i \in DOMAIN receipts :
              LET r == receipts[i]
              IN  r.account.rebate = 0 /\ r.account.arrears = 0
                  => CitizenReceipt(r).heads = CitizenReceipt(r).total
        /\ ~moved /\ account.paid <= account.total =>
             /\ \A i \in snaps, h \in Heads :
                   Total([j \in snaps |-> copy[j].split[h]]) <= Due(receipts[i])[h]
             /\ \A i \in snaps : i > 1 => copy[i].before = receipts[i - 1].after
             /\ \A i \in snaps : copy[i].full <=> account.outstanding = 0 /\ i = Len(receipts)

\* Whatever is published, paid, carried and printed in whatever order, the notice, the
\* dues page, the reports and the receipts of a property agree with one another
PapersAgree == BillsAgree /\ ReceiptsAddUp
=============================================================================
