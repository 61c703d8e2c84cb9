------------------------------ MODULE MCOffice ------------------------------
(***************************************************************************)
(* The parts of the office that share no state within a step, for TLC: a   *)
(* behaviour is about one part, chosen at first; the others stand still in *)
(* an initial state of theirs.                                             *)
(***************************************************************************)
EXTENDS TaxRates, TaxReference, CounterDesk, CitizenSite, Screens, Access, Assessment, Gateway,
        FloorsEditor, ClosingPage, Figures

VARIABLE part

Parts == {"rates", "reference", "desk", "site", "return", "search", "screens", "access",
          "bill", "pay", "gateway", "floors", "closing", "figures"}

-----------------------------------------------------------------------------
(* Surveys, rates and rules for Assessment: every combination of use code,  *)
(* usage texts and areas that the calculation tells apart; rates that make  *)
(* the rounding bite; rules with and without a cap, of both methods.        *)

Texts == {{}, {"commercial"}, {"residential"}}
Floor == [area : {0, 2}, use : Texts, con : {"rcc", "tin"}]
Shop  == [area |-> 3, use |-> {"commercial"}, con |-> "rcc"]

MCHoldings == [gis : {"residential", "commercial", "open_land", "mixed", "none"},
               use : Texts \cup {{"open"}}, plot : {0, 5}, built : {7},
               floors : {<<>>} \cup {<<f>> : f \in Floor} \cup {<<f, Shop>> : f \in Floor}]

Cottage == [gis |-> "residential", use |-> {}, plot |-> 0, built |-> 7,
            floors |-> <<[area |-> 2, use |-> {}, con |-> "rcc"]>>]

Configuration(cells) ==
    [cells |-> cells, residentialPct |-> 80, commercialPct |-> 75, propertyPct |-> 4,
     waterPct |-> 2, drainagePct |-> 1, penaltyPct |-> 25]
Cell(c, n) == [con |-> c, rate |-> n]
LastYear == Configuration(<<Cell("tin", 0), Cell("rcc", 4), Cell("open", 3)>>)
MCTables == {LastYear, Configuration(<<Cell("rcc", 7)>>)}

Adjust(k, h, m, v, c) == [kind |-> k, head |-> h, method |-> m, value |-> v, cap |-> c]
MCBooks == {{}, {Adjust("REBATE", "WATER", "FLAT_AMOUNT", 9, NoCap),
                 Adjust("REBATE", "PROPERTY", "PERCENT_OF_HEAD", 80, 3),
                 Adjust("PENALTY", "WATER", "FLAT_AMOUNT", 9, 2)}}

\* What the clerk enters for a floor, and surveys to edit: a new one, and an
\* imported one with a floor of unknown usage or without an area.
Sketch(l, n, u, r) == [label |-> l, area |-> n, use |-> u, roof |-> r]
MCSketches == {Sketch("ground", 1, "home", "rcc"), Sketch("ground", 2, "shop", ""),
               Sketch("first", 1, "", "rcc")}
Surveyed(floors) == LET text == SerializeFloors(floors)
                    IN  [floors |-> text, built |-> SumArea(text), mixed |-> FALSE]
Unsurveyed == Surveyed(<<>>)
MCRecords == {Unsurveyed, Surveyed(<<Sketch("ground", 1, "home", "rcc"), Sketch("first", 1, "", "")>>),
              Surveyed(<<Sketch("ground", 1, "home", "rcc"), Sketch("first", 0, "home", "")>>)}

-----------------------------------------------------------------------------
\* The part at work starts in any of its initial states (up to renaming), the
\* others in one of theirs.
OnlyFor(p, choice) == p = part \/ choice

\* The site can take an order
ASSUME SomeOrder == Orders # {}

\* A browser whose checkout is open: the return page starts there
FirstOrder == CHOOSE p \in Orders : \A q \in Orders : p <= q
AtCheckout ==
    /\ tab = [t \in Tabs |-> IF t \in Followed
                             THEN [NoTab EXCEPT !.at = "checkout", !.payable = TRUE,
                                                !.submitted = TRUE, !.pid = {FirstOrder}]
                             ELSE [NoTab EXCEPT !.at = "closed"]]
    /\ order = [p \in Orders |-> IF p # FirstOrder THEN NoOrder
                                 ELSE [NoOrder EXCEPT !.st = "PENDING", !.recent = TRUE, !.gw = "open"]]

MCInit ==
    /\ part \in Parts
    /\ RatesInit /\ page = [p \in Pages |-> [page[p] EXCEPT !.ward = CHOOSE w \in Wards : TRUE]]
    /\ OnlyFor("rates", \A w \in Wards : cfg[w].st = "none")
    /\ RefInit /\ \A r \in Rules : rule[r].st = "DRAFT" => rule[r].of = CHOOSE y \in Codes : TRUE
    /\ OnlyFor("reference", /\ \A y \in Codes : year[y] = NoYear
                            /\ \A r \in Rules : rule[r] = NoRule)
    /\ DeskInit /\ OnlyFor("desk", \A p \in Parcels : due[p] = {})
    /\ IF part = "return" THEN AtCheckout
       ELSE /\ tab = [t \in Tabs |-> [NoTab EXCEPT !.at = IF part = "site" /\ t \notin Followed
                                                       THEN "search" ELSE "closed"]]
            /\ order = [p \in Orders |-> NoOrder]
    /\ check = [t \in Tabs |-> NoCheck]
    /\ owed = TRUE /\ calls = {} /\ failures = 0 /\ srch = NoSearch
    /\ ScreenInit /\ OnlyFor("screens", /\ scr = NoScreen(OutstandingPager)
                                        /\ \A q \in DOMAIN pages : pages[q] = 1)
    /\ AccessInit /\ rows = (IF status = "none" THEN {} ELSE {Operator})
    /\ OnlyFor("access", holder = "role")
    /\ AssessInit /\ OnlyFor("bill", holding = Cottage)
    /\ OnlyFor("pay", book = {}) /\ OnlyFor("bill", table = LastYear)
    /\ GatewayInit /\ ClosingInit /\ FiguresInit
    /\ FloorsInit /\ OnlyFor("floors", survey = Unsurveyed)

\* A bound of the site part: only the first order is asked for, the one that
\* may be opened again beside a newer one
OneAskedFor == \A c \in calls' : c.pid = FirstOrder

RatesPart     == part = "rates" /\ RatesNext
ReferencePart == part = "reference" /\ RefNext
DeskPart      == part = "desk" /\ DeskNext
SearchPart    == part = "search" /\ Searching
SitePart      == part = "site" /\ (Browsing \/ Ordering \/ Asking) /\ OneAskedFor
ReturnPart    == part = "return" /\ (Browsing \/ Asking \/ Confirming)
ScreensPart   == part = "screens" /\ ScreenNext
AccessPart    == part = "access" /\ AccessNext
BillPart      == part = "bill" /\ Billing
PayPart       == part = "pay" /\ (Collecting \/ \E preserve \in BOOLEAN : PublishDemand(preserve))
GatewayPart   == part = "gateway" /\ GatewayNext
FloorsPart    == part = "floors" /\ FloorsNext
ClosingPart   == part = "closing" /\ ClosingNext
FiguresPart   == part = "figures" /\ FiguresNext

MCNext ==
    \/ RatesPart /\ UNCHANGED <<refVars, deskVars, siteVars, screenVars, accessVars, assessVars, gatewayVars, floorVars, closingVars, figureVars, part>>
    \/ ReferencePart /\ UNCHANGED <<rateVars, deskVars, siteVars, screenVars, accessVars, assessVars, gatewayVars, floorVars, closingVars, figureVars, part>>
    \/ DeskPart /\ UNCHANGED <<rateVars, refVars, siteVars, screenVars, accessVars, assessVars, gatewayVars, floorVars, closingVars, figureVars, part>>
    \/ (SearchPart \/ SitePart \/ ReturnPart)
         /\ UNCHANGED <<rateVars, refVars, deskVars, screenVars, accessVars, assessVars, gatewayVars, floorVars, closingVars, figureVars, part>>
    \/ ScreensPart /\ UNCHANGED <<rateVars, refVars, deskVars, siteVars, accessVars, assessVars, gatewayVars, floorVars, closingVars, figureVars, part>>
    \/ AccessPart /\ UNCHANGED <<rateVars, refVars, deskVars, siteVars, screenVars, assessVars, gatewayVars, floorVars, closingVars, figureVars, part>>
    \/ (BillPart \/ PayPart)
         /\ UNCHANGED <<rateVars, refVars, deskVars, siteVars, screenVars, accessVars, gatewayVars, floorVars, closingVars, figureVars, part>>
    \/ GatewayPart /\ UNCHANGED <<rateVars, refVars, deskVars, siteVars, screenVars, accessVars, assessVars, floorVars, closingVars, figureVars, part>>
    \/ FloorsPart /\ UNCHANGED <<rateVars, refVars, deskVars, siteVars, screenVars, accessVars, assessVars, gatewayVars, closingVars, figureVars, part>>
    \/ ClosingPart /\ UNCHANGED <<rateVars, refVars, deskVars, siteVars, screenVars, accessVars, assessVars, gatewayVars, floorVars, figureVars, part>>
    \/ FiguresPart /\ UNCHANGED <<rateVars, refVars, deskVars, siteVars, screenVars, accessVars, assessVars, gatewayVars, floorVars, closingVars, part>>

officeVars == <<rateVars, refVars, deskVars, siteVars, screenVars, accessVars, assessVars, gatewayVars,
                floorVars, closingVars, figureVars, part>>

MCSpec == MCInit /\ [][MCNext]_officeVars /\ SiteFairness

\* The state of every part keeps its shape.
OfficeTypeOK == /\ RatesTypeOK /\ RefTypeOK /\ DeskTypeOK /\ SiteTypeOK
                /\ ScreenTypeOK /\ AccessTypeOK /\ AssessTypeOK /\ GatewayTypeOK
                /\ FloorsTypeOK /\ ClosingTypeOK /\ FiguresTypeOK

\* What the portal's screens show belongs together, but for the exceptions the two
\* parts name: a list that has arrived is at a page it has, and one answer of the
\* dashboard's summary, if nobody wrote between its queries, adds up over wards.
ScreensAgree == PageWithinList /\ SummaryAddsUp
=============================================================================
