------------------------------- MODULE Figures ------------------------------
(***************************************************************************)
(* The dashboard of the portal.  getSummary runs some twenty queries at    *)
(* once, outside a transaction: each sees the tables as they are at some   *)
(* moment while the request is under way.  The page keeps one answer for   *)
(* every ward it was asked for, and one for all of them.  A payment counts *)
(* as one rupee, and so does the tax of a survey in a ward with rates: how *)
(* much that is, and of which heads, is Assessment's matter.               *)
(***************************************************************************)
EXTENDS Integers, FiniteSets, FiniteSetsExt

CONSTANTS
    DashWards,    \* wards
    Homes,        \* survey rows
    Coins,        \* payment rows
    Whole,        \* the filter for all wards; also the ward of a payment that has none
    MaxWrites,    \* bound on writes by others
    MaxMoments,   \* bound on the moments a request sees
    MaxLooks      \* bound on requests

ASSUME FigureConstants ==
    /\ Whole \notin DashWards
    /\ IsFiniteSet(DashWards) /\ IsFiniteSet(Homes) /\ IsFiniteSet(Coins)
    /\ {MaxWrites, MaxMoments, MaxLooks} \subseteq Nat /\ MaxMoments > 0

VARIABLES
    now,        \* the tables: surveys, payments, the active wards and those with published rates
    chosen,     \* the ward the page is about, or Whole
    moments,    \* moments[f]: the tables since the request for f under way was sent, or {}
    figures,    \* figures[f]: the page's answer for the filter f
    writes, looks

figureVars == <<now, chosen, moments, figures, writes, looks>>

Kept == {"DRAFT", "ACTIVE", "ARCHIVED"}
NoHome == [ward |-> Whole, st |-> "none"]
NoCoin == [ward |-> Whole, mode |-> "ONLINE", st |-> "none"]
Filterable == DashWards \cup {Whole}
NoFigures == [known |-> FALSE]
Added(f) == MapThenSumSet(LAMBDA w : f[w], DOMAIN f)

-----------------------------------------------------------------------------
(* What others do to the tables.                                           *)

Write(tables) ==
    /\ writes < MaxWrites /\ tables # now
    /\ \A f \in Filterable : Cardinality(moments[f]) < MaxMoments
    /\ now' = tables /\ writes' = writes + 1
    /\ moments' = [f \in Filterable |-> IF moments[f] = {} THEN {} ELSE moments[f] \cup {tables}]
    /\ UNCHANGED <<chosen, figures, looks>>

\* A survey is created, changes its status, or is deleted
Resurvey(h, w, st) ==
    /\ IF now.homes[h].st = "none" THEN st # "DELETED" ELSE now.homes[h].ward = w
    /\ Write([now EXCEPT !.homes[h] = [ward |-> w, st |-> st]])

\* A checkout is begun or the counter collects, for a survey of a ward or
\* without one, or the report of a checkout comes
Collect(c, w, mode, st) ==
    LET row == now.coins[c] IN
    /\ \/ row.st = "none" /\ st = (IF mode = "ONLINE" THEN "PENDING" ELSE "SUCCESS")
       \/ row.st = "PENDING" /\ row.ward = w /\ row.mode = mode /\ st # "PENDING"
    /\ Write([now EXCEPT !.coins[c] = [ward |-> w, mode |-> mode, st |-> st]])

RateWard(w) == Write([now EXCEPT !.rated = @ \cup {w}])
CloseWard(w) == Write([now EXCEPT !.active = @ \ {w}])

-----------------------------------------------------------------------------
(* DashboardService.getSummary.                                            *)

\* What the queries may see: each one its table at some moment of the request
Seen(f) ==
    LET homes == {m.homes : m \in moments[f]}
        coins == {m.coins : m \in moments[f]}
    IN  [count : homes, statuses : homes, byWard : homes, taxSurveys : homes,
         collected : coins, online : coins, offline : coins, paymentsByWard : coins,
         wards : {m.active : m \in moments[f]}, configs : {m.rated : m \in moments[f]}]

\* surveyWhere and successPaymentWhere
HomesOf(homes, f) == {h \in Homes : homes[h].st \in Kept /\ f \in {Whole, homes[h].ward}}
Taken(coins, f, modes) ==
    {c \in Coins : coins[c].st = "SUCCESS" /\ coins[c].mode \in modes /\ f \in {Whole, coins[c].ward}}

Modes == {"ONLINE", "CASH"}
Offline == Modes \ {"ONLINE"}

\* wardBreakdown: surveys, money and tax of one ward
Card(at, w) ==
    LET count == Cardinality(HomesOf(at.byWard, w))
    IN  [count   |-> count,
         online  |-> Cardinality(Taken(at.paymentsByWard, w, {"ONLINE"})),
         offline |-> Cardinality(Taken(at.paymentsByWard, w, Offline)),
         tax     |-> IF w \in at.configs THEN Cardinality(HomesOf(at.taxSurveys, w)) ELSE 0,
         done    |-> count > 0]

\* The summary: the tax of all wards is summed from theirs, the surveys and
\* the money of all wards are queries of their own; still: nobody wrote meanwhile
Summary(f, at, still) ==
    LET cards == [w \in {v \in at.wards : f \in {Whole, v}} |-> Card(at, w)]
        done  == {w \in DOMAIN cards : cards[w].done}
    IN  [known     |-> TRUE,
         homes     |-> Cardinality(HomesOf(at.count, f)),
         byStatus  |-> [st \in Kept |-> Cardinality({h \in HomesOf(at.statuses, f) : at.statuses[h].st = st})],
         collected |-> Cardinality(Taken(at.collected, f, Modes)),
         online    |-> Cardinality(Taken(at.online, f, {"ONLINE"})),
         offline   |-> Cardinality(Taken(at.offline, f, Offline)),
         surveyed  |-> Cardinality(done),
         remaining |-> Cardinality(DOMAIN cards \ done),
         tax       |-> Added([w \in DOMAIN cards |-> cards[w].tax]),
         cards     |-> cards,
         still     |-> still]

-----------------------------------------------------------------------------
(* The page.                                                               *)

\* A filter is chosen: the page shows the answer it keeps for it, or
\* skeletons, and asks unless it is asking already
ChooseWard(f) ==
    /\ looks < MaxLooks /\ looks' = looks + 1
    /\ f # chosen \/ looks = 0
    /\ chosen' = f /\ moments' = [moments EXCEPT ![f] = IF @ = {} THEN {now} ELSE @]
    /\ UNCHANGED <<now, figures, writes>>

SummaryAnswered(f) ==
    /\ moments[f] # {} /\ moments' = [moments EXCEPT ![f] = {}]
    /\ \E at \in Seen(f) :
          figures' = [figures EXCEPT ![f] = Summary(f, at, Cardinality(moments[f]) = 1)]
    /\ UNCHANGED <<now, chosen, writes, looks>>

\* The statistics of the wards, the tax of all wards, and a card for each one
StatisticsShown(g) == <<g.surveyed + g.remaining, g.surveyed, g.remaining, g.homes>>
TaxShown(g) == g.tax
CardsShown(g) == g.cards

-----------------------------------------------------------------------------
FiguresInit ==
    /\ now = [homes |-> [h \in Homes |-> NoHome], coins |-> [c \in Coins |-> NoCoin], rated |-> {},
              active |-> DashWards]
    /\ chosen = Whole /\ moments = [f \in Filterable |-> {}]
    /\ figures = [f \in Filterable |-> NoFigures]
    /\ writes = 0 /\ looks = 0

FiguresNext ==
    \/ \E f \in Filterable : ChooseWard(f) \/ SummaryAnswered(f)
    \/ \E h \in Homes, w \in DashWards, st \in Kept \cup {"DELETED"} : Resurvey(h, w, st)
    \/ \E c \in Coins, w \in Filterable, mode \in Modes, st \in {"PENDING", "SUCCESS", "FAILED"} :
          Collect(c, w, mode, st)
    \/ \E w \in DashWards : RateWard(w) \/ CloseWard(w)

FiguresSpec == FiguresInit /\ [][FiguresNext]_figureVars

-----------------------------------------------------------------------------
FiguresTypeOK ==
    /\ now \in [homes  : [Homes -> [ward : Filterable, st : Kept \cup {"none", "DELETED"}]],
               coins  : [Coins -> [ward : Filterable, mode : Modes,
                                   st : {"none", "PENDING", "SUCCESS", "FAILED"}]],
               rated  : SUBSET DashWards,
               active : SUBSET DashWards]
    /\ chosen \in Filterable /\ DOMAIN figures = Filterable
    /\ \A f \in Filterable : /\ moments[f] # {} => now \in moments[f]
                            /\ Cardinality(moments[f]) <= MaxMoments

\* What one answer shows adds up.
AddsUp(f, g) ==
    LET cards   == CardsShown(g)
        counted == Added([w \in DOMAIN cards |-> cards[w].count])
        paid    == Added([w \in DOMAIN cards |-> cards[w].online + cards[w].offline])
    IN  /\ StatisticsShown(g)[1] = Cardinality(DOMAIN cards)
        /\ StatisticsShown(g)[2] = Cardinality({w \in DOMAIN cards : cards[w].count > 0})
        /\ TaxShown(g) = Added([w \in DOMAIN cards |-> cards[w].tax])
        /\ g.still =>
              /\ g.homes = Added(g.byStatus)
              /\ g.collected = g.online + g.offline
              /\ counted <= g.homes /\ paid <= g.collected
              /\ TaxShown(g) <= counted
              /\ f # Whole /\ f \in DOMAIN cards => counted = g.homes /\ paid = g.collected

\* What the dashboard shows adds up although its queries see the tables at
\* different moments: the wards surveyed and those remaining are all the wards
\* with a card, a ward is surveyed just when its card counts a survey, and the
\* total tax is that of the cards.  The surveys and the money shown beside them
\* come from queries of their own (dashboard.service.ts:56-190): they agree
\* with each other, and cover what the cards count, when nobody wrote while
\* they ran; the surveys and payments of a closed ward, and the payments of no
\* ward, have no card.
SummaryAddsUp == \A f \in Filterable : figures[f].known => AddsUp(f, figures[f])
=============================================================================
