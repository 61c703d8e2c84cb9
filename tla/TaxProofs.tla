----------------------------- MODULE TaxProofs ------------------------------
(* Assessment years and rules, the rates of the wards, and the papers of a *)
(* property: their inductive invariants for any years, rules, wards and    *)
(* requests, and any surveys, rates and rules to bill.                     *)
EXTENDS TaxReference, TaxRates, Assessment, FiniteSums, TLAPS

-----------------------------------------------------------------------------
(* Assessment years and adjustment rules.                                  *)

RuleOps == {"addRule", "editRule", "publish", "archive", "remove"}
Years == [on : BOOLEAN, st : {"ACTIVE", "INACTIVE"}, range : DatesTyped]
RuleRows == [st : {"none", "DRAFT", "PUBLISHED", "ARCHIVED"}, val : Values, of : Codes \cup {All}]
Asks == [op : YearOps \cup RuleOps \cup {"none"}, pc : {"idle", "check", "write"}, y : Codes,
         range : DatesTyped, r : Rules, val : Values, of : Codes \cup {All}]

OnYears(p) == ask[p].op \in YearOps

\* The year is active and in the table
InForce(y) == year[y].on /\ year[y].st = "ACTIVE"

\* What the check of a request on a year found is so until its write
CheckStands(p) ==
    /\ ask[p].op = "addYear" => NoOverlap(ask[p].y, ask[p].range)
    /\ ask[p].op = "editYear" /\ year[ask[p].y].st = "ACTIVE" => NoOverlap(ask[p].y, ask[p].range)
    /\ ask[p].op = "activate" => NoOverlap(ask[p].y, year[ask[p].y].range)

(* As long as no two requests on years overlapped, one is under way at     *)
(* most, and what its check found still holds when it writes.              *)
RefInv ==
    /\ year \in [Codes -> Years] /\ rule \in [Rules -> RuleRows] /\ ask \in [Clerks -> Asks]
    /\ raced \in BOOLEAN
    /\ \A p \in Clerks : ask[p].op = "none" => ask[p].pc = "idle"
    /\ ~raced =>
          /\ \A p, o \in Clerks : OnYears(p) /\ OnYears(o) => p = o
          /\ \A p \in Clerks : ask[p].pc = "write" /\ OnYears(p) => CheckStands(p)
          /\ \A y, z \in Codes : y # z /\ InForce(y) /\ InForce(z)
                => ~RangesOverlap(year[y].range, year[z].range)

LEMMA Blanks == NoYear \in Years /\ NoRule \in RuleRows /\ NoAsk \in Asks
<1>1. Codes # {} /\ Rules # {} /\ Values # {}
  BY ReferenceConstants
<1>2. NoRange \in DatesTyped
  BY DEF NoRange, DatesTyped, Field
<1>3. NoRule \in RuleRows /\ NoRule.val \in Values
  BY <1>1 DEF NoRule, RuleRows
<1> QED
  BY <1>1, <1>2, <1>3 DEF NoYear, Years, NoAsk, Asks

LEMMA OverlapSymmetric == \A a, b : RangesOverlap(a, b) <=> RangesOverlap(b, a)
BY DEF RangesOverlap

(* A clerk sends a request, is refused, or passes the check of one. *)
LEMMA AskMoves ==
    ASSUME RefInv, year' = year, rule' = rule, NEW p \in Clerks, NEW n \in Asks,
           ask' = [ask EXCEPT ![p] = n],
           \/ raced' = raced /\ (n.op \in YearOps => OnYears(p))
           \/ raced' = (raced \/ (n.op \in YearOps /\ \E o \in Clerks : OnYears(o))),
           n.op = "none" => n.pc = "idle",
           n.pc = "write" /\ n.op \in YearOps => CheckStands(p)'
    PROVE  RefInv'
<1>1. ask' \in [Clerks -> Asks] /\ ask'[p] = n /\ \A o \in Clerks \ {p} : ask'[o] = ask[o]
  BY DEF RefInv
<1>2. /\ year' \in [Codes -> Years] /\ rule' \in [Rules -> RuleRows] /\ raced' \in BOOLEAN
      /\ raced => raced'
  BY DEF RefInv
<1>3. \A o \in Clerks : ask'[o].op = "none" => ask'[o].pc = "idle"
  BY <1>1 DEF RefInv
<1>4. \A o \in Clerks \ {p} : (OnYears(o)' <=> OnYears(o)) /\ (CheckStands(o)' <=> CheckStands(o))
  BY <1>1 DEF OnYears, CheckStands, NoOverlap
<1>5. \A y : InForce(y)' <=> InForce(y)
  BY DEF InForce
<1>6. ASSUME ~raced'
      PROVE  \A o, u \in Clerks : OnYears(o)' /\ OnYears(u)' => o = u
  <2>1. n.op \in YearOps => \A o \in Clerks \ {p} : ~OnYears(o)
    BY <1>2, <1>6 DEF RefInv
  <2> QED
    BY <1>1, <1>2, <1>4, <1>6, <2>1 DEF RefInv, OnYears
<1>7. ASSUME ~raced'
      PROVE  \A o \in Clerks : ask'[o].pc = "write" /\ OnYears(o)' => CheckStands(o)'
  BY <1>1, <1>2, <1>4, <1>7 DEF RefInv, OnYears
<1>8. ~raced' => \A y, z \in Codes : y # z /\ InForce(y)' /\ InForce(z)'
                    => ~RangesOverlap(year'[y].range, year'[z].range)
  BY <1>2, <1>5 DEF RefInv
<1> QED
  BY <1>1, <1>2, <1>3, <1>6, <1>7, <1>8 DEF RefInv

(* A request on a year writes, and is answered. *)
LEMMA YearWrites ==
    ASSUME RefInv, NEW p \in Clerks, ask[p].pc = "write", OnYears(p), ask' = [ask EXCEPT ![p] = NoAsk],
           raced' = raced, rule' \in [Rules -> RuleRows],
           \/ year' = year
           \/ \E n \in Years : /\ year' = [year EXCEPT ![ask[p].y] = n]
                               /\ n.on /\ n.st = "ACTIVE" =>
                                     \/ InForce(ask[p].y) /\ n.range = year[ask[p].y].range
                                     \/ ~raced => NoOverlap(ask[p].y, n.range)
    PROVE  RefInv'
<1>1. ask' \in [Clerks -> Asks] /\ ask'[p] = NoAsk /\ \A o \in Clerks \ {p} : ask'[o] = ask[o]
  BY Blanks DEF RefInv
<1>2. ask[p] \in Asks /\ ask[p].y \in Codes
  BY DEF RefInv, Asks
<1>3. NoAsk.pc = "idle" /\ NoAsk.op \notin YearOps
  BY DEF NoAsk, YearOps
<1>4. year' \in [Codes -> Years]
  BY <1>2 DEF RefInv
<1>5. \A o \in Clerks : ask'[o].op = "none" => ask'[o].pc = "idle"
  BY <1>1, <1>3 DEF RefInv
<1>6. ~raced' => \A o \in Clerks : ~OnYears(o)'
  BY <1>1, <1>3 DEF RefInv, OnYears
<1>7. ASSUME ~raced', NEW y \in Codes, NEW z \in Codes, y # z, InForce(y)', InForce(z)'
      PROVE  ~RangesOverlap(year'[y].range, year'[z].range)
  <2>1. CASE year' = year
    BY <1>7, <2>1 DEF RefInv, InForce
  <2>2. ASSUME NEW n \in Years, year' = [year EXCEPT ![ask[p].y] = n],
               n.on /\ n.st = "ACTIVE" => \/ InForce(ask[p].y) /\ n.range = year[ask[p].y].range
                                          \/ NoOverlap(ask[p].y, n.range)
        PROVE  ~RangesOverlap(year'[y].range, year'[z].range)
    <3>0. PICK k \in Codes : k = ask[p].y
      BY <1>2
    <3>1. year'[k] = n /\ \A o \in Codes \ {k} : year'[o] = year[o]
      BY <2>2, <3>0 DEF RefInv
    <3>2. ASSUME n.on, n.st = "ACTIVE", NEW o \in Codes \ {k}, InForce(o)
          PROVE  ~RangesOverlap(n.range, year[o].range)
      <4>1. CASE InForce(k) /\ n.range = year[k].range
        BY <1>7, <3>2, <4>1 DEF RefInv
      <4>2. CASE NoOverlap(k, n.range)
        BY <3>2, <4>2 DEF NoOverlap, InForce
      <4> QED
        BY <2>2, <3>0, <3>2, <4>1, <4>2
    <3>3. \A o \in Codes \ {k} : InForce(o)' <=> InForce(o)
      BY <3>1 DEF InForce
    <3>4. InForce(k)' => n.on /\ n.st = "ACTIVE"
      BY <3>1 DEF InForce
    <3>5. CASE y # k /\ z # k
      BY <1>7, <3>1, <3>3, <3>5 DEF RefInv
    <3>6. CASE y = k
      BY <1>7, <3>1, <3>2, <3>3, <3>4, <3>6
    <3>7. CASE z = k
      BY <1>7, <3>1, <3>2, <3>3, <3>4, <3>7, OverlapSymmetric
    <3> QED
      BY <3>5, <3>6, <3>7
  <2> QED
    BY <1>7, <2>1, <2>2
<1> QED
  BY <1>1, <1>4, <1>5, <1>6, <1>7 DEF RefInv

LEMMA YearSent ==
    ASSUME RefInv, NEW p \in Clerks, NEW op \in YearOps, NEW y \in Codes, NEW range \in DatesTyped,
           SendYear(p, op, y, range)
    PROVE  RefInv'
<1> DEFINE a == [NoAsk EXCEPT !.op = op]
           b == [a EXCEPT !.pc = "check"]
           c == [b EXCEPT !.y = y]
           n == [c EXCEPT !.range = range]
<1>1. a \in Asks /\ a.op = op
  BY Blanks DEF Asks
<1> HIDE DEF a
<1>2. b \in Asks /\ b.pc = "check" /\ b.op = op
  BY <1>1 DEF Asks
<1> HIDE DEF b
<1>3. c \in Asks /\ c.pc = "check" /\ c.op = op
  BY <1>2 DEF Asks
<1> HIDE DEF c
<1>4. n \in Asks /\ n.pc = "check" /\ n.op = op
  BY <1>3 DEF Asks
<1> HIDE DEF n
<1>5. /\ year' = year /\ rule' = rule /\ ask' = [ask EXCEPT ![p] = n]
      /\ raced' = (raced \/ (n.op \in YearOps /\ \E o \in Clerks : OnYears(o)))
  BY DEF SendYear, Send, refTables, OnYears, a, b, c, n
<1> QED
  BY <1>4, <1>5, AskMoves DEF YearOps

LEMMA RuleSent ==
    ASSUME RefInv, NEW p \in Clerks, NEW op \in RuleOps, NEW r \in Rules, NEW v \in Values,
           NEW of \in Codes \cup {All}, SendRule(p, op, r, v, of)
    PROVE  RefInv'
<1> DEFINE a == [NoAsk EXCEPT !.op = op]
           b == [a EXCEPT !.pc = "check"]
           c == [b EXCEPT !.r = r]
           d == [c EXCEPT !.val = v]
           n == [d EXCEPT !.of = of]
<1>1. a \in Asks /\ a.op = op
  BY Blanks DEF Asks
<1> HIDE DEF a
<1>2. b \in Asks /\ b.pc = "check" /\ b.op = op
  BY <1>1 DEF Asks
<1> HIDE DEF b
<1>3. c \in Asks /\ c.pc = "check" /\ c.op = op
  BY <1>2 DEF Asks
<1> HIDE DEF c
<1>4. d \in Asks /\ d.pc = "check" /\ d.op = op
  BY <1>3 DEF Asks
<1> HIDE DEF d
<1>5. n \in Asks /\ n.pc = "check" /\ n.op = op
  BY <1>4 DEF Asks
<1> HIDE DEF n
<1>6. /\ year' = year /\ rule' = rule /\ ask' = [ask EXCEPT ![p] = n]
      /\ raced' = (raced \/ (n.op \in YearOps /\ \E o \in Clerks : OnYears(o)))
  BY DEF SendRule, Send, refTables, OnYears, a, b, c, d, n
<1> QED
  BY <1>5, <1>6, AskMoves DEF RuleOps

(* A page sends what its rows and dialogs offer. *)
LEMMA PagesSend ==
    ASSUME RefInv, NEW p \in Clerks,
           \/ \E y \in Codes :
                 \/ ToggleYear(p, y) \/ DeleteYear(p, y)
                 \/ \E range \in DatesTyped : AddYear(p, y, range) \/ EditYear(p, y, range)
           \/ \E r \in Rules :
                 \/ PublishRule(p, r) \/ ArchiveRule(p, r) \/ RemoveRule(p, r)
                 \/ \E v \in Values, of \in Codes \cup {All} : AddRule(p, r, v, of) \/ EditRule(p, r, v, of)
    PROVE  RefInv'
<1>1. NoRange \in DatesTyped /\ NoRule.val \in Values
  BY Blanks DEF NoRange, DatesTyped, Field, RuleRows
<1>2. CASE \E y \in Codes :
             \/ ToggleYear(p, y) \/ DeleteYear(p, y)
             \/ \E range \in DatesTyped : AddYear(p, y, range) \/ EditYear(p, y, range)
  <2>1. \E y \in Codes, op \in YearOps, range \in DatesTyped : SendYear(p, op, y, range)
    BY <1>1, <1>2 DEF ToggleYear, DeleteYear, AddYear, EditYear, YearOps
  <2> QED
    BY <2>1, YearSent
<1>3. CASE \E r \in Rules :
             \/ PublishRule(p, r) \/ ArchiveRule(p, r) \/ RemoveRule(p, r)
             \/ \E v \in Values, of \in Codes \cup {All} : AddRule(p, r, v, of) \/ EditRule(p, r, v, of)
  <2>1. \E r \in Rules, op \in RuleOps, v \in Values, of \in Codes \cup {All} : SendRule(p, op, r, v, of)
    BY <1>1, <1>3 DEF PublishRule, ArchiveRule, RemoveRule, AddRule, EditRule, RuleOps
  <2> QED
    BY <2>1, RuleSent
<1> QED
  BY <1>2, <1>3

(* The checks pass or refuse a request. *)
LEMMA YearChecks ==
    ASSUME RefInv, NEW p \in Clerks, CheckYear(p)
    PROVE  RefInv'
<1>1. /\ ask[p] \in Asks /\ ask[p].pc = "check" /\ ask[p].op \in YearOps
      /\ year' = year /\ rule' = rule /\ raced' = raced
  BY DEF RefInv, CheckYear, refTables
<1>2. ask[p].op \notin {"editRule"}
  BY <1>1 DEF YearOps
<1>3. CASE ask' = [ask EXCEPT ![p] = NoAsk]
  BY <1>1, <1>3, Blanks, AskMoves DEF NoAsk, YearOps
<1>4. CASE ask' # [ask EXCEPT ![p] = NoAsk]
  <2> DEFINE n == [ask[p] EXCEPT !.pc = "write"]
  <2>1. n \in Asks /\ n.op = ask[p].op /\ n.y = ask[p].y /\ n.range = ask[p].range
    BY <1>1 DEF Asks
  <2>2. ask' = [ask EXCEPT ![p] = n]
    BY <1>4 DEF RefInv, CheckYear, Answered
  <2>3. CheckStands(p)
    BY <1>1, <1>4 DEF CheckYear, Answered, CheckStands, YearOps
  <2> HIDE DEF n
  <2>4. ask'[p] = n
    BY <2>2 DEF RefInv
  <2>5. CheckStands(p)'
    BY <1>1, <2>1, <2>3, <2>4 DEF CheckStands, NoOverlap
  <2> QED
    BY <1>1, <1>2, <2>1, <2>2, <2>5, AskMoves DEF OnYears, YearOps
<1> QED
  BY <1>3, <1>4

LEMMA RuleChecks ==
    ASSUME RefInv, NEW p \in Clerks, CheckRule(p)
    PROVE  RefInv'
<1>1. /\ ask[p] \in Asks /\ ask[p].pc = "check" /\ ask[p].op \in RuleOps
      /\ ask[p].op \notin YearOps
      /\ year' = year /\ rule' = rule /\ raced' = raced
  BY DEF RefInv, CheckRule, refTables, Asks
<1>2. CASE ask' = [ask EXCEPT ![p] = NoAsk]
  BY <1>1, <1>2, Blanks, AskMoves DEF NoAsk, YearOps
<1>3. CASE ask' # [ask EXCEPT ![p] = NoAsk]
  <2> DEFINE n == [ask[p] EXCEPT !.pc = "write"]
  <2>1. ask' = [ask EXCEPT ![p] = n]
    BY <1>3 DEF RefInv, CheckRule, Answered
  <2>2. n \in Asks /\ n.op = ask[p].op
    BY <1>1 DEF Asks
  <2> HIDE DEF n
  <2> QED
    BY <1>1, <2>1, <2>2, AskMoves DEF RuleOps
<1> QED
  BY <1>2, <1>3

(* The writes. *)
LEMMA WriteOfYear ==
    ASSUME RefInv, NEW p \in Clerks, WriteYear(p)
    PROVE  RefInv'
<1>1. /\ ask[p] \in Asks /\ ask[p].pc = "write" /\ OnYears(p) /\ ask[p].y \in Codes
      /\ ask[p].range \in DatesTyped /\ year[ask[p].y] \in Years /\ rule \in [Rules -> RuleRows]
      /\ ask' = [ask EXCEPT ![p] = NoAsk] /\ raced' = raced
  BY DEF RefInv, WriteYear, Asks, OnYears, Answered
<1>2. rule' \in [Rules -> RuleRows]
  <2>1. \A r \in RuleRows : [r EXCEPT !.of = All] \in RuleRows
    BY DEF RuleRows
  <2>2. \/ rule' = rule
        \/ rule' = [r \in Rules |-> IF rule[r].of = ask[p].y THEN [rule[r] EXCEPT !.of = All] ELSE rule[r]]
    BY DEF WriteYear
  <2> QED
    BY <1>1, <2>1, <2>2
<1>3. ~raced => CheckStands(p)
  BY <1>1 DEF RefInv
<1> DEFINE row == year[ask[p].y]
           range == ask[p].range
           W(n) == /\ n \in Years /\ year' = [year EXCEPT ![ask[p].y] = n]
                   /\ n.on /\ n.st = "ACTIVE" => \/ InForce(ask[p].y) /\ n.range = year[ask[p].y].range
                                                 \/ ~raced => NoOverlap(ask[p].y, n.range)
<1>4. CASE year' = year
  BY <1>1, <1>2, <1>4, YearWrites
<1>5. ASSUME NEW n, W(n)
      PROVE  RefInv'
  BY <1>1, <1>2, <1>5, YearWrites
<1>6. CASE ask[p].op = "addYear" /\ year' # year
  <2> DEFINE n == [on |-> TRUE, st |-> "ACTIVE", range |-> range]
  <2>1. n \in Years /\ n.range = range
    BY <1>1 DEF Years
  <2>2. year' = [year EXCEPT ![ask[p].y] = n]
    BY <1>6 DEF WriteYear
  <2>3. W(n)
    BY <1>3, <1>6, <2>1, <2>2 DEF CheckStands
  <2> QED
    BY <1>5, <2>3
<1>7. CASE ask[p].op = "editYear" /\ year' # year
  <2> DEFINE n == [row EXCEPT !.range = range]
  <2>1. n \in Years /\ n.range = range /\ n.st = row.st
    BY <1>1 DEF Years
  <2>2. year' = [year EXCEPT ![ask[p].y] = n]
    BY <1>7 DEF WriteYear
  <2> HIDE DEF n
  <2>3. W(n)
    BY <1>3, <1>7, <2>1, <2>2 DEF CheckStands
  <2> QED
    BY <1>5, <2>3
<1>8. CASE ask[p].op = "activate" /\ year' # year
  <2> DEFINE n == [row EXCEPT !.st = "ACTIVE"]
  <2>1. n \in Years /\ n.range = row.range
    BY <1>1 DEF Years
  <2>2. year' = [year EXCEPT ![ask[p].y] = n]
    BY <1>8 DEF WriteYear
  <2> HIDE DEF n
  <2>3. W(n)
    BY <1>3, <1>8, <2>1, <2>2 DEF CheckStands
  <2> QED
    BY <1>5, <2>3
<1>9. CASE ask[p].op = "deactivate" /\ year' # year
  <2> DEFINE n == [row EXCEPT !.st = "INACTIVE"]
  <2>1. n \in Years /\ n.st = "INACTIVE"
    BY <1>1 DEF Years
  <2>2. year' = [year EXCEPT ![ask[p].y] = n]
    BY <1>9 DEF WriteYear
  <2> HIDE DEF n
  <2>3. W(n)
    BY <2>1, <2>2
  <2> QED
    BY <1>5, <2>3
<1>10. CASE ask[p].op = "deleteYear" /\ year' # year
  <2>1. year' = [year EXCEPT ![ask[p].y] = NoYear]
    BY <1>10 DEF WriteYear
  <2>2. W(NoYear)
    BY <2>1, Blanks DEF NoYear
  <2> QED
    BY <1>5, <2>2
<1> QED
  BY <1>1, <1>4, <1>6, <1>7, <1>8, <1>9, <1>10 DEF OnYears, YearOps

LEMMA WriteOfRule ==
    ASSUME RefInv, NEW p \in Clerks, WriteRule(p)
    PROVE  RefInv'
<1>1. /\ ask[p] \in Asks /\ ask[p].pc = "write" /\ ask[p].op \in RuleOps
      /\ year' = year /\ raced' = raced /\ ask' = [ask EXCEPT ![p] = NoAsk]
      /\ ask[p].r \in Rules /\ ask[p].val \in Values /\ ask[p].of \in Codes \cup {All}
      /\ rule \in [Rules -> RuleRows] /\ rule[ask[p].r] \in RuleRows
  BY DEF RefInv, WriteRule, Asks, Answered
<1> DEFINE k == ask[p]
           row == rule[k.r]
           W(n) == rule' = [rule EXCEPT ![ask[p].r] = n] /\ n \in RuleRows
<1>2. ASSUME rule' \in [Rules -> RuleRows]
      PROVE  RefInv'
  <2>1. ask' \in [Clerks -> Asks] /\ ask'[p] = NoAsk /\ \A o \in Clerks \ {p} : ask'[o] = ask[o]
    BY <1>1, Blanks DEF RefInv
  <2>2. NoAsk.pc = "idle" /\ NoAsk.op \notin YearOps
    BY DEF NoAsk, YearOps
  <2>3. \A o \in Clerks \ {p} : (OnYears(o)' <=> OnYears(o)) /\ (CheckStands(o)' <=> CheckStands(o))
    BY <1>1, <2>1 DEF OnYears, CheckStands, NoOverlap
  <2>4. ~OnYears(p)'
    BY <2>1, <2>2 DEF OnYears
  <2>5. \A y : InForce(y)' <=> InForce(y)
    BY <1>1 DEF InForce
  <2>6. \A o \in Clerks : ask'[o].op = "none" => ask'[o].pc = "idle"
    BY <2>1, <2>2 DEF RefInv
  <2> QED
    BY <1>1, <1>2, <2>1, <2>3, <2>4, <2>5, <2>6 DEF RefInv
<1>3. ASSUME NEW n, W(n)
      PROVE  RefInv'
  BY <1>1, <1>2, <1>3
<1>4. CASE rule' = rule
  BY <1>1, <1>2, <1>4
<1>5. CASE k.op = "addRule" /\ rule' # rule
  <2> DEFINE n == [st |-> "DRAFT", val |-> k.val, of |-> k.of]
  <2>1. rule' = [rule EXCEPT ![ask[p].r] = n]
    BY <1>5 DEF WriteRule
  <2>2. n \in RuleRows
    BY <1>1 DEF RuleRows
  <2>3. W(n)
    BY <2>1, <2>2
  <2> QED
    BY <1>1, <1>3, <2>3
<1>6. CASE k.op = "editRule" /\ rule' # rule
  <2> DEFINE v == [row EXCEPT !.val = k.val]
             n == [v EXCEPT !.of = k.of]
  <2>1. rule' = [rule EXCEPT ![ask[p].r] = n]
    BY <1>6 DEF WriteRule
  <2>2. v \in RuleRows
    BY <1>1 DEF RuleRows
  <2> HIDE DEF v
  <2>3. n \in RuleRows
    BY <1>1, <2>2 DEF RuleRows
  <2> HIDE DEF n
  <2>4. W(n)
    BY <1>6, <2>1, <2>3
  <2> QED
    BY <1>1, <1>3, <2>4
<1>7. CASE k.op \in {"publish", "archive"} /\ rule' # rule
  <2>1. PICK st \in {"PUBLISHED", "ARCHIVED"} : rule' = [rule EXCEPT ![ask[p].r] = [row EXCEPT !.st = st]]
    BY <1>7 DEF WriteRule
  <2> DEFINE n == [row EXCEPT !.st = st]
  <2>2. n \in RuleRows
    BY <1>1 DEF RuleRows
  <2>3. rule' = [rule EXCEPT ![ask[p].r] = n]
    BY <2>1
  <2> HIDE DEF n
  <2>4. W(n)
    BY <2>2, <2>3
  <2> QED
    BY <1>1, <1>3, <2>4
<1>8. CASE k.op = "remove" /\ rule' # rule
  <2>1. rule' = [rule EXCEPT ![ask[p].r] = NoRule]
    BY <1>8 DEF WriteRule
  <2>2. W(NoRule)
    BY <2>1, Blanks
  <2> QED
    BY <1>1, <1>3, <2>2
<1> QED
  BY <1>1, <1>4, <1>5, <1>6, <1>7, <1>8 DEF RuleOps

LEMMA RefStep ==
    ASSUME RefInv, [RefNext]_refVars
    PROVE  RefInv'
<1>1. CASE year' = year /\ rule' = rule /\ ask' = ask /\ raced' = raced
  <2>1. \A y, p : (InForce(y)' <=> InForce(y)) /\ (CheckStands(p)' <=> CheckStands(p)) /\ (OnYears(p)' <=> OnYears(p))
    BY <1>1 DEF InForce, CheckStands, NoOverlap, OnYears
  <2> QED
    BY <1>1, <2>1 DEF RefInv
<1>2. CASE \/ UNCHANGED refVars
           \/ \E p \in Clerks : LoadReference(p)
           \/ \E y \in Codes : UseYear(y)
  BY <1>1, <1>2 DEF LoadReference, UseYear, refVars, refTables
<1> QED
  BY <1>2, PagesSend, YearChecks, RuleChecks, WriteOfYear, WriteOfRule DEF RefNext

LEMMA RefStart == RefInit => RefInv
<1> SUFFICES ASSUME RefInit
             PROVE  RefInv
  OBVIOUS
<1> DEFINE d == CHOOSE d \in Dates : TRUE
           closed == [on |-> TRUE, st |-> "INACTIVE", range |-> <<d, d>>]
<1>1. d \in Dates /\ <<d, d>> \in DatesTyped
  BY ReferenceConstants DEF DatesTyped, Field
<1>2. closed \in Years /\ closed.st = "INACTIVE"
  BY <1>1 DEF Years
<1>3. NoYear.st = "INACTIVE"
  BY DEF NoYear
<1>4. year \in {[y \in Codes |-> NoYear], [y \in Codes |-> closed]}
  BY DEF RefInit
<1> HIDE DEF closed
<1>5. year \in [Codes -> Years] /\ \A y \in Codes : year[y].st = "INACTIVE"
  BY <1>2, <1>3, <1>4, Blanks
<1>6. rule \in [Rules -> RuleRows]
  <2>1. \A y \in Codes : [NoRule EXCEPT !.st = "DRAFT", !.of = y] \in RuleRows
    <3> TAKE y \in Codes
    <3> DEFINE a == [NoRule EXCEPT !.st = "DRAFT"]
    <3>1. a \in RuleRows
      BY Blanks DEF RuleRows
    <3> HIDE DEF a
    <3>2. [a EXCEPT !.of = y] \in RuleRows
      BY <3>1 DEF RuleRows
    <3> QED
      BY <3>2 DEF a
  <2> DEFINE N(y) == [NoRule EXCEPT !.st = "DRAFT", !.of = y]
  <2>2. \/ rule = [r \in Rules |-> NoRule]
        \/ \E y \in Codes : rule = [r \in Rules |-> N(y)]
    BY DEF RefInit
  <2>3. \A y \in Codes : N(y) \in RuleRows
    BY <2>1
  <2> HIDE DEF N
  <2> QED
    BY <2>2, <2>3, Blanks
<1>7. ask \in [Clerks -> Asks] /\ \A p \in Clerks : ask[p] = NoAsk
  BY Blanks DEF RefInit
<1>8. NoAsk.pc = "idle" /\ NoAsk.op \notin YearOps
  BY DEF NoAsk, YearOps
<1>9. raced = FALSE
  BY DEF RefInit
<1> QED
  BY <1>5, <1>6, <1>7, <1>8, <1>9 DEF RefInv, InForce, OnYears

(* The inductive invariant of years, rules and the requests on them. *)
THEOREM ReferenceInvariance == RefSpec => []RefInv
<1> QED
  BY RefStart, RefStep, PTL DEF RefSpec

(* The ranges of active years are disjoint: a day belongs to one year at   *)
(* most, whatever sequence of adding, editing, closing and opening led     *)
(* there, as long as no two requests on years overlapped (assertNoOverlap  *)
(* and the write after it are not one transaction).                        *)
THEOREM DayHasOneYear == RefSpec => []YearsDisjoint
<1>1. \A a, b \in DatesTyped : ~RangesOverlap(a, b) /\ a # NoRange /\ b # NoRange
         => (a[1]..a[2]) \cap (b[1]..b[2]) = {}
  <2> SUFFICES ASSUME NEW a \in DatesTyped, NEW b \in DatesTyped, ~RangesOverlap(a, b), a # NoRange, b # NoRange
               PROVE  (a[1]..a[2]) \cap (b[1]..b[2]) = {}
    OBVIOUS
  <2>1. a[1] \in Nat /\ a[2] \in Nat /\ b[1] \in Nat /\ b[2] \in Nat
    <3>1. Field \subseteq Nat
      BY ReferenceConstants DEF Field
    <3> QED
      BY <3>1 DEF DatesTyped
  <2>2. a[1] > b[2] \/ b[1] > a[2]
    BY <2>1 DEF RangesOverlap
  <2> QED
    BY <2>1, <2>2
<1>2. RefInv => YearsDisjoint
  <2> SUFFICES ASSUME RefInv, ~raced, NEW y \in Codes, NEW z \in Codes, y # z, InForce(y), InForce(z)
               PROVE  DaysOf(y) \cap DaysOf(z) = {}
    BY DEF YearsDisjoint, InForce
  <2>1. year[y].range \in DatesTyped /\ year[z].range \in DatesTyped
    BY DEF RefInv, Years
  <2>2. ~RangesOverlap(year[y].range, year[z].range)
    BY DEF RefInv
  <2> QED
    BY <1>1, <2>1, <2>2 DEF DaysOf
<1> QED
  BY <1>2, ReferenceInvariance, PTL

-----------------------------------------------------------------------------
(* Rates.                                                                  *)

Status == {"none", "DRAFT", "PUBLISHED"}
Config == [st : Status, ver : Int, cells : Rates, pct : Rates]
Version == [ver : Int, cells : Rates, pct : Rates]
Target == [st : Status, ver : Int]
Workspaces == [ward : Wards, seen : SUBSET Config, timer : SUBSET Rates, draft : Draft]
Pcs == {"idle", "read", "next", "cells", "pct", "reread", "version", "mark", "bill", "billing"}
Requests == [op : {"none", "cells", "pct", "publish", "copy"}, pc : Pcs,
             page : Pages, w : Wards, cur : Wards, want : Draft, st : Status, ver : Int,
             todo : SUBSET Wards, got : SUBSET (Target \cup Draft)]

\* Where a request of each kind may be, and what it carries
Shaped(r) ==
    /\ r.op = "none" => r = NoReq
    /\ r.op = "cells" => r.pc \in {"read", "cells"}
    /\ r.op = "pct" => r.pc \in {"read", "pct"}
    /\ r.op = "publish" => r.pc \in {"read", "cells", "pct", "reread", "version", "mark", "bill", "billing"}
    /\ r.op = "copy" => r.pc \in {"read", "next", "cells", "pct", "version", "mark", "bill", "billing"}
    /\ r.op # "copy" => r.cur = r.w
    /\ r.op = "copy" /\ r.pc \in {"cells", "pct", "version", "mark"} =>
          \E g \in r.got : g \in Target /\ r.got = {g}

HasVersion(w, v) == \E h \in hist[w] : h.ver = v

\* The wards a request is about have configurations, and the version it is
\* about to mark exists
Backed(r) ==
    r.op # "none" =>
       /\ cfg[r.w].st # "none"
       /\ r.pc \notin {"read", "next"} => cfg[r.cur].st # "none"
       /\ r.pc = "mark" => HasVersion(r.cur, NewVersion(r))

\* The version of a published ward says what its configuration says
VersionTells(w) ==
    cfg[w].st = "PUBLISHED" =>
       \E h \in hist[w] : h.ver = cfg[w].ver /\ RatesOf(h) = RatesOf(cfg[w])

\* Between its first write to a ward and the mark a request may leave the two apart
Changing(r, w) == r.cur = w /\ r.pc \in {"pct", "reread", "version", "mark"}

\* What a request has read and written of the ward it is at
Holds(r) ==
    LET c == cfg[r.cur] IN
    /\ r.op \in {"cells", "pct"} /\ r.pc # "read" => c.st = "DRAFT"
    /\ r.op = "copy" /\ r.pc \in {"cells", "pct"} =>
          \A g \in r.got : g.st = "PUBLISHED" <=> c.st = "PUBLISHED"
    /\ r.op \in {"publish", "copy"} /\ r.pc = "pct" => c.cells = r.want.cells
    /\ r.pc \in {"reread", "version", "mark", "bill", "billing"} => RatesOf(c) = r.want
    /\ r.pc = "mark" => \E h \in hist[r.cur] : h.ver = NewVersion(r) /\ RatesOf(h) = r.want
    /\ r.pc = "billing" => r.got = {r.want}

\* A copy goes by the status its source had when it was read
SourceKept(r) ==
    r.op = "copy" /\ r.pc # "read" => (cfg[r.w].st = "PUBLISHED" <=> r.st = "PUBLISHED")

(* A ward that no two requests have shared and where none died has one     *)
(* request at most: nothing moves under what that request has read, and    *)
(* outside its changes the version tells the configuration.                *)
RatesInv ==
    /\ cfg \in [Wards -> Config] /\ hist \in [Wards -> SUBSET Version]
    /\ page \in [Pages -> Workspaces] /\ req \in [Reqs -> Requests] /\ mess \subseteq Wards
    /\ \A p \in Pages : page[p].seen # {} => cfg[page[p].ward].st # "none"
    /\ \A q \in Reqs : Shaped(req[q]) /\ Backed(req[q])
    /\ \A q, o \in Reqs : q # o => Targets(req[q]) \cap Targets(req[o]) \subseteq mess
    /\ \A w \in Wards : cfg[w].st = "PUBLISHED" => HasVersion(w, cfg[w].ver)
    /\ \A w \in Wards \ mess : VersionTells(w) \/ \E q \in Reqs : Changing(req[q], w)
    /\ \A q \in Reqs : req[q].op # "none" =>
          /\ req[q].cur \notin mess => Holds(req[q])
          /\ req[q].w \notin mess => SourceKept(req[q])

LEMMA NoReqTyped == NoReq \in Requests /\ NoReq.op = "none" /\ NoReq.pc = "idle" /\ Shaped(NoReq)
<1>1. 0 \in Rates /\ Wards # {} /\ Pages # {}
  BY RatesConstants
<1> DEFINE p == CHOOSE p \in Pages : TRUE
           w == CHOOSE w \in Wards : TRUE
           zero == [cells |-> 0, pct |-> 0]
<1>2. p \in Pages /\ w \in Wards /\ zero \in Draft
  BY <1>1 DEF Draft
<1>3. NoReq = [op |-> "none", pc |-> "idle", page |-> p, w |-> w, cur |-> w, want |-> zero,
               st |-> "DRAFT", ver |-> 0, todo |-> {}, got |-> {}]
  BY DEF NoReq
<1> HIDE DEF p, w, zero
<1>4. NoReq \in Requests
  BY <1>2, <1>3 DEF Requests, Status, Pcs
<1>5. NoReq.op = "none" /\ NoReq.pc = "idle" /\ NoReq.cur = NoReq.w
  BY <1>3
<1> QED
  BY <1>4, <1>5 DEF Shaped

LEMMA WardsOf ==
    \A r \in Requests : r.op # "none" /\ Shaped(r) => r.w \in Targets(r) /\ r.cur \in Targets(r)
BY DEF Requests, Shaped, Targets

(* The version a copy gives a ward that it counts on from the ward's own. *)
LEMMA NewVersionTyped ==
    ASSUME NEW r \in Requests, Shaped(r), r.pc \in {"version", "mark"}
    PROVE  NewVersion(r) \in Int
<1>1. r.ver \in Int
  BY DEF Requests
<1>2. CASE r.op = "copy"
  <2>1. PICK g \in r.got : g \in Target /\ r.got = {g}
    BY <1>2 DEF Shaped
  <2>2. (CHOOSE h \in r.got : TRUE) = g
    BY <2>1
  <2>3. g.ver \in Int
    BY <2>1 DEF Target
  <2> QED
    BY <1>1, <2>2, <2>3 DEF NewVersion
<1> QED
  BY <1>1, <1>2 DEF NewVersion

(* A request moves and writes one of its wards. *)
LEMMA RequestMoves ==
    ASSUME RatesInv, NEW q \in Reqs, NEW x \in Wards, NEW n \in Requests,
           req[q].op # "none", x \in Targets(req[q]),
           req[q].pc \in {"pct", "reread", "version", "mark"} => req[q].cur = x,
           req' = [req EXCEPT ![q] = n], page' = page, mess \subseteq mess', mess' \subseteq Wards,
           Shaped(n), n = NoReq \/ (n.op = req[q].op /\ n.w = req[q].w),
           cfg' \in [Wards -> Config], hist' \in [Wards -> SUBSET Version],
           \A w \in Wards \ {x} : cfg'[w] = cfg[w] /\ hist'[w] = hist[w],
           cfg'[x].st = "none" => cfg[x].st = "none",
           \A v : (\E h \in hist[x] : h.ver = v) => \E h \in hist'[x] : h.ver = v,
           cfg'[x].st = "PUBLISHED" => \E h \in hist'[x] : h.ver = cfg'[x].ver,
           Backed(n)',
           x \notin mess' => VersionTells(x)' \/ Changing(n, x),
           n.op # "none" /\ n.cur \notin mess' => Holds(n)',
           n.op # "none" /\ n.w \notin mess' => SourceKept(n)'
    PROVE  RatesInv'
<1>1. req' \in [Reqs -> Requests] /\ req'[q] = n /\ \A o \in Reqs \ {q} : req'[o] = req[o]
  BY DEF RatesInv
<1>2. \A o \in Reqs : req[o] \in Requests /\ Shaped(req[o]) /\ Backed(req[o])
  BY DEF RatesInv
<1>3. \A w \in Wards : cfg'[w].st = "none" => cfg[w].st = "none"
  OBVIOUS
<1>4. \A w \in Wards : \A v : HasVersion(w, v) => HasVersion(w, v)'
  BY DEF HasVersion
<1>5. page' \in [Pages -> Workspaces] /\ \A p \in Pages : page'[p].seen # {} => cfg'[page'[p].ward].st # "none"
  <2>1. \A p \in Pages : page[p].ward \in Wards
    BY DEF RatesInv, Workspaces
  <2> QED
    BY <1>3, <2>1 DEF RatesInv
<1>6. \A o \in Reqs : Shaped(req'[o])
  BY <1>1, <1>2
<1>7. ASSUME NEW o \in Reqs
      PROVE  Backed(req[o])'
  <2>1. CASE o = q
    BY <1>1, <2>1 DEF Backed, HasVersion, NewVersion
  <2>2. CASE o # q
    <3>1. PICK r : r = req[o] /\ r = req'[o]
      BY <1>1, <2>2
    <3>2. r \in Requests /\ r.w \in Wards /\ r.cur \in Wards
      BY <1>2, <3>1 DEF Requests
    <3>3. Backed(r)'
      BY <1>2, <1>3, <1>4, <3>1, <3>2 DEF Backed
    <3> QED
      BY <3>1, <3>3 DEF Backed, HasVersion, NewVersion
  <2> QED
    BY <2>1, <2>2
<1>8. Targets(n) \subseteq Targets(req[q])
  <2>1. Targets(NoReq) = {}
    BY NoReqTyped DEF Targets
  <2> QED
    BY <2>1 DEF Targets
<1>9. \A o, u \in Reqs : o # u => Targets(req'[o]) \cap Targets(req'[u]) \subseteq mess'
  BY <1>1, <1>8 DEF RatesInv
<1>10. \A w \in Wards : cfg'[w].st = "PUBLISHED" => HasVersion(w, cfg[w].ver)'
  BY DEF RatesInv, HasVersion
<1>11. ASSUME NEW w \in Wards \ mess'
       PROVE  VersionTells(w)' \/ \E o \in Reqs : Changing(req'[o], w)
  <2>1. CASE w = x
    BY <1>1, <1>11, <2>1
  <2>2. CASE w # x
    <3>1. VersionTells(w)' <=> VersionTells(w)
      BY <2>2 DEF VersionTells
    <3>2. ~Changing(req[q], w)
      BY <2>2 DEF Changing
    <3> QED
      BY <1>1, <1>11, <3>1, <3>2 DEF RatesInv
  <2> QED
    BY <2>1, <2>2
<1>12. ASSUME NEW o \in Reqs, req'[o].op # "none"
       PROVE  /\ req'[o].cur \notin mess' => Holds(req[o])'
              /\ req'[o].w \notin mess' => SourceKept(req[o])'
  <2>1. CASE o = q
    BY <1>1, <1>12, <2>1 DEF Holds, SourceKept, NewVersion
  <2>2. CASE o # q
    <3>1. PICK r : r = req[o] /\ r = req'[o]
      BY <1>1, <2>2
    <3>2. r \in Requests /\ r.w \in Wards /\ r.cur \in Wards /\ r.w \in Targets(r) /\ r.cur \in Targets(r)
      BY <1>2, <1>12, <3>1, WardsOf DEF Requests
    <3>3. \A w \in Targets(r) \cap Wards : w \notin mess' => w # x
      BY <2>2, <3>1 DEF RatesInv
    <3>4. ASSUME r.cur \notin mess'
          PROVE  Holds(r)'
      <4>1. cfg'[r.cur] = cfg[r.cur] /\ hist'[r.cur] = hist[r.cur]
        BY <3>2, <3>3, <3>4
      <4>2. Holds(r)
        BY <1>12, <3>1, <3>4, ZenonT(30) DEF RatesInv
      <4> QED
        BY <4>1, <4>2 DEF Holds
    <3>5. ASSUME r.w \notin mess'
          PROVE  SourceKept(r)'
      <4>1. cfg'[r.w] = cfg[r.w]
        BY <3>2, <3>3, <3>5
      <4>2. SourceKept(r)
        BY <1>12, <3>1, <3>5, ZenonT(30) DEF RatesInv
      <4> QED
        BY <4>1, <4>2 DEF SourceKept
    <3> QED
      BY <3>1, <3>4, <3>5 DEF Holds, SourceKept, NewVersion
  <2> QED
    BY <2>1, <2>2
<1> QED
  BY <1>1, <1>5, <1>6, <1>7, <1>9, <1>10, <1>11, <1>12 DEF RatesInv

\* A request that goes on to its next step
Gone(r, pc) == [r EXCEPT !.pc = pc]

LEMMA GoesOn ==
    ASSUME NEW r \in Requests, NEW pc \in Pcs
    PROVE  LET n == Gone(r, pc)
           IN  /\ n \in Requests /\ n.pc = pc /\ n.op = r.op /\ n.w = r.w /\ n.cur = r.cur
               /\ n.want = r.want /\ n.st = r.st /\ n.ver = r.ver /\ n.got = r.got /\ n.todo = r.todo
BY DEF Gone, Requests

LEMMA AtWork ==
    ASSUME RatesInv, NEW q \in Reqs, req[q].pc # "idle"
    PROVE  /\ req[q] \in Requests /\ req[q].op # "none" /\ Shaped(req[q]) /\ Backed(req[q])
           /\ req[q].w \in Wards /\ req[q].cur \in Wards /\ req[q].want \in Draft
           /\ req[q].want.cells \in Rates /\ req[q].want.pct \in Rates
           /\ req[q].w \in Targets(req[q]) /\ req[q].cur \in Targets(req[q])
           /\ \A w \in Wards : cfg[w] \in Config /\ hist[w] \subseteq Version
           /\ \A w \in Wards : cfg[w].st = "PUBLISHED" => \E h \in hist[w] : h.ver = cfg[w].ver
           /\ req[q].cur \notin mess => Holds(req[q])
           /\ req[q].w \notin mess => SourceKept(req[q])
           /\ \A w \in Targets(req[q]) \cap Wards : w \notin mess /\ ~Changing(req[q], w) => VersionTells(w)
<1>1. req[q] \in Requests /\ Shaped(req[q]) /\ Backed(req[q])
  BY DEF RatesInv
<1>2. req[q].op # "none"
  BY <1>1, NoReqTyped DEF Shaped
<1>3. /\ req[q].w \in Wards /\ req[q].cur \in Wards /\ req[q].want \in Draft
      /\ req[q].w \in Targets(req[q]) /\ req[q].cur \in Targets(req[q])
  BY <1>1, <1>2, WardsOf DEF Requests
<1>4. /\ \A w \in Wards : cfg[w] \in Config /\ hist[w] \subseteq Version
      /\ \A w \in Wards : cfg[w].st = "PUBLISHED" => \E h \in hist[w] : h.ver = cfg[w].ver
      /\ req[q].cur \notin mess => Holds(req[q])
      /\ req[q].w \notin mess => SourceKept(req[q])
  BY <1>2 DEF RatesInv, HasVersion
<1>5. ASSUME NEW w \in Wards, w \in Targets(req[q]), w \notin mess, ~Changing(req[q], w)
      PROVE  VersionTells(w)
  <2>1. ASSUME NEW o \in Reqs, Changing(req[o], w)
        PROVE  FALSE
    <3>1. req[o] \in Requests /\ Shaped(req[o])
      BY DEF RatesInv
    <3>2. req[o].op # "none"
      BY <2>1, <3>1, NoReqTyped DEF Shaped, Changing
    <3>3. w \in Targets(req[o]) /\ o # q
      BY <1>5, <2>1, <3>1, <3>2, WardsOf DEF Changing
    <3> QED
      BY <1>5, <3>3 DEF RatesInv
  <2> QED
    BY <1>5, <2>1 DEF RatesInv
<1>6. req[q].want.cells \in Rates /\ req[q].want.pct \in Rates
  BY <1>3 DEF Draft
<1> QED
  BY <1>1, <1>2, <1>3, <1>4, <1>5, <1>6

(* A request reads, or is over, without writing to a configuration. *)
LEMMA RequestReads ==
    ASSUME RatesInv, NEW q \in Reqs, req[q].pc # "idle", NEW n \in Requests,
           req' = [req EXCEPT ![q] = n], page' = page, mess' = mess, cfg' = cfg, hist' = hist,
           Shaped(n), n = NoReq \/ (n.op = req[q].op /\ n.w = req[q].w),
           Changing(req[q], req[q].cur) => Changing(n, req[q].cur),
           n.op # "none" => Backed(n),
           n.op # "none" /\ n.cur \notin mess => Holds(n),
           n.op # "none" /\ n.w \notin mess => SourceKept(n)
    PROVE  RatesInv'
<1>1. PICK x \in Wards : x = req[q].cur /\ x \in Targets(req[q])
  BY AtWork
<1>2. x \notin mess => VersionTells(x) \/ Changing(n, x)
  BY <1>1, AtWork
<1>3. /\ VersionTells(x)' <=> VersionTells(x)
      /\ Holds(n)' <=> Holds(n)
      /\ SourceKept(n)' <=> SourceKept(n)
      /\ Backed(n)' <=> Backed(n)
  BY DEF VersionTells, Holds, SourceKept, Backed, HasVersion
<1>4. Backed(n)
  BY DEF Backed
<1> QED
  BY <1>1, <1>2, <1>3, <1>4, AtWork, RequestMoves, ZenonT(30) DEF RatesInv

LEMMA RequestOver ==
    ASSUME RatesInv, NEW q \in Reqs, req[q].pc # "idle", ~Changing(req[q], req[q].cur),
           End(q), page' = page, mess' = mess, cfg' = cfg, hist' = hist
    PROVE  RatesInv'
BY NoReqTyped, RequestReads DEF End

LEMMA CheckDraftKeeps ==
    ASSUME RatesInv, NEW q \in Reqs, CheckDraft(q)
    PROVE  RatesInv'
<1>1. /\ req[q].pc = "read" /\ req[q].op \in {"cells", "pct"} /\ page' = page /\ mess' = mess
      /\ cfg' = cfg /\ hist' = hist /\ req \in [Reqs -> Requests]
  BY DEF CheckDraft, At, Same, tables, RatesInv
<1>2. CASE ~AssertEditableDraft(cfg[req[q].w])
  BY <1>1, <1>2, RequestOver DEF CheckDraft, Changing
<1>3. CASE AssertEditableDraft(cfg[req[q].w])
  <2> DEFINE r == req[q]
             n == Gone(r, r.op)
  <2>1. req' = [req EXCEPT ![q] = n]
    BY <1>1, <1>3 DEF CheckDraft, Goto, Gone
  <2>2. r \in Requests /\ r.op \in Pcs /\ Shaped(r) /\ Backed(r)
    BY <1>1, AtWork DEF Pcs
  <2>3. /\ n \in Requests /\ n.pc = r.op /\ n.op = r.op /\ n.w = r.w /\ n.cur = r.cur /\ r.cur = r.w
    BY <1>1, <2>2, GoesOn DEF Shaped
  <2>4. cfg[r.w].st = "DRAFT"
    BY <1>3 DEF AssertEditableDraft
  <2> HIDE DEF n
  <2>5. Shaped(n) /\ Backed(n) /\ Holds(n) /\ SourceKept(n)
    BY <1>1, <2>2, <2>3, <2>4 DEF Shaped, Backed, Holds, SourceKept
  <2> QED
    BY <1>1, <2>1, <2>3, <2>5, RequestReads DEF Changing
<1> QED
  BY <1>2, <1>3

LEMMA ReadConfigKeeps ==
    ASSUME RatesInv, NEW q \in Reqs, ReadConfig(q)
    PROVE  RatesInv'
<1> DEFINE r == req[q]
           c == cfg[r.w]
<1>1. /\ r.pc = "read" /\ r.op = "publish" /\ page' = page /\ mess' = mess
      /\ cfg' = cfg /\ hist' = hist /\ req \in [Reqs -> Requests]
  BY DEF ReadConfig, At, Same, tables, RatesInv
<1>2. r \in Requests /\ r.cur = r.w /\ Shaped(r) /\ Backed(r) /\ r.w \in Wards /\ c \in Config
  BY <1>1, AtWork DEF Shaped
<1>3. CASE c.st = "PUBLISHED" /\ RatesOf(c) = r.want
  <2> DEFINE m == Gone(r, "mark")
             n == [m EXCEPT !.ver = c.ver]
  <2>1. req' = [req EXCEPT ![q] = n]
    BY <1>1, <1>3 DEF ReadConfig, Gone
  <2>2. m \in Requests /\ m.pc = "mark" /\ m.op = r.op /\ m.w = r.w /\ m.cur = r.cur /\ m.want = r.want
    BY <1>2, GoesOn DEF Pcs
  <2> HIDE DEF m
  <2>3. /\ n \in Requests /\ n.pc = "mark" /\ n.op = "publish" /\ n.w = r.w /\ n.cur = r.w
        /\ n.want = r.want /\ n.ver = c.ver
    BY <1>1, <1>2, <2>2 DEF Requests, Config
  <2> HIDE DEF n
  <2>4. NewVersion(n) = c.ver
    BY <2>3 DEF NewVersion
  <2>5. \E h \in hist[r.w] : h.ver = c.ver
    BY <1>1, <1>2, <1>3, AtWork
  <2>6. r.w \notin mess => \E h \in hist[r.w] : h.ver = c.ver /\ RatesOf(h) = RatesOf(c)
    BY <1>1, <1>2, <1>3, AtWork DEF VersionTells, Changing
  <2>7. Shaped(n) /\ Backed(n) /\ SourceKept(n) /\ (n.cur \notin mess => Holds(n))
    BY <1>2, <1>3, <2>3, <2>4, <2>5, <2>6 DEF Shaped, Backed, Holds, SourceKept, HasVersion
  <2> QED
    BY <1>1, <1>2, <2>1, <2>3, <2>7, RequestReads DEF Changing
<1>4. CASE ~(c.st = "PUBLISHED" /\ RatesOf(c) = r.want)
  <2> DEFINE n == Gone(r, "cells")
  <2>1. req' = [req EXCEPT ![q] = n]
    BY <1>1, <1>4 DEF ReadConfig, Goto, Gone
  <2>2. n \in Requests /\ n.pc = "cells" /\ n.op = r.op /\ n.w = r.w /\ n.cur = r.cur
    BY <1>2, GoesOn DEF Pcs
  <2> HIDE DEF n
  <2>3. Shaped(n) /\ Backed(n) /\ Holds(n) /\ SourceKept(n)
    BY <1>1, <1>2, <2>2 DEF Shaped, Backed, Holds, SourceKept
  <2> QED
    BY <1>1, <1>2, <2>1, <2>2, <2>3, RequestReads DEF Changing
<1> QED
  BY <1>3, <1>4

LEMMA CopyReadKeeps ==
    ASSUME RatesInv, NEW q \in Reqs, CopyRead(q)
    PROVE  RatesInv'
<1> DEFINE r == req[q]
           c == cfg[r.w]
           k == Gone(r, "next")
           l == [k EXCEPT !.st = c.st]
           m == [l EXCEPT !.ver = c.ver]
           n == [m EXCEPT !.todo = Wards]
<1>1. /\ r.pc = "read" /\ r.op = "copy" /\ page' = page /\ mess' = mess
      /\ cfg' = cfg /\ hist' = hist /\ req \in [Reqs -> Requests]
      /\ req' = [req EXCEPT ![q] = n]
  BY DEF CopyRead, At, Same, tables, RatesInv, Gone
<1>2. r \in Requests /\ Shaped(r) /\ Backed(r) /\ r.w \in Wards /\ c \in Config
  BY <1>1, AtWork
<1>3. k \in Requests /\ k.pc = "next" /\ k.op = "copy" /\ k.w = r.w
  BY <1>1, <1>2, GoesOn DEF Pcs
<1> HIDE DEF k
<1>4. l \in Requests /\ l.pc = "next" /\ l.op = "copy" /\ l.w = r.w /\ l.st = c.st
  BY <1>2, <1>3 DEF Requests, Config
<1> HIDE DEF l
<1>5. m \in Requests /\ m.pc = "next" /\ m.op = "copy" /\ m.w = r.w /\ m.st = c.st
  BY <1>2, <1>4 DEF Requests, Config
<1> HIDE DEF m
<1>6. n \in Requests /\ n.pc = "next" /\ n.op = "copy" /\ n.w = r.w /\ n.st = c.st
  BY <1>5 DEF Requests
<1> HIDE DEF n
<1>7. Shaped(n) /\ Backed(n) /\ Holds(n) /\ SourceKept(n)
  BY <1>1, <1>2, <1>6 DEF Shaped, Backed, Holds, SourceKept
<1> QED
  BY <1>1, <1>6, <1>7, RequestReads DEF Changing

(* A ward without a configuration gets a draft; nothing else of it changes. *)
LEMMA GetOrCreateTyped ==
    ASSUME RatesInv, NEW w \in Wards
    PROVE  /\ GetOrCreate(w) \in Config /\ GetOrCreate(w).st # "none"
           /\ cfg[w].st # "none" => GetOrCreate(w) = cfg[w]
           /\ cfg[w].st = "none" => GetOrCreate(w).st = "DRAFT"
BY RatesConstants DEF GetOrCreate, RatesInv, Config, Status

LEMMA CopyNextKeeps ==
    ASSUME RatesInv, NEW q \in Reqs, CopyNext(q)
    PROVE  RatesInv'
<1> DEFINE r == req[q]
<1>1. /\ r.pc = "next" /\ page' = page /\ mess' = mess /\ mess \subseteq Wards
      /\ req \in [Reqs -> Requests] /\ cfg \in [Wards -> Config] /\ hist \in [Wards -> SUBSET Version]
  BY DEF CopyNext, At, Same, RatesInv
<1>2. r \in Requests /\ r.op = "copy" /\ Shaped(r) /\ Backed(r) /\ r.w \in Wards /\ r.todo \subseteq Wards
  <2>1. r \in Requests /\ r.op # "none" /\ Shaped(r) /\ Backed(r)
    BY <1>1, AtWork
  <2> QED
    BY <1>1, <2>1 DEF Shaped, Requests
<1>3. CASE r.todo = {}
  BY <1>1, <1>3, RequestOver DEF CopyNext, tables, Changing
<1>4. CASE r.todo # {}
  <2> DEFINE C(w) == IF w = r.w THEN [st |-> r.st, ver |-> r.ver] ELSE GetOrCreate(w)
             G(w) == [st |-> C(w).st, ver |-> C(w).ver]
  <2>1. PICK w \in r.todo :
           /\ cfg' = [cfg EXCEPT ![w] = IF w = r.w THEN @ ELSE C(w)]
           /\ req' = [req EXCEPT ![q].pc = "cells", ![q].cur = w, ![q].todo = @ \ {w}, ![q].got = {G(w)}]
           /\ hist' = hist
    BY <1>4 DEF CopyNext
  <2> DEFINE g == G(w)
             k == Gone(r, "cells")
             l == [k EXCEPT !.cur = w]
             m == [l EXCEPT !.todo = @ \ {w}]
             turned == [m EXCEPT !.got = {g}]
  <2>2. w \in Wards /\ w \in Targets(r)
    BY <1>2, <2>1 DEF Targets
  <2>3. req' = [req EXCEPT ![q] = turned]
    BY <1>1, <2>1, ZenonT(30) DEF Gone
  <2>4. GetOrCreate(w) \in Config /\ (w = r.w => cfg[w].st # "none")
    BY <1>2, <2>2, GetOrCreateTyped DEF Backed
  <2>5. g \in Target /\ (w = r.w => g.st = r.st) /\ (w # r.w => g.st = GetOrCreate(w).st)
    BY <1>2, <2>4 DEF Target, Requests, Config
  <2> HIDE DEF g, C, G
  <2>6. k \in Requests /\ k.pc = "cells" /\ k.op = "copy" /\ k.w = r.w /\ k.st = r.st
    BY <1>2, GoesOn DEF Pcs
  <2> HIDE DEF k
  <2>7. l \in Requests /\ l.pc = "cells" /\ l.op = "copy" /\ l.w = r.w /\ l.st = r.st /\ l.cur = w
    BY <2>2, <2>6 DEF Requests
  <2> HIDE DEF l
  <2>8. m \in Requests /\ m.pc = "cells" /\ m.op = "copy" /\ m.w = r.w /\ m.st = r.st /\ m.cur = w
    BY <2>7 DEF Requests
  <2> HIDE DEF m
  <2>9. PICK n \in Requests :
           /\ req' = [req EXCEPT ![q] = n] /\ n.pc = "cells" /\ n.op = "copy" /\ n.w = r.w /\ n.st = r.st
           /\ n.cur = w /\ n.got = {g}
    <3>1. /\ turned \in Requests /\ turned.pc = "cells" /\ turned.op = "copy" /\ turned.w = r.w
          /\ turned.st = r.st /\ turned.cur = w /\ turned.got = {g}
      BY <2>5, <2>8 DEF Requests
    <3> HIDE DEF turned
    <3> QED
      BY <2>3, <3>1
  <2>10. /\ cfg' \in [Wards -> Config] /\ \A u \in Wards \ {w} : cfg'[u] = cfg[u]
         /\ cfg'[w].st # "none" /\ (cfg[w].st # "none" => cfg'[w] = cfg[w])
         /\ cfg'[w].st = "PUBLISHED" => cfg'[w] = cfg[w]
         /\ w # r.w => cfg'[w].st = GetOrCreate(w).st
    <3>1. CASE w = r.w
      BY <1>1, <2>1, <2>4, <3>1
    <3>2. CASE w # r.w
      <4>1. cfg' = [cfg EXCEPT ![w] = GetOrCreate(w)]
        BY <2>1, <3>2 DEF C
      <4> QED
        BY <1>1, <2>2, <3>2, <4>1, GetOrCreateTyped
    <3> QED
      BY <3>1, <3>2
  <2>11. Shaped(n)
    BY <2>5, <2>9 DEF Shaped
  <2>12. Backed(n)'
    BY <1>2, <2>2, <2>9, <2>10 DEF Backed
  <2>13. SourceKept(r) => SourceKept(n)'
    BY <1>1, <1>2, <2>9, <2>10 DEF SourceKept, Backed
  <2>14. r.w \notin mess => SourceKept(r)
    BY <1>1, AtWork
  <2>15. w \notin mess => Holds(n)'
    <3>1. w = r.w /\ w \notin mess => (cfg'[w].st = "PUBLISHED" <=> r.st = "PUBLISHED")
      BY <1>1, <1>2, <2>4, <2>10, <2>14 DEF SourceKept
    <3> QED
      BY <2>5, <2>9, <2>10, <3>1 DEF Holds
  <2>16. w \notin mess => VersionTells(w)'
    <3>1. w \notin mess => VersionTells(w)
      BY <1>1, <2>2, AtWork DEF Changing
    <3> QED
      BY <2>1, <2>10, <3>1 DEF VersionTells
  <2>17. cfg'[w].st = "PUBLISHED" => \E h \in hist[w] : h.ver = cfg'[w].ver
    BY <1>1, <2>2, <2>10, AtWork
  <2>18. hist' \in [Wards -> SUBSET Version] /\ \A u \in Wards : hist'[u] = hist[u]
    BY <1>1, <2>1
  <2> QED
    BY <1>1, <1>2, <2>2, <2>9, <2>10, <2>11, <2>12, <2>13, <2>14, <2>15, <2>16, <2>17, <2>18, RequestMoves
<1> QED
  BY <1>3, <1>4

(* A request writes to the configuration of the ward it is at. *)
LEMMA ConfigWritten ==
    ASSUME RatesInv, NEW q \in Reqs, req[q].pc # "idle", NEW n \in Requests, NEW c \in Config,
           req' = [req EXCEPT ![q] = n], cfg' = [cfg EXCEPT ![req[q].cur] = c],
           page' = page, mess' = mess, hist' = hist, c.st # "none",
           c.st = "PUBLISHED" => HasVersion(req[q].cur, c.ver),
           Shaped(n), n = NoReq \/ (n.op = req[q].op /\ n.w = req[q].w /\ n.cur = req[q].cur),
           n.pc # "mark",
           req[q].cur \notin mess =>
              \/ Changing(n, req[q].cur)
              \/ c.st = "PUBLISHED" => \E h \in hist[req[q].cur] : h.ver = c.ver /\ RatesOf(h) = RatesOf(c),
           req[q].cur \notin mess /\ n.op # "none" => Holds(n)',
           n.op = "copy" => /\ n.st = req[q].st
                            /\ n.pc # "read" /\ req[q].pc # "read"
                            /\ req[q].cur = req[q].w /\ req[q].w \notin mess =>
                                  (c.st = "PUBLISHED" <=> n.st = "PUBLISHED")
    PROVE  RatesInv'
<1>1. PICK x \in Wards : x = req[q].cur /\ x \in Targets(req[q])
  BY AtWork
<1>2. /\ cfg \in [Wards -> Config] /\ hist \in [Wards -> SUBSET Version] /\ mess \subseteq Wards
      /\ req[q].op # "none" /\ req[q].w \in Wards /\ Backed(req[q])
  BY AtWork DEF RatesInv
<1>3. /\ cfg' \in [Wards -> Config] /\ cfg'[x] = c /\ \A w \in Wards \ {x} : cfg'[w] = cfg[w]
  BY <1>1, <1>2
<1>4. Backed(n)'
  BY <1>1, <1>2, <1>3, NoReqTyped DEF Backed
<1>5. x \notin mess' => VersionTells(x)' \/ Changing(n, x)
  BY <1>1, <1>3 DEF VersionTells
<1>6. n.op # "none" /\ n.w \notin mess' => SourceKept(n)'
  BY <1>1, <1>2, <1>3, AtWork, NoReqTyped DEF SourceKept
<1>7. cfg'[x].st = "PUBLISHED" => \E h \in hist'[x] : h.ver = cfg'[x].ver
  BY <1>1, <1>3 DEF HasVersion
<1>8. n.op # "none" /\ n.cur \notin mess' => Holds(n)'
  BY NoReqTyped
<1>9. \A w \in Wards \ {x} : cfg'[w] = cfg[w] /\ hist'[w] = hist[w]
  BY <1>3
<1> QED
  BY <1>1, <1>2, <1>3, <1>4, <1>5, <1>6, <1>7, <1>8, <1>9, RequestMoves, ZenonT(30)

LEMMA WriteCellsKeeps ==
    ASSUME RatesInv, NEW q \in Reqs, WriteCells(q)
    PROVE  RatesInv'
<1> DEFINE r == req[q]
           c == [cfg[r.cur] EXCEPT !.cells = r.want.cells]
<1>1. /\ r.pc = "cells" /\ page' = page /\ mess' = mess /\ hist' = hist
      /\ req \in [Reqs -> Requests] /\ cfg \in [Wards -> Config]
  BY DEF WriteCells, At, Same, RatesInv
<1>2. /\ r \in Requests /\ r.op # "none" /\ Shaped(r) /\ Backed(r) /\ r.cur \in Wards /\ r.w \in Wards
      /\ cfg[r.cur] \in Config /\ r.want.cells \in Rates
      /\ r.cur \notin mess => Holds(r)
      /\ r.w \notin mess => SourceKept(r)
      /\ cfg[r.cur].st = "PUBLISHED" => HasVersion(r.cur, cfg[r.cur].ver)
  BY <1>1, AtWork DEF HasVersion
<1>3. cfg' = [cfg EXCEPT ![r.cur] = c]
  BY DEF WriteCells
<1>4. PICK d \in Config : d = c /\ d.st = cfg[r.cur].st /\ d.ver = cfg[r.cur].ver /\ d.cells = r.want.cells
  <2>1. c \in Config /\ c.st = cfg[r.cur].st /\ c.ver = cfg[r.cur].ver /\ c.cells = r.want.cells
    BY <1>2 DEF Config
  <2> HIDE DEF c
  <2> QED
    BY <2>1
<1> HIDE DEF c
<1>5. d.st # "none" /\ (d.st = "PUBLISHED" => HasVersion(r.cur, d.ver))
  BY <1>1, <1>2, <1>4 DEF Backed
<1>6. CASE r.op = "cells"
  <2>1. req' = [req EXCEPT ![q] = NoReq]
    BY <1>6 DEF WriteCells, End
  <2>2. r.cur \notin mess => d.st # "PUBLISHED"
    BY <1>1, <1>2, <1>4, <1>6 DEF Holds
  <2> QED
    BY <1>1, <1>3, <1>4, <1>5, <2>1, <2>2, NoReqTyped, ConfigWritten
<1>7. CASE r.op # "cells"
  <2>1. PICK n \in Requests : /\ req' = [req EXCEPT ![q] = n] /\ n.pc = "pct" /\ n.op = r.op /\ n.w = r.w
                              /\ n.cur = r.cur /\ n.want = r.want /\ n.st = r.st /\ n.got = r.got
    <3> DEFINE gone == Gone(r, "pct")
    <3>1. req' = [req EXCEPT ![q] = gone]
      BY <1>1, <1>7 DEF WriteCells, Goto, Gone
    <3>2. /\ gone \in Requests /\ gone.pc = "pct" /\ gone.op = r.op /\ gone.w = r.w
          /\ gone.cur = r.cur /\ gone.want = r.want /\ gone.st = r.st /\ gone.got = r.got
      BY <1>2, GoesOn DEF Pcs
    <3> HIDE DEF gone
    <3> QED
      BY <3>1, <3>2
  <2>2. Shaped(n) /\ n.op \in {"publish", "copy"}
    BY <1>1, <1>2, <1>7, <2>1 DEF Shaped, Requests
  <2>3. cfg'[r.cur] = d
    BY <1>1, <1>2, <1>3, <1>4
  <2>4. r.cur \notin mess => Holds(n)'
    <3>1. cfg'[n.cur] = d
      BY <2>1, <2>3
    <3>2. d.cells = n.want.cells
      BY <1>4, <2>1
    <3>3. n.op = "copy" /\ r.cur \notin mess => \A g \in n.got : g.st = "PUBLISHED" <=> d.st = "PUBLISHED"
      BY <1>1, <1>2, <1>4, <2>1 DEF Holds
    <3> QED
      BY <2>1, <2>2, <3>1, <3>2, <3>3 DEF Holds
  <2>5. r.op = "copy" /\ r.cur = r.w /\ r.w \notin mess => (d.st = "PUBLISHED" <=> n.st = "PUBLISHED")
    BY <1>1, <1>2, <1>4, <2>1 DEF SourceKept
  <2>6. Changing(n, r.cur)
    BY <2>1 DEF Changing
  <2> QED
    BY <1>1, <1>3, <1>4, <1>5, <2>1, <2>2, <2>4, <2>5, <2>6, ConfigWritten
<1> QED
  BY <1>6, <1>7

LEMMA WriteParamsKeeps ==
    ASSUME RatesInv, NEW q \in Reqs, WriteParams(q)
    PROVE  RatesInv'
<1> DEFINE r == req[q]
           c == [cfg[r.cur] EXCEPT !.pct = r.want.pct]
           target == CHOOSE g \in r.got : TRUE
<1>1. /\ r.pc = "pct" /\ page' = page /\ mess' = mess /\ hist' = hist
      /\ req \in [Reqs -> Requests] /\ cfg \in [Wards -> Config]
  BY DEF WriteParams, At, Same, RatesInv
<1>2. /\ r \in Requests /\ r.op # "none" /\ Shaped(r) /\ Backed(r) /\ r.cur \in Wards /\ r.w \in Wards
      /\ cfg[r.cur] \in Config /\ r.want \in Draft /\ r.want.pct \in Rates
      /\ r.cur \notin mess => Holds(r)
      /\ r.w \notin mess => SourceKept(r)
      /\ cfg[r.cur].st = "PUBLISHED" => HasVersion(r.cur, cfg[r.cur].ver)
  BY <1>1, AtWork DEF HasVersion
<1>3. cfg' = [cfg EXCEPT ![r.cur] = c]
  BY DEF WriteParams
<1>4. PICK d \in Config : /\ d = c /\ d.st = cfg[r.cur].st /\ d.ver = cfg[r.cur].ver
                          /\ d.cells = cfg[r.cur].cells /\ d.pct = r.want.pct
  <2>1. /\ c \in Config /\ c.st = cfg[r.cur].st /\ c.ver = cfg[r.cur].ver
        /\ c.cells = cfg[r.cur].cells /\ c.pct = r.want.pct
    BY <1>2 DEF Config
  <2> HIDE DEF c
  <2> QED
    BY <2>1
<1> HIDE DEF c
<1>5. d.st # "none" /\ (d.st = "PUBLISHED" => HasVersion(r.cur, d.ver))
  BY <1>1, <1>2, <1>4 DEF Backed
<1>6. cfg'[r.cur] = d
  BY <1>1, <1>2, <1>3, <1>4
<1>7. r.op = "copy" /\ r.cur = r.w /\ r.w \notin mess => (d.st = "PUBLISHED" <=> r.st = "PUBLISHED")
  BY <1>1, <1>2, <1>4 DEF SourceKept
<1>8. r.op \in {"publish", "copy"} /\ r.cur \notin mess => RatesOf(d) = r.want
  <2>1. r.want = [cells |-> r.want.cells, pct |-> r.want.pct]
    BY <1>2 DEF Draft
  <2> QED
    BY <1>1, <1>2, <1>4, <2>1 DEF Holds, RatesOf
<1>9. CASE r.op = "pct"
  <2>1. req' = [req EXCEPT ![q] = NoReq]
    BY <1>9 DEF WriteParams, End
  <2>2. r.cur \notin mess => d.st # "PUBLISHED"
    BY <1>1, <1>2, <1>4, <1>9 DEF Holds
  <2> QED
    BY <1>1, <1>3, <1>4, <1>5, <2>1, <2>2, NoReqTyped, ConfigWritten
<1>10. CASE r.op # "pct"
  <2>1. r.op \in {"publish", "copy"}
    BY <1>1, <1>2, <1>10 DEF Shaped, Requests
  <2>2. PICK n \in Requests :
           /\ req' = [req EXCEPT ![q] = n] /\ n.op = r.op /\ n.w = r.w /\ n.cur = r.cur /\ n.st = r.st
           /\ n.want = r.want
           /\ \/ n.pc = "reread" /\ r.op = "publish"
              \/ n.pc = "version" /\ r.op = "copy" /\ \E g \in n.got : g \in Target /\ n.got = {g}
              \/ n.pc = "next" /\ r.op = "copy" /\ target.st # "PUBLISHED"
    <3>1. ASSUME NEW pc \in Pcs, req' = [req EXCEPT ![q] = Gone(r, pc)]
          PROVE  \E n \in Requests : /\ req' = [req EXCEPT ![q] = n] /\ n.op = r.op /\ n.w = r.w /\ n.cur = r.cur
                                     /\ n.st = r.st /\ n.want = r.want /\ n.got = r.got /\ n.pc = pc
      <4> DEFINE gone == Gone(r, pc)
      <4>1. /\ gone \in Requests /\ gone.pc = pc /\ gone.op = r.op /\ gone.w = r.w /\ gone.st = r.st
            /\ gone.cur = r.cur /\ gone.want = r.want /\ gone.got = r.got
        BY <1>2, GoesOn
      <4>2. req' = [req EXCEPT ![q] = gone]
        BY <3>1
      <4> HIDE DEF gone
      <4> QED
        BY <4>1, <4>2
    <3>2. CASE r.op = "publish"
      <4>1. req' = [req EXCEPT ![q] = Gone(r, "reread")]
        BY <1>1, <3>2 DEF WriteParams, Goto, Gone
      <4>2. "reread" \in Pcs
        BY DEF Pcs
      <4> QED
        BY <3>1, <3>2, <4>1, <4>2
    <3>3. CASE r.op = "copy"
      <4>1. PICK g \in r.got : g \in Target /\ r.got = {g}
        BY <1>1, <1>2, <3>3 DEF Shaped
      <4>2. target = g
        BY <4>1
      <4>3. CASE r.st = "PUBLISHED"
        <5>1. req' = [req EXCEPT ![q] = Gone(r, "version")]
          BY <1>1, <3>3, <4>3 DEF WriteParams, Goto, Gone
        <5>2. "version" \in Pcs
          BY DEF Pcs
        <5>3. PICK n \in Requests :
                 /\ req' = [req EXCEPT ![q] = n] /\ n.op = r.op /\ n.w = r.w /\ n.cur = r.cur
                 /\ n.st = r.st /\ n.want = r.want /\ n.got = r.got /\ n.pc = "version"
          BY <3>1, <5>1, <5>2
        <5>4. \E h \in n.got : h \in Target /\ n.got = {h}
          BY <4>1, <5>3
        <5> QED
          BY <3>3, <5>3, <5>4
      <4>4. CASE r.st # "PUBLISHED" /\ target.st # "PUBLISHED"
        <5>1. req' = [req EXCEPT ![q] = Gone(r, "next")]
          BY <1>1, <3>3, <4>4 DEF WriteParams, Goto, Gone
        <5>2. "next" \in Pcs
          BY DEF Pcs
        <5> QED
          BY <3>1, <3>3, <4>4, <5>1, <5>2
      <4>5. CASE r.st # "PUBLISHED" /\ target.st = "PUBLISHED"
        <5> DEFINE gone == Gone(r, "version")
                   next == [target EXCEPT !.ver = @ + 1]
                   n == [gone EXCEPT !.got = {next}]
        <5>1. req' = [req EXCEPT ![q] = n]
          BY <1>1, <3>3, <4>5 DEF WriteParams, Gone
        <5>2. next \in Target
          BY <4>1, <4>2 DEF Target
        <5>3. /\ gone \in Requests /\ gone.pc = "version" /\ gone.op = r.op /\ gone.w = r.w /\ gone.st = r.st
              /\ gone.cur = r.cur /\ gone.want = r.want
          BY <1>2, GoesOn DEF Pcs
        <5> HIDE DEF gone, next
        <5>4. /\ n \in Requests /\ n.pc = "version" /\ n.op = r.op /\ n.w = r.w /\ n.st = r.st
              /\ n.cur = r.cur /\ n.want = r.want /\ n.got = {next}
          BY <5>2, <5>3 DEF Requests
        <5> HIDE DEF n
        <5> QED
          BY <3>3, <5>1, <5>2, <5>4
      <4> QED
        BY <4>3, <4>4, <4>5
    <3> QED
      BY <2>1, <3>2, <3>3
  <2>3. Shaped(n) /\ n.pc # "mark" /\ n.pc # "read"
    BY <1>2, <2>1, <2>2 DEF Shaped
  <2>4. r.cur \notin mess => Holds(n)'
    <3>1. cfg'[n.cur] = d
      BY <1>6, <2>2
    <3> QED
      BY <1>8, <2>1, <2>2, <3>1 DEF Holds
  <2>5. r.cur \notin mess => Changing(n, r.cur) \/ d.st # "PUBLISHED"
    <3>1. CASE n.pc # "next"
      BY <2>2, <3>1 DEF Changing
    <3>2. CASE n.pc = "next"
      <4>1. r.op = "copy" /\ target.st # "PUBLISHED"
        BY <2>2, <3>2
      <4>2. target \in r.got
        BY <1>1, <1>2, <4>1 DEF Shaped
      <4> HIDE DEF target
      <4> QED
        BY <1>1, <1>2, <1>4, <4>1, <4>2 DEF Holds
    <3> QED
      BY <3>1, <3>2
  <2> HIDE DEF target
  <2> QED
    BY <1>1, <1>3, <1>4, <1>5, <1>7, <2>1, <2>2, <2>3, <2>4, <2>5, ConfigWritten
<1> QED
  BY <1>9, <1>10

LEMMA RereadKeeps ==
    ASSUME RatesInv, NEW q \in Reqs, Reread(q)
    PROVE  RatesInv'
<1> DEFINE r == req[q]
           c == cfg[r.w]
           up == c.ver + (IF c.st = "PUBLISHED" THEN 1 ELSE 0)
           gone == Gone(r, "version")
           n == [gone EXCEPT !.ver = up]
<1>1. /\ r.pc = "reread" /\ page' = page /\ mess' = mess /\ cfg' = cfg /\ hist' = hist
      /\ req \in [Reqs -> Requests] /\ req' = [req EXCEPT ![q] = n]
  BY DEF Reread, At, Same, tables, RatesInv, Gone
<1>2. /\ r \in Requests /\ r.op = "publish" /\ Shaped(r) /\ Backed(r) /\ r.cur = r.w /\ r.w \in Wards
      /\ c \in Config /\ (r.cur \notin mess => Holds(r))
  <2>1. r \in Requests /\ r.op # "none" /\ Shaped(r) /\ Backed(r) /\ r.w \in Wards /\ c \in Config
        /\ (r.cur \notin mess => Holds(r))
    BY <1>1, AtWork
  <2> QED
    BY <1>1, <2>1 DEF Shaped, Requests
<1>3. up \in Int
  BY <1>2 DEF Config
<1>4. /\ gone \in Requests /\ gone.pc = "version" /\ gone.op = r.op /\ gone.w = r.w
      /\ gone.cur = r.cur /\ gone.want = r.want
  BY <1>2, GoesOn DEF Pcs
<1> HIDE DEF up, gone
<1>5. /\ n \in Requests /\ n.pc = "version" /\ n.op = r.op /\ n.w = r.w /\ n.cur = r.cur /\ n.want = r.want
  BY <1>3, <1>4 DEF Requests
<1> HIDE DEF n
<1>6. Shaped(n) /\ Backed(n) /\ SourceKept(n) /\ (n.cur \notin mess => Holds(n))
  BY <1>1, <1>2, <1>5 DEF Shaped, Backed, SourceKept, Holds
<1> QED
  BY <1>1, <1>2, <1>5, <1>6, RequestReads DEF Changing

LEMMA AddVersionKeeps ==
    ASSUME RatesInv, NEW q \in Reqs, AddVersion(q)
    PROVE  RatesInv'
<1> DEFINE r == req[q]
<1>1. /\ r.pc = "version" /\ page' = page /\ mess' = mess /\ cfg' = cfg /\ mess \subseteq Wards
      /\ req \in [Reqs -> Requests] /\ cfg \in [Wards -> Config] /\ hist \in [Wards -> SUBSET Version]
  BY DEF AddVersion, At, Same, RatesInv
<1>2. /\ r \in Requests /\ r.op \in {"publish", "copy"} /\ Shaped(r) /\ Backed(r) /\ r.want \in Draft
      /\ r.want.cells \in Rates /\ r.want.pct \in Rates
      /\ r.cur \notin mess => Holds(r)
      /\ r.w \notin mess => SourceKept(r)
  <2>1. /\ r \in Requests /\ r.op # "none" /\ Shaped(r) /\ Backed(r) /\ r.want \in Draft
        /\ r.want.cells \in Rates /\ r.want.pct \in Rates
        /\ r.cur \notin mess => Holds(r)
        /\ r.w \notin mess => SourceKept(r)
    BY <1>1, AtWork
  <2> QED
    BY <1>1, <2>1 DEF Shaped, Requests
<1>3. PICK x \in Wards : x = r.cur /\ x \in Targets(r) /\ cfg[x] \in Config
  BY <1>1, AtWork
<1>4. PICK v \in Int : v = NewVersion(r)
  BY <1>1, <1>2, NewVersionTyped
<1>5. PICK row \in Version : row = [ver |-> v, cells |-> r.want.cells, pct |-> r.want.pct]
  BY <1>2 DEF Version
<1>6. row.ver = v /\ RatesOf(row) = r.want
  BY <1>2, <1>5 DEF RatesOf, Draft
<1>7. PICK rows \in SUBSET Version :
         /\ hist' = [hist EXCEPT ![x] = rows] /\ row \in rows
         /\ \A h \in hist[x] : h \in rows \/ h.ver = v
  <2> DEFINE old == IF r.op = "copy" /\ r.st = "PUBLISHED" THEN {h \in hist[r.cur] : h.ver = r.ver} ELSE {}
  <2>1. hist' = [hist EXCEPT ![x] = (IF old = {} THEN @ ELSE @ \ {CHOOSE h \in old : TRUE}) \cup {row}]
    BY <1>3, <1>4, <1>5 DEF AddVersion
  <2>2. old # {} => (CHOOSE h \in old : TRUE).ver = v
    <3>1. old # {} => v = r.ver
      BY <1>4 DEF NewVersion
    <3>2. old # {} => (CHOOSE h \in old : TRUE) \in old
      OBVIOUS
    <3>3. \A h \in old : h.ver = r.ver
      OBVIOUS
    <3> HIDE DEF old
    <3> QED
      BY <3>1, <3>2, <3>3
  <2> DEFINE rows == (IF old = {} THEN hist[x] ELSE hist[x] \ {CHOOSE h \in old : TRUE}) \cup {row}
  <2>3. hist' = [hist EXCEPT ![x] = rows]
    BY <2>1
  <2> HIDE DEF old
  <2>4. rows \in SUBSET Version /\ row \in rows /\ \A h \in hist[x] : h \in rows \/ h.ver = v
    BY <1>1, <1>3, <2>2
  <2> HIDE DEF rows
  <2> QED
    BY <2>3, <2>4
<1>8. /\ hist' \in [Wards -> SUBSET Version] /\ hist'[x] = rows
      /\ \A w \in Wards \ {x} : hist'[w] = hist[w]
  BY <1>1, <1>7
<1>9. \A u : (\E h \in hist[x] : h.ver = u) => \E h \in hist'[x] : h.ver = u
  BY <1>6, <1>7, <1>8
<1>10. PICK n \in Requests : /\ req' = [req EXCEPT ![q] = n] /\ n.pc = "mark" /\ n.op = r.op /\ n.w = r.w
                             /\ n.cur = x /\ n.want = r.want /\ n.st = r.st /\ n.ver = r.ver /\ n.got = r.got
  <2> DEFINE gone == Gone(r, "mark")
  <2>1. req' = [req EXCEPT ![q] = gone]
    BY <1>1 DEF AddVersion, Goto, Gone
  <2>2. /\ gone \in Requests /\ gone.pc = "mark" /\ gone.op = r.op /\ gone.w = r.w /\ gone.cur = r.cur
        /\ gone.want = r.want /\ gone.st = r.st /\ gone.ver = r.ver /\ gone.got = r.got
    BY <1>2, GoesOn DEF Pcs
  <2> HIDE DEF gone
  <2> QED
    BY <1>3, <2>1, <2>2
<1>11. NewVersion(n) = v
  BY <1>4, <1>10 DEF NewVersion
<1>12. Shaped(n)
  BY <1>1, <1>2, <1>3, <1>10 DEF Shaped
<1>13. Backed(n)'
  BY <1>1, <1>2, <1>3, <1>6, <1>7, <1>8, <1>10, <1>11, ZenonT(30) DEF Backed, HasVersion, NewVersion
<1>14. x \notin mess => Holds(n)'
  <2>1. RatesOf(cfg'[x]) = r.want \/ x \in mess
    BY <1>1, <1>2, <1>3 DEF Holds
  <2>2. \E h \in hist'[x] : h.ver = NewVersion(n) /\ RatesOf(h) = n.want
    BY <1>6, <1>7, <1>8, <1>10, <1>11
  <2> QED
    BY <1>2, <1>10, <2>1, <2>2 DEF Holds, NewVersion
<1>15. n.w \notin mess => SourceKept(n)'
  BY <1>1, <1>2, <1>10 DEF SourceKept
<1>16. cfg[x].st = "PUBLISHED" => \E h \in hist'[x] : h.ver = cfg[x].ver
  BY <1>1, <1>3, <1>9, AtWork
<1>17. Changing(n, x)
  BY <1>10 DEF Changing
<1> QED
  BY <1>1, <1>2, <1>3, <1>8, <1>9, <1>10, <1>12, <1>13, <1>14, <1>15, <1>16, <1>17, RequestMoves, ZenonT(30)

LEMMA MarkKeeps ==
    ASSUME RatesInv, NEW q \in Reqs, Mark(q)
    PROVE  RatesInv'
<1> DEFINE r == req[q]
           quietly == r.op = "copy" /\ r.st # "PUBLISHED"
           st == IF quietly THEN cfg[r.cur].st ELSE "PUBLISHED"
           pc == IF quietly THEN "next" ELSE "bill"
           v == NewVersion(r)
           b == [cfg[r.cur] EXCEPT !.ver = v]
           c == [b EXCEPT !.st = st]
<1>1. /\ r.pc = "mark" /\ page' = page /\ mess' = mess /\ hist' = hist
      /\ req \in [Reqs -> Requests] /\ cfg \in [Wards -> Config]
  BY DEF Mark, At, Same, RatesInv
<1>2. /\ r \in Requests /\ r.op # "none" /\ Shaped(r) /\ Backed(r) /\ r.cur \in Wards /\ r.w \in Wards
      /\ cfg[r.cur] \in Config
      /\ r.cur \notin mess => Holds(r)
      /\ r.w \notin mess => SourceKept(r)
  BY <1>1, AtWork
<1>3. cfg' = [cfg EXCEPT ![r.cur] = c] /\ req' = [req EXCEPT ![q] = Gone(r, pc)]
  BY <1>1, <1>2 DEF Mark, Goto, Gone
<1>4. PICK d \in Config : /\ d = c /\ d.st = st /\ d.ver = v
                          /\ d.cells = cfg[r.cur].cells /\ d.pct = cfg[r.cur].pct
  <2>1. v \in Int
    BY <1>1, <1>2, NewVersionTyped
  <2>2. st \in Status
    BY <1>2 DEF Config, Status
  <2> HIDE DEF v, st
  <2>3. b \in Config /\ b.ver = v /\ b.cells = cfg[r.cur].cells /\ b.pct = cfg[r.cur].pct
    BY <1>2, <2>1 DEF Config
  <2> HIDE DEF b
  <2>4. c \in Config /\ c.st = st /\ c.ver = v /\ c.cells = cfg[r.cur].cells /\ c.pct = cfg[r.cur].pct
    BY <2>2, <2>3 DEF Config
  <2> HIDE DEF c
  <2> QED
    BY <2>4
<1>5. pc \in {"next", "bill"} /\ pc \in Pcs /\ (pc = "next" => r.op = "copy")
  BY DEF Pcs
<1>6. PICK n \in Requests : /\ req' = [req EXCEPT ![q] = n] /\ n.pc = pc /\ n.op = r.op /\ n.w = r.w
                            /\ n.cur = r.cur /\ n.want = r.want /\ n.st = r.st
  <2> DEFINE gone == Gone(r, pc)
  <2> HIDE DEF pc
  <2>1. /\ gone \in Requests /\ gone.pc = pc /\ gone.op = r.op /\ gone.w = r.w /\ gone.cur = r.cur
        /\ gone.want = r.want /\ gone.st = r.st
    BY <1>2, <1>5, GoesOn
  <2>2. req' = [req EXCEPT ![q] = gone]
    BY <1>3
  <2> HIDE DEF gone
  <2> QED
    BY <2>1, <2>2
<1> HIDE DEF c, b, v
<1>7. d.st # "none" /\ HasVersion(r.cur, d.ver)
  BY <1>1, <1>2, <1>4 DEF Backed, v
<1>8. cfg'[r.cur] = d
  BY <1>1, <1>2, <1>3, <1>4
<1>9. RatesOf(d) = RatesOf(cfg[r.cur])
  BY <1>4 DEF RatesOf
<1>10. r.cur \notin mess => \E h \in hist[r.cur] : h.ver = d.ver /\ RatesOf(h) = RatesOf(d)
  BY <1>1, <1>2, <1>4, <1>9 DEF Holds, v
<1>11. Shaped(n)
  BY <1>1, <1>2, <1>5, <1>6 DEF Shaped, Requests
<1>12. r.cur \notin mess => Holds(n)'
  <2>1. cfg'[n.cur] = d
    BY <1>6, <1>8
  <2>2. r.cur \notin mess => RatesOf(d) = n.want
    BY <1>1, <1>2, <1>6, <1>9 DEF Holds
  <2>3. n.op \in {"publish", "copy"}
    BY <1>1, <1>2, <1>6 DEF Shaped, Requests
  <2> QED
    BY <1>5, <1>6, <2>1, <2>2, <2>3 DEF Holds
<1>13. n.op = "copy" => /\ n.st = r.st /\ n.pc # "read" /\ r.pc # "read"
                        /\ r.cur = r.w /\ r.w \notin mess => (d.st = "PUBLISHED" <=> n.st = "PUBLISHED")
  BY <1>1, <1>2, <1>4, <1>5, <1>6 DEF SourceKept
<1>14. cfg' = [cfg EXCEPT ![r.cur] = d] /\ n.pc # "mark"
  BY <1>3, <1>4, <1>5, <1>6
<1> HIDE DEF st, pc
<1> QED
  BY <1>1, <1>6, <1>7, <1>10, <1>11, <1>12, <1>13, <1>14, ConfigWritten

LEMMA BillReadKeeps ==
    ASSUME RatesInv, NEW q \in Reqs, BillRead(q)
    PROVE  RatesInv'
<1> DEFINE r == req[q]
           rates == RatesOf(cfg[r.cur])
           gone == Gone(r, "billing")
           n == [gone EXCEPT !.got = {rates}]
<1>1. /\ r.pc = "bill" /\ page' = page /\ mess' = mess /\ cfg' = cfg /\ hist' = hist
      /\ req \in [Reqs -> Requests] /\ req' = [req EXCEPT ![q] = n]
  BY DEF BillRead, At, Same, tables, RatesInv, Gone
<1>2. /\ r \in Requests /\ r.op # "none" /\ Shaped(r) /\ Backed(r) /\ r.cur \in Wards
      /\ cfg[r.cur] \in Config
      /\ r.cur \notin mess => Holds(r)
      /\ r.w \notin mess => SourceKept(r)
  BY <1>1, AtWork
<1>3. rates \in Draft
  BY <1>2 DEF Config, Draft, RatesOf
<1>4. /\ gone \in Requests /\ gone.pc = "billing" /\ gone.op = r.op /\ gone.w = r.w
      /\ gone.cur = r.cur /\ gone.want = r.want /\ gone.st = r.st
  BY <1>2, GoesOn DEF Pcs
<1>5. r.cur \notin mess => rates = r.want
  BY <1>1, <1>2 DEF Holds
<1> HIDE DEF rates, gone
<1>6. /\ n \in Requests /\ n.pc = "billing" /\ n.op = r.op /\ n.w = r.w /\ n.cur = r.cur
      /\ n.want = r.want /\ n.st = r.st /\ n.got = {rates}
  BY <1>3, <1>4 DEF Requests
<1> HIDE DEF n
<1>7. r.cur \notin mess => RatesOf(cfg[r.cur]) = r.want
  BY <1>1, <1>2 DEF Holds
<1>8. n.op \in {"publish", "copy"}
  BY <1>1, <1>2, <1>6 DEF Shaped, Requests
<1>9. /\ Shaped(n) /\ Backed(n) /\ (n.w \notin mess => SourceKept(n))
      /\ n.cur \notin mess => Holds(n)
  BY <1>1, <1>2, <1>5, <1>6, <1>7, <1>8 DEF Shaped, Backed, SourceKept, Holds
<1> QED
  BY <1>1, <1>2, <1>6, <1>9, RequestReads DEF Changing

LEMMA BillWriteKeeps ==
    ASSUME RatesInv, NEW q \in Reqs, BillWrite(q)
    PROVE  RatesInv'
<1> DEFINE r == req[q]
<1>1. /\ r.pc = "billing" /\ page' = page /\ mess' = mess /\ cfg' = cfg /\ hist' = hist
      /\ req \in [Reqs -> Requests]
  BY DEF BillWrite, At, Same, RatesInv
<1>2. CASE r.op = "publish"
  BY <1>1, <1>2, RequestOver DEF BillWrite, Changing
<1>3. CASE r.op # "publish"
  <2> DEFINE n == Gone(r, "next")
  <2>1. /\ r \in Requests /\ r.op # "none" /\ Shaped(r) /\ Backed(r)
        /\ r.w \notin mess => SourceKept(r)
    BY <1>1, AtWork
  <2>2. req' = [req EXCEPT ![q] = n]
    BY <1>1, <1>3 DEF BillWrite, Goto, Gone
  <2>3. n \in Requests /\ n.pc = "next" /\ n.op = r.op /\ n.w = r.w /\ n.cur = r.cur /\ n.st = r.st
    BY <2>1, GoesOn DEF Pcs
  <2> HIDE DEF n
  <2>4. n.op = "copy"
    BY <1>1, <1>3, <2>1, <2>3 DEF Shaped, Requests
  <2>5. Shaped(n) /\ Backed(n) /\ Holds(n) /\ (n.w \notin mess => SourceKept(n))
    BY <1>1, <2>1, <2>3, <2>4 DEF Shaped, Backed, Holds, SourceKept
  <2> QED
    BY <1>1, <2>1, <2>2, <2>3, <2>5, RequestReads DEF Changing
<1> QED
  BY <1>2, <1>3

LEMMA DiesKeeps ==
    ASSUME RatesInv, NEW q \in Reqs, Dies(q)
    PROVE  RatesInv'
<1>1. /\ req[q] # NoReq /\ req' = [req EXCEPT ![q] = NoReq] /\ page' = page /\ cfg' = cfg /\ hist' = hist
      /\ mess' = mess \cup Targets(req[q])
      /\ cfg \in [Wards -> Config] /\ hist \in [Wards -> SUBSET Version] /\ mess \subseteq Wards
  BY DEF Dies, End, tables, RatesInv
<1>2. /\ req[q] \in Requests /\ Shaped(req[q])
      /\ \A w \in Wards : cfg[w].st = "PUBLISHED" => HasVersion(w, cfg[w].ver)
  BY DEF RatesInv
<1>3. req[q].op # "none" /\ req[q].w \in Wards /\ req[q].cur \in Wards
  BY <1>1, <1>2 DEF Shaped, Requests
<1>4. req[q].cur \in Targets(req[q]) /\ Targets(req[q]) \subseteq Wards
  BY <1>2, <1>3, WardsOf DEF Targets
<1>5. Backed(NoReq)'
  BY NoReqTyped DEF Backed
<1>6. PICK x \in Wards : x = req[q].cur /\ x \in Targets(req[q])
  BY <1>3, <1>4
<1>7. PICK n \in Requests : n = NoReq
  BY NoReqTyped
<1>8. Shaped(n) /\ n.op = "none" /\ Backed(n)'
  BY <1>7, NoReqTyped DEF Backed
<1> QED
  BY <1>1, <1>2, <1>3, <1>4, <1>6, <1>7, <1>8, RequestMoves DEF HasVersion

-----------------------------------------------------------------------------
(* The workspaces. *)

LEMMA PageMoves ==
    ASSUME RatesInv, cfg' = cfg, hist' = hist, req' = req, mess' = mess,
           NEW p \in Pages, NEW n \in Workspaces, page' = [page EXCEPT ![p] = n],
           n.seen # {} => cfg[n.ward].st # "none"
    PROVE  RatesInv'
<1>1. page' \in [Pages -> Workspaces] /\ page'[p] = n /\ \A o \in Pages \ {p} : page'[o] = page[o]
  BY DEF RatesInv
<1>2. \A o \in Pages : page'[o].seen # {} => cfg[page'[o].ward].st # "none"
  BY <1>1 DEF RatesInv
<1> QED
  BY <1>1, <1>2 DEF RatesInv, Backed, HasVersion, VersionTells, Holds, SourceKept

(* A request begins: what it shares with another one is noted. *)
LEMMA RequestStarts ==
    ASSUME RatesInv, NEW q \in Reqs, NEW r \in Requests, Begin(q, r), r.op # "none", r.pc = "read",
           r.cur = r.w, cfg[r.w].st # "none", NEW p \in Pages, NEW n \in Workspaces,
           page' = [page EXCEPT ![p] = n], n.seen # {} => cfg[n.ward].st # "none"
    PROVE  RatesInv'
<1>1. /\ req[q] = NoReq /\ req' = [req EXCEPT ![q] = r] /\ cfg' = cfg /\ hist' = hist
      /\ mess' = mess \cup UNION {Targets(r) \cap Targets(req[o]) : o \in Reqs \ {q}}
      /\ req \in [Reqs -> Requests] /\ mess \subseteq Wards
  BY DEF Begin, tables, RatesInv
<1>2. page' \in [Pages -> Workspaces] /\ page'[p] = n /\ \A o \in Pages \ {p} : page'[o] = page[o]
  BY DEF RatesInv
<1>3. \A o \in Pages : page'[o].seen # {} => cfg[page'[o].ward].st # "none"
  BY <1>2 DEF RatesInv
<1>4. req' \in [Reqs -> Requests] /\ req'[q] = r /\ \A o \in Reqs \ {q} : req'[o] = req[o]
  BY <1>1
<1>5. r.w \in Wards /\ Targets(r) \subseteq Wards
  BY DEF Requests, Targets
<1>6. /\ mess \subseteq mess' /\ mess' \subseteq Wards
      /\ \A o \in Reqs \ {q} : Targets(r) \cap Targets(req[o]) \subseteq mess'
  BY <1>1, <1>5
<1>7. Shaped(r) /\ Backed(r) /\ Holds(r) /\ SourceKept(r)
  BY DEF Shaped, Backed, Holds, SourceKept, Requests
<1>8. \A o \in Reqs : Shaped(req'[o]) /\ Backed(req'[o])
  BY <1>4, <1>7 DEF RatesInv
<1>9. \A o, u \in Reqs : o # u => Targets(req'[o]) \cap Targets(req'[u]) \subseteq mess'
  BY <1>4, <1>6 DEF RatesInv
<1>10. \A w \in Wards \ mess' : VersionTells(w) \/ \E o \in Reqs : Changing(req'[o], w)
  <2>1. \A w : ~Changing(NoReq, w)
    BY NoReqTyped DEF Changing
  <2> QED
    BY <1>1, <1>4, <1>6, <2>1 DEF RatesInv
<1>11. \A o \in Reqs : req'[o].op # "none" => /\ req'[o].cur \notin mess' => Holds(req'[o])
                                              /\ req'[o].w \notin mess' => SourceKept(req'[o])
  BY <1>4, <1>6, <1>7 DEF RatesInv
<1> QED
  BY <1>1, <1>2, <1>3, <1>4, <1>6, <1>8, <1>9, <1>10, <1>11
     DEF RatesInv, Backed, HasVersion, VersionTells, Holds, SourceKept

LEMMA RequestMade ==
    ASSUME NEW op \in {"cells", "pct", "publish", "copy"}, NEW p \in Pages, NEW w \in Wards, NEW d \in Draft
    PROVE  /\ Request(op, p, w, d) \in Requests /\ Request(op, p, w, d).op = op
           /\ Request(op, p, w, d).pc = "read" /\ Request(op, p, w, d).w = w /\ Request(op, p, w, d).cur = w
<1> DEFINE i == [NoReq EXCEPT !.op = op]
           j == [i EXCEPT !.pc = "read"]
           k == [j EXCEPT !.page = p]
           l == [k EXCEPT !.w = w]
           m == [l EXCEPT !.cur = w]
           n == [m EXCEPT !.want = d]
<1>1. n = Request(op, p, w, d)
  BY DEF Request
<1>2. i \in Requests /\ i.op = op
  BY NoReqTyped DEF Requests
<1> HIDE DEF i
<1>3. j \in Requests /\ j.op = op /\ j.pc = "read"
  BY <1>2 DEF Requests, Pcs
<1> HIDE DEF j
<1>4. k \in Requests /\ k.op = op /\ k.pc = "read"
  BY <1>3 DEF Requests
<1> HIDE DEF k
<1>5. l \in Requests /\ l.op = op /\ l.pc = "read" /\ l.w = w
  BY <1>4 DEF Requests
<1> HIDE DEF l
<1>6. m \in Requests /\ m.op = op /\ m.pc = "read" /\ m.w = w /\ m.cur = w
  BY <1>5 DEF Requests
<1> HIDE DEF m
<1>7. n \in Requests /\ n.op = op /\ n.pc = "read" /\ n.w = w /\ n.cur = w
  BY <1>6 DEF Requests
<1> HIDE DEF n
<1> QED
  BY <1>1, <1>7

LEMMA PageTyped ==
    ASSUME RatesInv, NEW p \in Pages
    PROVE  /\ page \in [Pages -> Workspaces] /\ page[p] \in Workspaces /\ page[p].ward \in Wards
           /\ page[p].seen \subseteq Config /\ page[p].timer \subseteq Rates /\ page[p].draft \in Draft
           /\ page[p].seen # {} => cfg[page[p].ward].st # "none"
BY DEF RatesInv, Workspaces

LEMMA SelectWardKeeps ==
    ASSUME RatesInv, NEW p \in Pages, NEW w \in Wards, SelectWard(p, w)
    PROVE  RatesInv'
<1> DEFINE m == [page[p] EXCEPT !.ward = w]
           n == [m EXCEPT !.seen = {}]
<1>1. page' = [page EXCEPT ![p] = n] /\ cfg' = cfg /\ hist' = hist /\ req' = req /\ mess' = mess
  BY PageTyped DEF SelectWard, tables
<1>2. m \in Workspaces
  BY PageTyped DEF Workspaces
<1> HIDE DEF m
<1>3. n \in Workspaces /\ n.seen = {}
  BY <1>2 DEF Workspaces
<1> HIDE DEF n
<1> QED
  BY <1>1, <1>3, PageMoves

LEMMA EditCellKeeps ==
    ASSUME RatesInv, NEW p \in Pages, NEW v \in Rates, EditCell(p, v)
    PROVE  RatesInv'
<1> DEFINE d == [page[p].draft EXCEPT !.cells = v]
           m == [page[p] EXCEPT !.draft = d]
           T(s) == IF s.st = "DRAFT" THEN {v} ELSE page[p].timer
<1>1. /\ cfg' = cfg /\ hist' = hist /\ req' = req /\ mess' = mess
      /\ \E s \in page[p].seen : page' = [page EXCEPT ![p] = [m EXCEPT !.timer = T(s)]]
  BY PageTyped DEF EditCell, tables
<1>2. PICK timer \in SUBSET Rates : page' = [page EXCEPT ![p] = [m EXCEPT !.timer = timer]]
  <2>1. \A s : T(s) \in SUBSET Rates
    BY PageTyped
  <2> HIDE DEF T
  <2> QED
    BY <1>1, <2>1
<1> DEFINE n == [m EXCEPT !.timer = timer]
<1>3. d \in Draft
  BY PageTyped DEF Draft
<1> HIDE DEF d
<1>4. m \in Workspaces /\ m.seen = page[p].seen /\ m.ward = page[p].ward
  BY <1>3, PageTyped DEF Workspaces
<1> HIDE DEF m
<1>5. n \in Workspaces /\ n.seen = page[p].seen /\ n.ward = page[p].ward
  BY <1>4 DEF Workspaces
<1>6. page' = [page EXCEPT ![p] = n]
  BY <1>2
<1> HIDE DEF n
<1> QED
  BY <1>1, <1>5, <1>6, PageTyped, PageMoves

LEMMA TimerFiresKeeps ==
    ASSUME RatesInv, NEW p \in Pages, NEW q \in Reqs, TimerFires(p, q)
    PROVE  RatesInv'
<1> DEFINE n == [page[p] EXCEPT !.timer = {}]
<1>1. n \in Workspaces /\ n.seen = page[p].seen /\ n.ward = page[p].ward
  BY PageTyped DEF Workspaces
<1>2. page' = [page EXCEPT ![p] = n]
  BY PageTyped DEF TimerFires
<1> HIDE DEF n
<1>3. CASE page[p].seen = {}
  <2>1. cfg' = cfg /\ hist' = hist /\ req' = req /\ mess' = mess
    BY <1>3 DEF TimerFires, tables
  <2> QED
    BY <1>1, <1>2, <2>1, PageTyped, PageMoves
<1>4. CASE page[p].seen # {}
  <2>1. PICK v \in page[p].timer :
           Begin(q, Request("cells", p, page[p].ward, [page[p].draft EXCEPT !.cells = v]))
    BY <1>4 DEF TimerFires
  <2> DEFINE d == [page[p].draft EXCEPT !.cells = v]
             r == Request("cells", p, page[p].ward, d)
  <2>2. d \in Draft
    BY PageTyped DEF Draft
  <2>3. Begin(q, r)
    BY <2>1
  <2> HIDE DEF d
  <2>4. r \in Requests /\ r.op = "cells" /\ r.pc = "read" /\ r.w = page[p].ward /\ r.cur = page[p].ward
    BY <2>2, PageTyped, RequestMade
  <2> HIDE DEF r
  <2> QED
    BY <1>1, <1>2, <1>4, <2>3, <2>4, PageTyped, RequestStarts
<1> QED
  BY <1>3, <1>4

LEMMA EditPctKeeps ==
    ASSUME RatesInv, NEW p \in Pages, NEW q \in Reqs, NEW v \in Rates, EditPct(p, q, v)
    PROVE  RatesInv'
<1> DEFINE d == [page[p].draft EXCEPT !.pct = v]
           n == [page[p] EXCEPT !.draft = d]
           r == Request("pct", p, page[p].ward, d)
<1>1. page' = [page EXCEPT ![p] = n] /\ page[p].seen # {} /\ (UNCHANGED <<cfg, hist, req, mess>> \/ Begin(q, r))
  BY PageTyped DEF EditPct, tables
<1>2. d \in Draft
  BY PageTyped DEF Draft
<1> HIDE DEF d
<1>3. n \in Workspaces /\ n.seen = page[p].seen /\ n.ward = page[p].ward
  BY <1>2, PageTyped DEF Workspaces
<1>4. r \in Requests /\ r.op = "pct" /\ r.pc = "read" /\ r.w = page[p].ward /\ r.cur = page[p].ward
  BY <1>2, PageTyped, RequestMade
<1> HIDE DEF n, r
<1> QED
  BY <1>1, <1>3, <1>4, PageTyped, PageMoves, RequestStarts

LEMMA AskKeeps ==
    ASSUME RatesInv, NEW p \in Pages, NEW q \in Reqs, AskPublish(p, q) \/ AskCopy(p, q)
    PROVE  RatesInv'
<1>1. PICK op \in {"publish", "copy"} : Begin(q, Request(op, p, page[p].ward, page[p].draft))
  BY DEF AskPublish, AskCopy
<1>2. page' = [page EXCEPT ![p] = page[p]] /\ page[p].seen # {}
  BY PageTyped DEF AskPublish, AskCopy
<1> DEFINE r == Request(op, p, page[p].ward, page[p].draft)
<1>3. Begin(q, r)
  BY <1>1
<1>4. r \in Requests /\ r.op = op /\ r.pc = "read" /\ r.w = page[p].ward /\ r.cur = page[p].ward
  BY PageTyped, RequestMade
<1> HIDE DEF r
<1> QED
  BY <1>2, <1>3, <1>4, PageTyped, RequestStarts

(* Loading a ward may create its configuration. *)
LEMMA LoadKeeps ==
    ASSUME RatesInv, NEW p \in Pages, Load(p)
    PROVE  RatesInv'
<1>1. PICK w \in Wards : w = page[p].ward
  BY PageTyped
<1>2. PICK c \in Config : /\ c = GetOrCreate(w) /\ c.st # "none"
                          /\ cfg[w].st # "none" => c = cfg[w]
                          /\ cfg[w].st = "none" => c.st = "DRAFT"
  BY GetOrCreateTyped
<1> DEFINE fresh == Reset(p, c)
           m == [page[p] EXCEPT !.seen = {c}]
           n == [m EXCEPT !.draft = fresh]
<1>3. /\ cfg' = [cfg EXCEPT ![w] = c] /\ page' = [page EXCEPT ![p] = n]
      /\ hist' = hist /\ req' = req /\ mess' = mess
  BY <1>1, <1>2, PageTyped DEF Load
<1>4. fresh \in Draft
  BY PageTyped DEF Reset, RatesOf, Draft, Config
<1> HIDE DEF fresh
<1>5. m \in Workspaces /\ m.ward = w
  BY <1>1, PageTyped DEF Workspaces
<1> HIDE DEF m
<1>6. n \in Workspaces /\ n.ward = w
  BY <1>4, <1>5 DEF Workspaces
<1> HIDE DEF n
<1>7. /\ cfg' \in [Wards -> Config] /\ cfg'[w] = c /\ \A u \in Wards \ {w} : cfg'[u] = cfg[u]
      /\ hist \in [Wards -> SUBSET Version]
  BY <1>3 DEF RatesInv
<1>8. \A u \in Wards : cfg[u].st # "none" => cfg'[u] = cfg[u]
  BY <1>2, <1>7
<1>9. \A u \in Wards : cfg'[u].st # "none" \/ cfg'[u] = cfg[u]
  BY <1>2, <1>7
<1>10. \A u \in Wards : cfg'[u].st = "PUBLISHED" => cfg'[u] = cfg[u]
  BY <1>2, <1>7
<1>11. page' \in [Pages -> Workspaces] /\ page'[p] = n /\ \A o \in Pages \ {p} : page'[o] = page[o]
  BY <1>3, <1>6, PageTyped
<1>12. \A o \in Pages : page'[o].seen # {} => cfg'[page'[o].ward].st # "none"
  BY <1>2, <1>6, <1>7, <1>9, <1>11, PageTyped
<1>13. \A u \in Wards : cfg'[u].st = "PUBLISHED" => HasVersion(u, cfg[u].ver)'
  BY <1>3, <1>10 DEF RatesInv, HasVersion
<1>14. \A u \in Wards : VersionTells(u) => VersionTells(u)'
  BY <1>3, <1>10 DEF VersionTells
<1>15. ASSUME NEW q \in Reqs
       PROVE  /\ Shaped(req[q]) /\ Backed(req[q])'
              /\ req[q].op # "none" => /\ req[q].cur \notin mess => Holds(req[q])'
                                       /\ req[q].w \notin mess => SourceKept(req[q])'
  <2>1. PICK r \in Requests : r = req[q] /\ r = req'[q]
    BY <1>3 DEF RatesInv
  <2>2. /\ Shaped(r) /\ Backed(r) /\ r.w \in Wards /\ r.cur \in Wards
        /\ r.op # "none" => /\ r.cur \notin mess => Holds(r)
                            /\ r.w \notin mess => SourceKept(r)
    BY <2>1 DEF RatesInv, Requests
  <2>3. Backed(r)'
    BY <1>3, <1>8, <2>2 DEF Backed, HasVersion, NewVersion
  <2>4. r.op # "none" /\ r.w \notin mess => SourceKept(r)'
    BY <1>8, <2>2 DEF Backed, SourceKept
  <2>5. ASSUME r.op # "none", r.cur \notin mess
        PROVE  Holds(r)'
    <3>1. CASE r.pc \in {"read", "next"}
      BY <2>2, <2>5, <3>1 DEF Holds, Shaped, Requests
    <3>2. CASE r.pc \notin {"read", "next"}
      <4>1. cfg'[r.cur] = cfg[r.cur]
        BY <1>8, <2>2, <2>5, <3>2 DEF Backed
      <4> QED
        BY <1>3, <2>2, <2>5, <4>1 DEF Holds, NewVersion
    <3> QED
      BY <3>1, <3>2
  <2> QED
    BY <2>1, <2>2, <2>3, <2>4, <2>5 DEF Backed, HasVersion, NewVersion, Holds, SourceKept
<1> QED
  BY <1>3, <1>7, <1>11, <1>12, <1>13, <1>14, <1>15 DEF RatesInv

LEMMA RatesStep ==
    ASSUME RatesInv, [RatesNext]_rateVars
    PROVE  RatesInv'
<1>1. CASE UNCHANGED rateVars
  BY <1>1 DEF rateVars, RatesInv, Backed, HasVersion, VersionTells, Holds, SourceKept
<1>2. ASSUME NEW q \in Reqs, Api(q)
      PROVE  RatesInv'
  BY <1>2, CheckDraftKeeps, ReadConfigKeeps, CopyReadKeeps, CopyNextKeeps, WriteCellsKeeps, WriteParamsKeeps,
     RereadKeeps, AddVersionKeeps, MarkKeeps, BillReadKeeps, BillWriteKeeps, DiesKeeps DEF Api
<1>3. ASSUME NEW p \in Pages, Workspace(p)
      PROVE  RatesInv'
  BY <1>3, LoadKeeps, SelectWardKeeps, EditCellKeeps, TimerFiresKeeps, EditPctKeeps, AskKeeps DEF Workspace
<1> QED
  BY <1>1, <1>2, <1>3 DEF RatesNext

LEMMA RatesStart == RatesInit => RatesInv
<1> SUFFICES ASSUME RatesInit
             PROVE  RatesInv
  OBVIOUS
<1> DEFINE zero == [cells |-> 0, pct |-> 0]
           first == [ver |-> 1, cells |-> 0, pct |-> 0]
           C(s) == [st |-> s, ver |-> 1, cells |-> 0, pct |-> 0]
           P(w) == [ward |-> w, seen |-> {}, timer |-> {}, draft |-> zero]
<1>1. /\ zero \in Draft /\ first \in Version /\ first.ver = 1 /\ RatesOf(first) = zero
      /\ \A s \in Status : C(s) \in Config /\ C(s).st = s /\ C(s).ver = 1 /\ RatesOf(C(s)) = zero
  BY RatesConstants DEF Draft, Version, Config, RatesOf
<1>2. \A w \in Wards : P(w) \in Workspaces /\ P(w).seen = {}
  BY <1>1 DEF Workspaces
<1>3. PICK old \in SUBSET Wards :
         /\ cfg = [w \in Wards |-> C(IF w \in old THEN "PUBLISHED" ELSE "none")]
         /\ hist = [w \in Wards |-> IF w \in old THEN {first} ELSE {}]
  BY DEF RatesInit
<1>4. page \in [Pages -> {P(w) : w \in Wards}] /\ req = [q \in Reqs |-> NoReq] /\ mess = {}
  BY DEF RatesInit
<1> HIDE DEF zero, first, C, P
<1>5. \A w \in Wards : (IF w \in old THEN "PUBLISHED" ELSE "none") \in Status
  BY DEF Status
<1>6. cfg \in [Wards -> Config] /\ hist \in [Wards -> SUBSET Version]
  BY <1>1, <1>3, <1>5
<1>7. page \in [Pages -> Workspaces] /\ \A p \in Pages : page[p].seen = {}
  BY <1>2, <1>4
<1>8. \A w \in Wards : cfg[w].st = "PUBLISHED" => HasVersion(w, cfg[w].ver) /\ VersionTells(w)
  BY <1>1, <1>3, <1>5 DEF HasVersion, VersionTells, Status
<1>9. \A w \in Wards : VersionTells(w)
  BY <1>8 DEF VersionTells
<1>10. req \in [Reqs -> Requests] /\ \A q \in Reqs : req[q] = NoReq
  BY <1>4, NoReqTyped
<1>11. Shaped(NoReq) /\ Backed(NoReq) /\ Targets(NoReq) = {}
  BY NoReqTyped DEF Backed, Targets
<1> QED
  BY <1>4, <1>6, <1>7, <1>8, <1>9, <1>10, <1>11, NoReqTyped DEF RatesInv

(* The inductive invariant of configurations, versions, requests and workspaces. *)
THEOREM RatesInvariance == RatesSpec => []RatesInv
<1> QED
  BY RatesStart, RatesStep, PTL DEF RatesSpec

(* A published configuration carries a version that its history has a row  *)
(* of; where no two requests overlapped and none died, that row says what  *)
(* the configuration says (publish, copyToAllWards, updateParams).         *)
THEOREM VersionsTell == RatesSpec => []RatesAreVersioned
<1>1. RatesInv => RatesAreVersioned
  <2> SUFFICES ASSUME RatesInv, NEW w \in Wards, cfg[w].st = "PUBLISHED"
               PROVE  \E h \in hist[w] : h.ver = cfg[w].ver /\ (Settled(w) => RatesOf(h) = RatesOf(cfg[w]))
    BY DEF RatesAreVersioned
  <2>1. HasVersion(w, cfg[w].ver)
    BY DEF RatesInv
  <2>2. ASSUME Settled(w)
        PROVE  VersionTells(w)
    <3>1. ASSUME NEW q \in Reqs, Changing(req[q], w)
          PROVE  FALSE
      <4>1. req[q].pc # "idle"
        BY <3>1 DEF Changing
      <4>2. req[q].cur \in Targets(req[q])
        BY <4>1, AtWork
      <4> QED
        BY <2>2, <3>1, <4>2 DEF Changing, Settled
    <3> QED
      BY <2>2, <3>1 DEF RatesInv, Settled
  <2> QED
    BY <2>1, <2>2 DEF HasVersion, VersionTells
<1> QED
  BY <1>1, RatesInvariance, PTL

-----------------------------------------------------------------------------
(* What a step may do to another request and to the bills. *)

BillsHeld == bill = [w \in Wards |-> bill[w]]

LEMMA BillsHeldStart == RatesInit => BillsHeld
<1> SUFFICES ASSUME RatesInit
             PROVE  BillsHeld
  OBVIOUS
<1>1. PICK old \in SUBSET Wards : bill = [w \in Wards |-> IF w \in old THEN {[cells |-> 0, pct |-> 0]} ELSE {}]
  BY DEF RatesInit
<1> QED
  BY <1>1 DEF BillsHeld

LEMMA WorkspaceBillsNothing ==
    ASSUME NEW p \in Pages, Workspace(p)
    PROVE  bill' = bill
BY DEF Workspace, Load, SelectWard, EditCell, TimerFires, EditPct, AskPublish, AskCopy, Begin, tables

LEMMA OthersBillNothing ==
    ASSUME NEW q \in Reqs, Api(q), ~BillWrite(q)
    PROVE  bill' = bill
<1>1. CASE CheckDraft(q) \/ ReadConfig(q) \/ CopyRead(q) \/ Reread(q) \/ BillRead(q) \/ Dies(q)
  BY <1>1 DEF CheckDraft, ReadConfig, CopyRead, Reread, BillRead, Dies, tables
<1>2. CASE CopyNext(q)
  BY <1>2 DEF CopyNext, tables
<1>3. CASE WriteCells(q) \/ WriteParams(q) \/ AddVersion(q) \/ Mark(q)
  BY <1>3 DEF WriteCells, WriteParams, AddVersion, Mark
<1> QED
  BY <1>1, <1>2, <1>3 DEF Api

LEMMA BillsHeldStep == BillsHeld /\ [RatesNext]_rateVars => BillsHeld'
<1> SUFFICES ASSUME BillsHeld, [RatesNext]_rateVars
             PROVE  BillsHeld'
  OBVIOUS
<1>1. CASE bill' = bill
  BY <1>1 DEF BillsHeld
<1>2. ASSUME NEW q \in Reqs, BillWrite(q)
      PROVE  BillsHeld'
  <2>1. bill' = [bill EXCEPT ![req[q].cur] = req[q].got]
    BY <1>2 DEF BillWrite
  <2> QED
    BY <2>1 DEF BillsHeld
<1> QED
  BY <1>1, <1>2, WorkspaceBillsNothing, OthersBillNothing DEF RatesNext, rateVars

LEMMA OthersStay ==
    ASSUME RatesInv, NEW o \in Reqs, NEW q \in Reqs \ {o}, Api(o)
    PROVE  req'[q] = req[q]
<1>1. req \in [Reqs -> Requests]
  BY DEF RatesInv
<1>2. CASE CheckDraft(o) \/ Dies(o) \/ WriteCells(o) \/ AddVersion(o) \/ Mark(o) \/ BillWrite(o)
  BY <1>1, <1>2 DEF CheckDraft, Dies, WriteCells, AddVersion, Mark, BillWrite, Goto, End
<1>3. CASE ReadConfig(o)
  BY <1>1, <1>3 DEF ReadConfig, Goto
<1>4. CASE CopyRead(o)
  BY <1>1, <1>4 DEF CopyRead
<1>5. CASE CopyNext(o)
  BY <1>1, <1>5 DEF CopyNext, End
<1>6. CASE WriteParams(o)
  <2> DEFINE r == req[o]
             target == CHOOSE g \in r.got : TRUE
             n == [r EXCEPT !.pc = "version", !.got = {[target EXCEPT !.ver = @ + 1]}]
  <2>1. req[o].op \in {"pct", "publish", "copy"}
    BY <1>6, AtWork DEF WriteParams, At, Shaped, Requests
  <2>2. CASE r.op # "copy"
    BY <1>1, <1>6, <2>1, <2>2 DEF WriteParams, Goto, End
  <2>3. CASE r.op = "copy" /\ (r.st = "PUBLISHED" \/ target.st # "PUBLISHED")
    BY <1>1, <1>6, <2>3 DEF WriteParams, Goto, End
  <2>4. CASE r.op = "copy" /\ r.st # "PUBLISHED" /\ target.st = "PUBLISHED"
    <3>1. req' = [req EXCEPT ![o] = n]
      BY <1>6, <2>4, Zenon DEF WriteParams
    <3> HIDE DEF n
    <3> QED
      BY <1>1, <3>1
  <2> QED
    BY <2>1, <2>2, <2>3, <2>4
<1>7. CASE Reread(o)
  BY <1>1, <1>7 DEF Reread
<1>8. CASE BillRead(o)
  BY <1>1, <1>8 DEF BillRead
<1> QED
  BY <1>2, <1>3, <1>4, <1>5, <1>6, <1>7, <1>8 DEF Api

LEMMA WorkspaceLeavesWork ==
    ASSUME RatesInv, NEW p \in Pages, Workspace(p), NEW q \in Reqs, req[q].pc # "idle"
    PROVE  req'[q] = req[q]
<1>1. ASSUME NEW o \in Reqs, NEW r, Begin(o, r)
      PROVE  req'[q] = req[q]
  BY <1>1, NoReqTyped DEF Begin, RatesInv
<1>2. ASSUME NEW o \in Reqs, TimerFires(p, o)
      PROVE  req'[q] = req[q]
  BY <1>1, <1>2 DEF TimerFires
<1>3. ASSUME NEW o \in Reqs, AskPublish(p, o) \/ AskCopy(p, o)
      PROVE  req'[q] = req[q]
  BY <1>1, <1>3 DEF AskPublish, AskCopy
<1>4. ASSUME NEW o \in Reqs, NEW v \in Rates, EditPct(p, o, v)
      PROVE  req'[q] = req[q]
  BY <1>1, <1>4 DEF EditPct
<1>5. CASE Load(p) \/ (\E w \in Wards : SelectWard(p, w)) \/ (\E v \in Rates : EditCell(p, v))
  BY <1>5 DEF Load, SelectWard, EditCell
<1> QED
  BY <1>2, <1>3, <1>4, <1>5 DEF Workspace

(* A publish, or a copy from a published ward, that is done with a ward    *)
(* undisturbed has billed it, and left it configured, at the rates that    *)
(* the workspace showed when the button was pressed.                       *)
THEOREM BillsAsShown == RatesSpec => BilledAsShown
<1>1. RatesInv /\ BillsHeld /\ [RatesNext]_rateVars =>
        [\A q \in Reqs :
           LET r == req[q] IN
           At(q, "billing") /\ req'[q].pc # "billing" /\ Targets(r) \cap mess' = {} =>
               bill'[r.cur] = {r.want} /\ RatesOf(cfg'[r.cur]) = r.want]_rateVars
  <2> SUFFICES ASSUME RatesInv, BillsHeld, RatesNext, NEW q \in Reqs, req[q].pc = "billing", req'[q].pc # "billing",
                      Targets(req[q]) \cap mess' = {}
               PROVE  bill'[req[q].cur] = {req[q].want} /\ RatesOf(cfg'[req[q].cur]) = req[q].want
    BY DEF At
  <2>1. /\ req[q].cur \in Wards /\ req[q].cur \in Targets(req[q]) /\ req[q].op # "none"
        /\ req[q].cur \notin mess => Holds(req[q])
    BY AtWork
  <2>2. BillWrite(q)
    <3>1. ASSUME NEW p \in Pages, Workspace(p)
          PROVE  FALSE
      BY <3>1, WorkspaceLeavesWork
    <3>2. PICK o \in Reqs : Api(o)
      BY <3>1 DEF RatesNext
    <3>3. Api(q)
      BY <3>2, OthersStay
    <3>4. ~Dies(q)
      BY <2>1 DEF Dies
    <3> QED
      BY <3>3, <3>4
         DEF Api, CheckDraft, ReadConfig, CopyRead, CopyNext, WriteCells, WriteParams, Reread, AddVersion,
             Mark, BillRead, At
  <2>3. mess' = mess /\ cfg' = cfg /\ bill' = [bill EXCEPT ![req[q].cur] = req[q].got]
    BY <2>2 DEF BillWrite, Same
  <2>4. Holds(req[q])
    BY <2>1, <2>3
  <2>5. req[q].got = {req[q].want} /\ RatesOf(cfg[req[q].cur]) = req[q].want
    BY <2>4 DEF Holds
  <2>6. bill'[req[q].cur] = req[q].got
    BY <2>1, <2>3 DEF BillsHeld
  <2>7. RatesOf(cfg'[req[q].cur]) = RatesOf(cfg[req[q].cur])
    BY <2>3
  <2> QED
    BY <2>5, <2>6, <2>7
<1>2. RatesSpec => []BillsHeld
  BY BillsHeldStart, BillsHeldStep, PTL DEF RatesSpec
<1> QED
  BY <1>1, <1>2, RatesInvariance, PTL DEF RatesSpec, BilledAsShown

-----------------------------------------------------------------------------
(* The papers of one property: the calculation gives natural amounts.      *)

LEMMA TotalIsSum == \A f : Total(f) = SumOver(f, DOMAIN f)
BY DEF Total, SumOver

LEMMA ListOf ==
    ASSUME NEW T, NEW s \in Seq(T)
    PROVE  /\ DOMAIN s = 1..Len(s) /\ Len(s) \in Nat
           /\ \A i \in DOMAIN s : s[i] \in T
OBVIOUS

LEMMA CellsAre ==
    ASSUME NEW tab \in TaxTable
    PROVE  /\ \A i \in DOMAIN tab.cells : tab.cells[i].rate \in Nat
           /\ DOMAIN tab.cells = 1..Len(tab.cells) /\ Len(tab.cells) \in Nat
<1> DEFINE T == [con : STRING, rate : Nat]
<1>1. tab.cells \in Seq(T)
  BY DEF TaxTable
<1>2. \A t \in T : t.rate \in Nat
  OBVIOUS
<1> HIDE DEF T
<1>3. /\ DOMAIN tab.cells = 1..Len(tab.cells) /\ Len(tab.cells) \in Nat
      /\ \A i \in DOMAIN tab.cells : tab.cells[i] \in T
  BY <1>1, ListOf
<1> QED
  BY <1>2, <1>3

LEMMA PortionIs ==
    ASSUME NEW amount \in Nat, NEW pct \in Nat
    PROVE  Portion(amount, pct) \in Nat
<1> DEFINE a == amount * pct
<1>1. a \in Nat
  OBVIOUS
<1>2. 2 * amount * pct = 2 * a
  OBVIOUS
<1> HIDE DEF a
<1>3. (2 * a + 100) \div 200 \in Nat
  BY <1>1
<1> QED
  BY <1>2, <1>3 DEF Portion

LEMMA NothingOfNothing ==
    ASSUME NEW pct \in Nat
    PROVE  Portion(0, pct) = 0
<1>1. 2 * 0 * pct = 0
  OBVIOUS
<1>2. (0 + 100) \div 200 = 0
  OBVIOUS
<1> QED
  BY <1>1, <1>2 DEF Portion

LEMMA BaseRateIs ==
    ASSUME NEW tab \in TaxTable, NEW con
    PROVE  BaseRate(tab, con) \in Nat
<1> DEFINE cells == tab.cells
           codes == {cells[i].con : i \in DOMAIN cells}
           at(c) == CHOOSE i \in DOMAIN cells : cells[i].con = c
           rate == [c \in codes |-> cells[at(c)].rate]
<1>1. \A i \in DOMAIN cells : cells[i].rate \in Nat
  BY CellsAre
<1>2. \A c \in codes : at(c) \in DOMAIN cells
  OBVIOUS
<1>3. \A c \in codes : rate[c] \in Nat
  BY <1>1, <1>2
<1>4. BaseRate(tab, con) = RateOr(rate, con, 0)
  BY DEF BaseRate, RateTable
<1> HIDE DEF rate, codes
<1>5. DOMAIN rate = codes
  BY DEF rate
<1> QED
  BY <1>3, <1>4, <1>5 DEF RateOr

LEMMA PlotRateIs ==
    ASSUME NEW tab \in TaxTable
    PROVE  PlotRate(tab) \in Nat
<1> DEFINE cells == tab.cells
           codes == {cells[i].con : i \in DOMAIN cells}
           at(c) == CHOOSE i \in DOMAIN cells : cells[i].con = c
           rate == [c \in codes |-> cells[at(c)].rate]
           paying == {i \in DOMAIN cells : cells[i].rate > 0}
           any == IF paying = {} THEN 0 ELSE cells[Min(paying)].rate
<1>1. /\ \A i \in DOMAIN cells : cells[i].rate \in Nat
      /\ DOMAIN cells = 1..Len(cells) /\ Len(cells) \in Nat
  BY CellsAre
<1>2. \A c \in codes : at(c) \in DOMAIN cells
  OBVIOUS
<1>3. \A c \in codes : rate[c] \in Nat
  BY <1>1, <1>2
<1>4. any \in Nat
  <2>1. CASE paying = {}
    BY <2>1
  <2>2. CASE paying # {}
    <3>1. IsFiniteSet(paying) /\ paying \subseteq Int
      <4>1. paying \subseteq 1..Len(cells)
        BY <1>1
      <4>2. IsFiniteSet(1..Len(cells))
        BY <1>1, Interval
      <4>3. 1..Len(cells) \subseteq Int
        BY <1>1
      <4> DEFINE N == 1..Len(cells)
      <4> HIDE DEF paying, N
      <4> QED
        BY <4>1, <4>2, <4>3, FS_Subset DEF N
    <3>2. Min(paying) \in paying
      <4> HIDE DEF paying
      <4> QED
        BY <2>2, <3>1, MinIs
    <3> QED
      BY <1>1, <2>2, <3>2
  <2> QED
    BY <2>1, <2>2
<1>5. PlotRate(tab) = RateOr(rate, "open", any)
  BY DEF PlotRate, OpenRate, RateTable
<1> HIDE DEF rate, codes, any
<1>6. DOMAIN rate = codes
  BY DEF rate
<1> QED
  BY <1>3, <1>4, <1>5, <1>6 DEF RateOr

LEMMA PctIs ==
    ASSUME NEW tab \in TaxTable, NEW gis, NEW use, NEW floorUse
    PROVE  AssessablePct(gis, use, floorUse, tab) \in Nat
BY DEF AssessablePct, TaxTable

LEMMA MultIs == \A gis, use, floorUse : UsageRateMult(gis, use, floorUse) \in {1, 2}
BY DEF UsageRateMult

FloorAmounts == [alv : Nat, tax : Nat]

LEMMA FloorAlvIs ==
    ASSUME NEW tab \in TaxTable, NEW area \in Nat, NEW rate \in Nat, NEW pct \in Nat
    PROVE  /\ FloorAlv(area, rate, pct, tab) \in FloorAmounts
           /\ rate = 0 \/ area = 0 => FloorAlv(area, rate, pct, tab) = [alv |-> 0, tax |-> 0]
<1> DEFINE whole == area * rate * 12
           alv == Portion(whole, pct)
<1>1. tab.propertyPct \in Nat
  BY DEF TaxTable
<1>2. whole \in Nat /\ (rate = 0 \/ area = 0 => whole = 0)
  <2> DEFINE n == area * rate
  <2>1. n \in Nat /\ (rate = 0 \/ area = 0 => n = 0)
    OBVIOUS
  <2> HIDE DEF n
  <2>2. n * 12 \in Nat /\ (n = 0 => n * 12 = 0)
    BY <2>1
  <2> QED
    BY <2>1, <2>2 DEF n
<1> HIDE DEF whole
<1>3. alv \in Nat /\ Portion(alv, tab.propertyPct) \in Nat
  BY <1>1, <1>2, PortionIs
<1>4. FloorAlv(area, rate, pct, tab) = [alv |-> alv, tax |-> Portion(alv, tab.propertyPct)]
  BY DEF FloorAlv, AlvTax, whole
<1>5. rate = 0 \/ area = 0 => alv = 0 /\ Portion(alv, tab.propertyPct) = 0
  BY <1>1, <1>2, NothingOfNothing
<1> HIDE DEF alv
<1> QED
  BY <1>3, <1>4, <1>5 DEF FloorAmounts

LEMMA FloorTaxIs ==
    ASSUME NEW tab \in TaxTable, NEW h, NEW floor, floor.area \in Nat
    PROVE  /\ FloorTax(h, floor, tab) \in FloorAmounts
           /\ FloorTax(h, floor, tab)
                = FloorAlv(floor.area, LineRate(h, floor, tab),
                           AssessablePct(h.gis, h.use, floor.use, tab), tab)
<1> DEFINE rate == BaseRate(tab, floor.con)
           mult == UsageRateMult(h.gis, h.use, floor.use)
           pct == AssessablePct(h.gis, h.use, floor.use, tab)
<1>1. rate \in Nat /\ mult \in {1, 2} /\ pct \in Nat
  BY BaseRateIs, MultIs, PctIs
<1>2. /\ FloorTax(h, floor, tab) = IF rate = 0 THEN [alv |-> 0, tax |-> 0]
                                   ELSE FloorAlv(floor.area, rate * mult, pct, tab)
      /\ LineRate(h, floor, tab) = rate * mult
  BY DEF FloorTax, TaxAtRate, LineRate
<1> HIDE DEF rate, mult
<1>3. rate * mult \in Nat /\ (rate = 0 => rate * mult = 0)
  BY <1>1
<1>4. FloorAlv(floor.area, rate * mult, pct, tab) \in FloorAmounts
  BY <1>1, <1>3, FloorAlvIs
<1>5. rate = 0 => FloorAlv(floor.area, rate * mult, pct, tab) = [alv |-> 0, tax |-> 0]
  BY <1>1, <1>3, FloorAlvIs
<1> HIDE DEF pct
<1> QED
  BY <1>2, <1>4, <1>5 DEF pct

\* The heads of a bill, which add up to its total
Billed == [property : Nat, water : Nat, drainage : Nat, penalty : Nat, total : Nat]
HeadsAddUp(tax) == tax.total = tax.property + tax.water + tax.drainage + tax.penalty

LEMMA DemandTotalsAre ==
    ASSUME NEW tab \in TaxTable, NEW alv \in Nat, NEW property \in Nat, NEW serviced \in BOOLEAN
    PROVE  /\ DemandTotals(alv, property, tab, serviced) \in Billed
           /\ HeadsAddUp(DemandTotals(alv, property, tab, serviced))
           /\ DemandTotals(alv, property, tab, serviced).property = property
<1> DEFINE water == IF serviced THEN Portion(alv, tab.waterPct) ELSE 0
           drainage == IF serviced THEN Portion(alv, tab.drainagePct) ELSE 0
           penalty == Portion(property, tab.penaltyPct)
           total == property + water + drainage + penalty
<1>1. tab.waterPct \in Nat /\ tab.drainagePct \in Nat /\ tab.penaltyPct \in Nat
  BY DEF TaxTable
<1>2. water \in Nat /\ drainage \in Nat /\ penalty \in Nat
  BY <1>1, PortionIs
<1>3. DemandTotals(alv, property, tab, serviced)
        = [property |-> property, water |-> water, drainage |-> drainage, penalty |-> penalty,
           total |-> total]
  BY DEF DemandTotals
<1> HIDE DEF water, drainage, penalty
<1>4. total \in Nat
  BY <1>2
<1> QED
  BY <1>2, <1>3, <1>4 DEF Billed, HeadsAddUp

LEMMA HoldingIs ==
    ASSUME NEW h \in SurveyRow
    PROVE  /\ IsFiniteSet(DOMAIN h.floors) /\ DOMAIN h.floors = 1..Len(h.floors)
           /\ Len(h.floors) \in Nat
           /\ \A i \in DOMAIN h.floors : h.floors[i].area \in Nat
           /\ h.plot \in Nat /\ h.built \in Nat /\ PlotArea(h) \in Nat
<1>1. /\ DOMAIN h.floors = 1..Len(h.floors) /\ Len(h.floors) \in Nat
      /\ \A i \in DOMAIN h.floors : h.floors[i].area \in Nat
  <2> DEFINE T == [area : Nat, use : SUBSET STRING, con : STRING]
  <2>1. h.floors \in Seq(T)
    BY DEF SurveyRow
  <2>2. \A t \in T : t.area \in Nat
    OBVIOUS
  <2> HIDE DEF T
  <2>3. /\ DOMAIN h.floors = 1..Len(h.floors) /\ Len(h.floors) \in Nat
        /\ \A i \in DOMAIN h.floors : h.floors[i] \in T
    BY <2>1, ListOf
  <2> QED
    BY <2>2, <2>3
<1>3. h.plot \in Nat /\ h.built \in Nat
  BY DEF SurveyRow
<1>2. IsFiniteSet(1..Len(h.floors))
  BY <1>1, Interval
<1> QED
  BY <1>1, <1>2, <1>3 DEF PlotArea

\* The amounts of the floors, their sum, and what is taxed
Floors(h, tab) == [i \in DOMAIN h.floors |-> FloorTax(h, h.floors[i], tab)]
FloorSum(h, tab) == SumFloors(Floors(h, tab))
Taxed(h, tab) == Base(h, tab, PlotRate(tab), FloorSum(h, tab))

LEMMA FloorSumIs ==
    ASSUME NEW tab \in TaxTable, NEW h \in SurveyRow
    PROVE  FloorSum(h, tab) \in FloorAmounts
<1> DEFINE D == DOMAIN h.floors
           fs == Floors(h, tab)
           alvs == [i \in D |-> fs[i].alv]
           taxes == [i \in D |-> fs[i].tax]
<1>1. IsFiniteSet(D)
  BY HoldingIs
<1>2. \A i \in D : fs[i] \in FloorAmounts
  BY HoldingIs, FloorTaxIs DEF Floors
<1>3. FloorSum(h, tab) = [alv |-> SumOver(alvs, D), tax |-> SumOver(taxes, D)]
  <2>1. DOMAIN fs = D
    BY DEF Floors
  <2>2. FloorSum(h, tab) = [alv |-> Total(alvs), tax |-> Total(taxes)]
    BY <2>1 DEF FloorSum, SumFloors
  <2> QED
    BY <2>2, TotalIsSum
<1> HIDE DEF D, fs
<1>4. \A i \in D : alvs[i] \in Nat /\ taxes[i] \in Nat
  BY <1>2 DEF FloorAmounts
<1> HIDE DEF alvs, taxes
<1>5. SumOver(alvs, D) \in Nat /\ SumOver(taxes, D) \in Nat
  BY <1>1, <1>4, SumNat
<1> QED
  BY <1>3, <1>5 DEF FloorAmounts

LEMMA TaxedIs ==
    ASSUME NEW tab \in TaxTable, NEW h \in SurveyRow
    PROVE  Taxed(h, tab) \in FloorAmounts
<1>1. FloorSum(h, tab) \in FloorAmounts /\ PlotRate(tab) \in Nat /\ PlotArea(h) \in Nat
  BY FloorSumIs, PlotRateIs, HoldingIs
<1>2. FloorAlv(PlotArea(h), PlotRate(tab), AssessablePct(h.gis, h.use, {}, tab), tab) \in FloorAmounts
  BY <1>1, PctIs, FloorAlvIs
<1> QED
  BY <1>1, <1>2 DEF Taxed, Base

LEMMA SurveyTaxIs ==
    ASSUME NEW tab \in TaxTable, NEW h \in SurveyRow
    PROVE  SurveyTax(h, tab) \in Billed /\ HeadsAddUp(SurveyTax(h, tab))
<1> DEFINE base == Taxed(h, tab)
           rate == PlotRate(tab)
           plot == FloorAlv(h.plot, rate, 100, tab)
<1>1. SurveyTax(h, tab) = Bill(h, tab, rate, base)
  BY DEF SurveyTax, Taxed, FloorSum, Floors
<1>2. base \in FloorAmounts /\ rate \in Nat /\ h.plot \in Nat
  BY TaxedIs, PlotRateIs, HoldingIs
<1>3. plot \in FloorAmounts
  BY <1>2, FloorAlvIs
<1> HIDE DEF base, rate, plot
<1>4. base.alv \in Nat /\ base.tax \in Nat /\ plot.tax \in Nat /\ 0 \in Nat
  BY <1>2, <1>3 DEF FloorAmounts
<1>5. \/ SurveyTax(h, tab) = DemandTotals(base.alv, base.tax, tab, TRUE)
      \/ SurveyTax(h, tab) = DemandTotals(0, plot.tax, tab, FALSE)
      \/ SurveyTax(h, tab) = DemandTotals(0, base.tax, tab, FALSE)
  BY <1>1 DEF Bill, plot
<1> QED
  <2> DEFINE Fits(tax) == tax \in Billed /\ HeadsAddUp(tax)
  <2>1. \A alv, property \in Nat, serviced \in BOOLEAN :
           Fits(DemandTotals(alv, property, tab, serviced))
    BY DemandTotalsAre
  <2> HIDE DEF Fits
  <2>2. Fits(SurveyTax(h, tab))
    BY <1>4, <1>5, <2>1
  <2> QED
    BY <2>2 DEF Fits

-----------------------------------------------------------------------------
(* The papers of one bill.                                                 *)

\* Some floor of the survey has an area
Built(h) == ~OpenLand(h) /\ \E i \in DOMAIN h.floors : h.floors[i].area > 0

LEMMA EmptyList == ASSUME NEW s PROVE s = <<>> => DOMAIN s = {}
OBVIOUS

LEMMA PropertyOfBuilt ==
    ASSUME NEW tab \in TaxTable, NEW h \in SurveyRow, Built(h)
    PROVE  /\ SurveyTax(h, tab).property = FloorSum(h, tab).tax
           /\ SurveyTax(h, tab) = DemandTotals(FloorSum(h, tab).alv, FloorSum(h, tab).tax, tab, TRUE)
<1> DEFINE sum == FloorSum(h, tab)
<1>1. Taxed(h, tab) = sum
  <2>1. ~\A i \in DOMAIN h.floors : h.floors[i].area = 0
    BY HoldingIs DEF Built
  <2> QED
    BY <2>1 DEF Taxed, Base
<1>2. SurveyTax(h, tab) = Bill(h, tab, PlotRate(tab), Taxed(h, tab))
  BY DEF SurveyTax, Taxed, FloorSum, Floors
<1>3. SurveyTax(h, tab) = DemandTotals(sum.alv, sum.tax, tab, TRUE)
  BY <1>1, <1>2 DEF Bill, Built
<1>4. sum \in FloorAmounts
  BY FloorSumIs
<1> HIDE DEF sum
<1>5. sum.alv \in Nat /\ sum.tax \in Nat
  BY <1>4 DEF FloorAmounts
<1>6. DemandTotals(sum.alv, sum.tax, tab, TRUE).property = sum.tax
  BY <1>5, DemandTotalsAre
<1> QED
  BY <1>3, <1>6 DEF sum

(* The tax column under the floors of a built property, and the one line of *)
(* open land, add up to the property tax. *)
LEMMA LinesAddUp ==
    ASSUME NEW tab \in TaxTable, NEW h \in SurveyRow,
           Built(h) \/ (OpenLand(h) /\ h.floors = <<>>)
    PROVE  Total(NoticeLines(h, tab)) = SurveyTax(h, tab).property
<1>1. CASE Built(h)
  <2> DEFINE D == DOMAIN h.floors
             taxes == [i \in D |-> Floors(h, tab)[i].tax]
  <2>1. h.floors # <<>>
    BY <1>1, EmptyList DEF Built
  <2>2. NoticeLines(h, tab) = taxes
    <3>1. \A i \in D : Floors(h, tab)[i]
              = FloorAlv(h.floors[i].area, LineRate(h, h.floors[i], tab),
                         AssessablePct(h.gis, h.use, h.floors[i].use, tab), tab)
      BY HoldingIs, FloorTaxIs DEF Floors
    <3>2. NoticeLines(h, tab) = [i \in D |->
             FloorAlv(h.floors[i].area, LineRate(h, h.floors[i], tab),
                      AssessablePct(h.gis, h.use, h.floors[i].use, tab), tab).tax]
      BY <2>1 DEF NoticeLines
    <3> QED
      BY <3>1, <3>2
  <2>3. FloorSum(h, tab).tax = Total(taxes)
    <3>1. DOMAIN Floors(h, tab) = D
      BY DEF Floors
    <3> QED
      BY <3>1 DEF FloorSum, SumFloors
  <2> QED
    BY <1>1, <2>2, <2>3, PropertyOfBuilt
<1>2. CASE OpenLand(h) /\ h.floors = <<>>
  <2> DEFINE rate == PlotRate(tab)
             line == FloorAlv(PlotArea(h), rate, 100, tab)
             sum == FloorSum(h, tab)
             zero == [alv |-> 0, tax |-> 0]
  <2>1. Total(NoticeLines(h, tab)) = line.tax
    <3>1. NoticeLines(h, tab) = <<line.tax>>
      BY <1>2 DEF NoticeLines
    <3>2. line.tax \in Int
      <4>1. line \in FloorAmounts
        BY FloorAlvIs, PlotRateIs, HoldingIs
      <4> HIDE DEF line
      <4> QED
        BY <4>1 DEF FloorAmounts
    <3> HIDE DEF line
    <3> DEFINE lines == <<line.tax>>
    <3>3. DOMAIN lines = {1} /\ lines[1] = line.tax
      OBVIOUS
    <3> HIDE DEF lines
    <3>4. Total(lines) = SumOver(lines, {1})
      BY <3>3, TotalIsSum
    <3>5. SumOver(lines, {1}) = lines[1]
      BY <3>2, <3>3, SumOfOne
    <3> QED
      BY <3>1, <3>3, <3>4, <3>5 DEF lines
  <2>2. sum = zero
    <3> DEFINE none == [i \in {} |-> 0]
    <3>1. DOMAIN h.floors = {}
      BY <1>2, EmptyList
    <3>2. DOMAIN Floors(h, tab) = {}
      BY <3>1 DEF Floors
    <3>3. sum = [alv |-> Total([i \in {} |-> Floors(h, tab)[i].alv]),
                 tax |-> Total([i \in {} |-> Floors(h, tab)[i].tax])]
      BY <3>2 DEF FloorSum, SumFloors
    <3>4. \A f : DOMAIN f = {} => Total(f) = 0
      BY TotalIsSum, SumEmpty
    <3> QED
      BY <3>3, <3>4
  <2>3. /\ rate \in Nat /\ h.plot \in Nat /\ PlotArea(h) \in Nat
        /\ \A i \in DOMAIN h.floors : h.floors[i].area = 0
    BY <1>2, PlotRateIs, HoldingIs, EmptyList
  <2>4. AssessablePct(h.gis, h.use, {}, tab) = 100
    BY <1>2 DEF OpenLand, AssessablePct, UsageKey
  <2>5. Taxed(h, tab) = IF rate > 0 /\ PlotArea(h) > 0 THEN line ELSE sum
    <3>1. sum.alv = 0
      BY <2>2
    <3> HIDE DEF sum
    <3> QED
      BY <2>3, <2>4, <3>1 DEF Taxed, Base, sum
  <2>6. SurveyTax(h, tab).property = IF h.plot > 0 /\ rate > 0 THEN FloorAlv(h.plot, rate, 100, tab).tax
                                     ELSE Taxed(h, tab).tax
    <3> DEFINE plot == FloorAlv(h.plot, rate, 100, tab)
               base == Taxed(h, tab)
    <3>1. SurveyTax(h, tab) = Bill(h, tab, rate, base)
      BY DEF SurveyTax, Taxed, FloorSum, Floors
    <3>2. plot.tax \in Nat /\ base.tax \in Nat /\ 0 \in Nat
      <4>1. plot \in FloorAmounts /\ base \in FloorAmounts
        BY <2>3, FloorAlvIs, TaxedIs
      <4> HIDE DEF plot, base
      <4> QED
        BY <4>1 DEF FloorAmounts
    <3>3. SurveyTax(h, tab) = IF h.plot > 0 /\ rate > 0 THEN DemandTotals(0, plot.tax, tab, FALSE)
                              ELSE DemandTotals(0, base.tax, tab, FALSE)
      BY <1>2, <3>1 DEF Bill
    <3>4. /\ DemandTotals(0, plot.tax, tab, FALSE).property = plot.tax
          /\ DemandTotals(0, base.tax, tab, FALSE).property = base.tax
      BY <3>2, DemandTotalsAre
    <3> HIDE DEF plot, base, rate
    <3> QED
      BY <3>3, <3>4 DEF plot, base, rate
  <2>7. ~(rate > 0 /\ PlotArea(h) > 0) => line = zero
    BY <2>3, FloorAlvIs
  <2>8. h.plot > 0 => PlotArea(h) = h.plot
    BY DEF PlotArea
  <2>9. CASE h.plot > 0 /\ rate > 0
    BY <2>1, <2>6, <2>8, <2>9
  <2>10. CASE ~(h.plot > 0 /\ rate > 0) /\ rate > 0 /\ PlotArea(h) > 0
    BY <2>1, <2>5, <2>6, <2>10
  <2>11. CASE ~(h.plot > 0 /\ rate > 0) /\ ~(rate > 0 /\ PlotArea(h) > 0)
    <3>1. SurveyTax(h, tab).property = sum.tax
      <4> HIDE DEF line, sum
      <4> QED
        BY <2>5, <2>6, <2>11
    <3>2. sum.tax = 0 /\ line.tax = 0
      BY <2>2, <2>7, <2>11
    <3> QED
      BY <2>1, <3>1, <3>2
  <2> QED
    BY <2>9, <2>10, <2>11
<1> QED
  BY <1>1, <1>2

(* The live preview of a floor is the bill of a survey with that floor only. *)
LEMMA PreviewIsBill ==
    ASSUME NEW tab \in TaxTable, NEW h \in SurveyRow, Built(h), Len(h.floors) = 1, h.use = {},
           h.floors[1].use = {}
    PROVE  GisPreview(h.gis, h.floors[1].area, h.floors[1].con, tab) = SurveyTax(h, tab)
<1> DEFINE f == h.floors[1]
           D == DOMAIN h.floors
           class == IF h.gis = "none" THEN "residential" ELSE h.gis
           sum == FloorSum(h, tab)
<1>1. D = {1} /\ f.area \in Nat
  BY HoldingIs
<1>2. h.gis \in {"residential", "commercial", "open_land", "mixed", "none"} /\ h.gis # "open_land"
  BY DEF SurveyRow, Built, OpenLand
<1>3. /\ UsageRateMult(class, {}, {}) = UsageRateMult(h.gis, h.use, f.use)
      /\ AssessablePct(class, {}, {}, tab) = AssessablePct(h.gis, h.use, f.use, tab)
      /\ class # "open_land"
  BY <1>2 DEF UsageRateMult, AssessablePct, UsageKey
<1>4. GisPreview(h.gis, f.area, f.con, tab)
        = LET one == FloorAlv(f.area, LineRate(h, f, tab), AssessablePct(h.gis, h.use, f.use, tab), tab)
          IN  DemandTotals(one.alv, one.tax, tab, TRUE)
  BY <1>3 DEF GisPreview, LineRate
<1>5. GisPreview(h.gis, f.area, f.con, tab)
        = DemandTotals(FloorTax(h, f, tab).alv, FloorTax(h, f, tab).tax, tab, TRUE)
  <2>1. FloorTax(h, f, tab) = FloorAlv(f.area, LineRate(h, f, tab), AssessablePct(h.gis, h.use, f.use, tab), tab)
    BY <1>1, FloorTaxIs
  <2> QED
    BY <1>4, <2>1
<1>6. sum.alv = FloorTax(h, f, tab).alv /\ sum.tax = FloorTax(h, f, tab).tax
  <2> DEFINE t == FloorTax(h, f, tab)
             alvs == [i \in {1} |-> t.alv]
             taxes == [i \in {1} |-> t.tax]
  <2>1. Floors(h, tab) = [i \in {1} |-> t]
    BY <1>1 DEF Floors
  <2>2. sum = [alv |-> Total(alvs), tax |-> Total(taxes)]
    BY <2>1 DEF FloorSum, SumFloors
  <2>3. t \in FloorAmounts
    BY <1>1, FloorTaxIs
  <2> HIDE DEF t, sum
  <2>4. t.alv \in Int /\ t.tax \in Int
    BY <2>3 DEF FloorAmounts
  <2>5. Total(alvs) = SumOver(alvs, {1}) /\ Total(taxes) = SumOver(taxes, {1})
    BY TotalIsSum
  <2>6. alvs[1] = t.alv /\ taxes[1] = t.tax
    OBVIOUS
  <2> HIDE DEF alvs, taxes
  <2>7. SumOver(alvs, {1}) = t.alv /\ SumOver(taxes, {1}) = t.tax
    BY <2>4, <2>6, SumOfOne
  <2> QED
    BY <2>2, <2>5, <2>7 DEF t
<1> HIDE DEF sum
<1> QED
  BY <1>5, <1>6, PropertyOfBuilt DEF sum

LEMMA MaxOfOne == \A x \in Int : Max({x}) = x
<1> SUFFICES ASSUME NEW x \in Int
             PROVE  Max({x}) = x
  OBVIOUS
<1>1. IsFiniteSet({x}) /\ {x} \subseteq Int /\ {x} # {}
  BY FS_Singleton
<1>2. Max({x}) \in {x}
  BY <1>1, MaxIs
<1> QED
  BY <1>2

(* The cells of the ward's report add up to the property tax when no two    *)
(* taxed floors share one. *)
LEMMA CellsAddUp ==
    ASSUME NEW tab \in TaxTable, NEW h \in SurveyRow, Built(h),
           Cardinality(DOMAIN ReportCells(h, tab))
             = Cardinality({i \in DOMAIN h.floors : BaseRate(tab, h.floors[i].con) > 0})
    PROVE  Total(ReportCells(h, tab)) = SurveyTax(h, tab).property
<1> DEFINE D == DOMAIN h.floors
           taxed == {i \in D : BaseRate(tab, h.floors[i].con) > 0}
           cell(i) == <<Residential(h, h.floors[i]), h.floors[i].con>>
           at == [i \in taxed |-> cell(i)]
           T == {cell(i) : i \in taxed}
           last(c) == Max({i \in taxed : cell(i) = c})
           cells == ReportCells(h, tab)
           taxes == [i \in D |-> Floors(h, tab)[i].tax]
<1>1. IsFiniteSet(D) /\ D \subseteq Int /\ taxed \subseteq D
  BY HoldingIs
<1>2. IsFiniteSet(taxed)
  <2> HIDE DEF D, taxed
  <2> QED
    BY <1>1, FS_Subset
<1>3. /\ cells = [c \in T |-> FloorTax(h, h.floors[last(c)], tab).tax]
      /\ DOMAIN cells = T
  BY DEF ReportCells
<1>4. T = {at[i] : i \in taxed}
  OBVIOUS
<1>5. \A i, j \in taxed : at[i] = at[j] => i = j
  <2>1. at \in Surjection(taxed, T)
    BY DEF Surjection
  <2>2. IsFiniteSet(T) /\ Cardinality(T) = Cardinality(taxed)
    <3>1. Cardinality(T) = Cardinality(taxed)
      BY <1>3
    <3> HIDE DEF taxed, T, at
    <3>2. IsFiniteSet(T)
      BY <1>2, <2>1, FS_Surjection
    <3> QED
      BY <3>1, <3>2
  <2> HIDE DEF taxed, T, at
  <2>3. at \in Injection(taxed, T)
    BY <1>2, <2>1, <2>2, FS_Surjection
  <2> QED
    BY <2>3 DEF Injection, IsInjective
<1>6. \A i \in D : taxes[i] \in Int /\ (i \notin taxed => taxes[i] = 0)
  <2> SUFFICES ASSUME NEW i \in D
               PROVE  taxes[i] \in Int /\ (i \notin taxed => taxes[i] = 0)
    OBVIOUS
  <2> DEFINE t == FloorTax(h, h.floors[i], tab)
  <2>1. taxes[i] = t.tax
    BY DEF Floors
  <2>2. t \in FloorAmounts
    BY HoldingIs, FloorTaxIs
  <2>3. i \notin taxed => t = [alv |-> 0, tax |-> 0]
    <3>1. BaseRate(tab, h.floors[i].con) \in Nat
      BY BaseRateIs
    <3> QED
      BY <3>1 DEF FloorTax, TaxAtRate
  <2> HIDE DEF t, taxed
  <2> QED
    BY <2>1, <2>2, <2>3 DEF FloorAmounts
<1>7. \A i \in taxed : cells[at[i]] = taxes[i] /\ taxes[i] \in Int
  <2> SUFFICES ASSUME NEW i \in taxed
               PROVE  cells[at[i]] = taxes[i] /\ taxes[i] \in Int
    OBVIOUS
  <2>1. {j \in taxed : cell(j) = at[i]} = {i}
    BY <1>5
  <2>2. last(at[i]) = i
    BY <1>1, <2>1, MaxOfOne
  <2>3. at[i] \in T /\ i \in D
    OBVIOUS
  <2>4. cells[at[i]] = FloorTax(h, h.floors[last(at[i])], tab).tax
    <3> HIDE DEF T, at, last
    <3> QED
      BY <1>3, <2>3
  <2>5. taxes[i] = FloorTax(h, h.floors[i], tab).tax
    BY <2>3 DEF Floors
  <2> HIDE DEF last, taxes, cells, at, taxed
  <2> QED
    BY <1>6, <2>2, <2>3, <2>4, <2>5
<1>8. SumOver(cells, T) = SumOver(taxes, taxed)
  <2> HIDE DEF cells, T, taxes, taxed, at
  <2> QED
    BY <1>2, <1>4, <1>5, <1>7, SumOverImage
<1>9. SumOver(taxes, D) = SumOver(taxes, taxed)
  <2> HIDE DEF taxes, taxed, D
  <2> QED
    BY <1>1, <1>6, SumRestrict
<1>10. FloorSum(h, tab).tax = SumOver(taxes, D)
  <2>1. DOMAIN Floors(h, tab) = D
    BY DEF Floors
  <2>2. FloorSum(h, tab).tax = Total(taxes)
    BY <2>1 DEF FloorSum, SumFloors
  <2> QED
    BY <2>2, TotalIsSum
<1>11. Total(cells) = SumOver(cells, T)
  BY <1>3, TotalIsSum
<1> HIDE DEF cells, taxes, taxed, D, T
<1> QED
  BY <1>8, <1>9, <1>10, <1>11, PropertyOfBuilt DEF cells

-----------------------------------------------------------------------------
(* The demand, the notice and the receipts.                                *)

AccountRow == [table : {<<>>} \cup {<<t>> : t \in Tables}, property : Nat, water : Nat,
               drainage : Nat, penalty : Nat, rebate : Nat, arrears : Nat, current : Nat,
               total : Nat, paid : Nat, outstanding : Nat, published : BOOLEAN]

\* A demand's heads are those of the bill under the rates it was published with
BilledUnder(h, a, t) ==
    /\ a.table = <<t>> /\ a.property = SurveyTax(h, t).property
    /\ a.water = SurveyTax(h, t).water /\ a.drainage = SurveyTax(h, t).drainage

AccountOK(h, a) ==
    /\ a \in AccountRow
    /\ a.current = AtLeast0(a.property + a.water + a.drainage + a.penalty - a.rebate)
    /\ a.total = a.current + a.arrears
    /\ a.outstanding = AtLeast0(a.total - a.paid)
    /\ a.published => \E t \in Tables : BilledUnder(h, a, t)
    /\ ~a.published => a = NoAccount

\* The sheet's lines are those of some rates, of the demand's own if it says so
NoticeOK(h, n) ==
    n.printed =>
       /\ \E t \in Tables : /\ n.sheet.lines = NoticeLines(h, t)
                            /\ n.same => n.sheet.property = SurveyTax(h, t).property
       /\ n.sheet.total = n.sheet.arrears + AtLeast0(n.sheet.property + n.sheet.water + n.sheet.drainage
                                                       + n.sheet.penalty - n.sheet.rebate)

ReceiptRow == [account : AccountRow, amount : Nat, paidAfter : Nat, after : Nat]

\* A receipt's snapshot is of a demand as it was before the payment
ReceiptOK(h, r) ==
    /\ AccountOK(h, r.account) /\ r.amount > 0
    /\ r.paidAfter = r.account.paid + r.amount
    /\ r.after = AtLeast0(r.account.total - r.paidAfter)

\* The demand of a receipt asks what the demand asks now
AsksTheSame(a, b) ==
    /\ a.published = b.published /\ a.arrears = b.arrears /\ a.property = b.property
    /\ a.water = b.water /\ a.drainage = b.drainage /\ a.penalty = b.penalty
    /\ a.rebate = b.rebate /\ a.total = b.total

\* Payments of a demand that was not rewritten since the first: each receipt
\* starts where the one before it ended
InARow(rs, a) ==
    /\ \A i \in DOMAIN rs : AsksTheSame(rs[i].account, a)
    /\ a.published =>
         /\ rs = <<>> => a.paid = 0
         /\ \A i \in DOMAIN rs :
               /\ i = 1 => rs[i].account.paid = 0
               /\ i > 1 => rs[i].account.paid = rs[i - 1].paidAfter
               /\ i = Len(rs) => a.paid = rs[i].paidAfter
               /\ i < Len(rs) => rs[i].paidAfter < a.paid

(* A demand is billed under rates that were published, and a receipt and    *)
(* a notice under a demand that was. *)
AssessInv ==
    /\ holding \in Holdings /\ table \in Tables /\ book \in Books
    /\ checkout \in Nat /\ moved \in BOOLEAN
    /\ AccountOK(holding, account) /\ NoticeOK(holding, notice)
    /\ receipts \in Seq(ReceiptRow) /\ Len(receipts) <= MaxReceipts
    /\ \A i \in DOMAIN receipts : ReceiptOK(holding, receipts[i])
    /\ ~moved => InARow(receipts, account)

LEMMA NoAccountOK == \A h : AccountOK(h, NoAccount)
BY DEF AccountOK, NoAccount, AccountRow, AtLeast0

LEMMA AssessStart == AssessInit => AssessInv
<1> SUFFICES ASSUME AssessInit
             PROVE  AssessInv
  OBVIOUS
<1>1. AccountOK(holding, account) /\ ~account.published
  BY NoAccountOK DEF AssessInit, NoAccount
<1>2. NoticeOK(holding, notice)
  BY DEF AssessInit, NoNotice, NoticeOK
<1>3. receipts \in Seq(ReceiptRow) /\ Len(receipts) <= MaxReceipts /\ DOMAIN receipts = {}
  <2>1. receipts = <<>> /\ MaxReceipts \in Nat
    BY AssessmentAssumption DEF AssessInit
  <2> QED
    BY <2>1, EmptyList
<1>4. InARow(receipts, account)
  BY <1>1, <1>3 DEF InARow
<1> QED
  BY <1>1, <1>2, <1>3, <1>4 DEF AssessInit, AssessInv

LEMMA AdjustmentIs ==
    ASSUME NEW amount \in Nat, NEW r \in AdjustmentRule
    PROVE  HeadAdjustment(amount, r) \in Nat
<1> DEFINE raw == IF r.method = "FLAT_AMOUNT" THEN r.value ELSE Portion(amount, r.value)
           capped == IF r.cap = NoCap THEN raw ELSE Least(raw, r.cap)
<1>1. r.value \in Nat /\ (r.cap = NoCap \/ r.cap \in Nat)
  BY DEF AdjustmentRule, NoCap
<1>2. raw \in Nat
  BY <1>1, PortionIs
<1> HIDE DEF raw
<1>3. capped \in Nat
  BY <1>1, <1>2 DEF Least
<1>4. HeadAdjustment(amount, r) = Least(capped, amount)
  BY DEF HeadAdjustment, raw
<1> HIDE DEF capped
<1> QED
  BY <1>3, <1>4 DEF Least

LEMMA AssessedIs ==
    ASSUME NEW h \in SurveyRow, NEW tab \in Tables, tab \in TaxTable, NEW rules, rules \subseteq AdjustmentRule,
           IsFiniteSet(rules), NEW arrears \in Nat, NEW paid \in Nat
    PROVE  LET a == PropertyAssessment(tab, SurveyTax(h, tab), rules, arrears, paid)
           IN  AccountOK(h, a) /\ a.published /\ a.paid = paid
<1> DEFINE tax == SurveyTax(h, tab)
           head(r) == IF r.head = "WATER" THEN tax.water ELSE tax.property
           sum(rs) == Total([r \in rs |-> HeadAdjustment(head(r), r)])
           kind(k) == {r \in rules : r.kind = k}
           onProperty == {r \in kind("PENALTY") : r.head = "PROPERTY"}
           penalty == sum(kind("PENALTY")) + (IF onProperty = {} THEN tax.penalty ELSE 0)
           rebate == sum(kind("REBATE"))
           current == AtLeast0(tax.property + tax.water + tax.drainage + penalty - rebate)
           a == [table |-> <<tab>>, property |-> tax.property, water |-> tax.water,
                 drainage |-> tax.drainage, penalty |-> penalty, rebate |-> rebate, arrears |-> arrears,
                 current |-> current, total |-> current + arrears, paid |-> paid,
                 outstanding |-> AtLeast0((current + arrears) - paid), published |-> TRUE]
<1>1. a = PropertyAssessment(tab, tax, rules, arrears, paid)
  BY DEF PropertyAssessment
<1>2. tax \in Billed
  BY SurveyTaxIs
<1>3. /\ tax.property \in Nat /\ tax.water \in Nat /\ tax.drainage \in Nat /\ tax.penalty \in Nat
  <2> HIDE DEF tax
  <2> QED
    BY <1>2 DEF Billed
<1>4. ASSUME NEW rs, rs \subseteq rules
      PROVE  sum(rs) \in Nat
  <2> DEFINE f == [r \in rs |-> HeadAdjustment(head(r), r)]
  <2>1. \A r \in rs : f[r] \in Nat
    BY <1>3, <1>4, AdjustmentIs
  <2>2. DOMAIN f = rs /\ IsFiniteSet(rs)
    BY <1>4, FS_Subset
  <2> HIDE DEF f
  <2>3. SumOver(f, rs) \in Nat
    BY <2>1, <2>2, SumNat
  <2>4. Total(f) = SumOver(f, rs)
    BY <2>2, TotalIsSum
  <2> QED
    BY <2>3, <2>4 DEF f
<1>5. penalty \in Nat /\ rebate \in Nat
  <2>1. sum(kind("PENALTY")) \in Nat /\ sum(kind("REBATE")) \in Nat
    <3>1. kind("PENALTY") \subseteq rules /\ kind("REBATE") \subseteq rules
      OBVIOUS
    <3> HIDE DEF kind, sum
    <3> QED
      BY <1>4, <3>1
  <2> HIDE DEF sum, kind, onProperty
  <2> QED
    BY <1>3, <2>1
<1> HIDE DEF penalty, rebate
<1>6. current \in Nat
  BY <1>3, <1>5 DEF AtLeast0
<1>7. AtLeast0((current + arrears) - paid) \in Nat
  BY <1>6 DEF AtLeast0
<1>8. a \in AccountRow
  <2> HIDE DEF tax, current
  <2> QED
    BY <1>3, <1>5, <1>6, <1>7 DEF AccountRow
<1>9. /\ a.current = AtLeast0(a.property + a.water + a.drainage + a.penalty - a.rebate)
      /\ a.total = a.current + a.arrears /\ a.outstanding = AtLeast0(a.total - a.paid)
      /\ a.published /\ a.paid = paid
  OBVIOUS
<1>10. BilledUnder(h, a, tab)
  BY DEF BilledUnder
<1> HIDE DEF a
<1>11. AccountOK(h, a)
  BY <1>8, <1>9, <1>10 DEF AccountOK
<1> QED
  BY <1>1, <1>9, <1>11

LEMMA AppendIs ==
    ASSUME NEW T, NEW s \in Seq(T), NEW e \in T
    PROVE  /\ Append(s, e) \in Seq(T) /\ Len(Append(s, e)) = Len(s) + 1 /\ Len(s) \in Nat
           /\ DOMAIN s = 1..Len(s) /\ DOMAIN Append(s, e) = 1..(Len(s) + 1)
           /\ \A i \in 1..Len(s) : Append(s, e)[i] = s[i]
           /\ Append(s, e)[Len(s) + 1] = e
OBVIOUS

\* The next receipt in a row
LEMMA RowGrows ==
    ASSUME NEW rs \in Seq(ReceiptRow), NEW r \in ReceiptRow, NEW a \in AccountRow, NEW b \in AccountRow,
           InARow(rs, a), r.account = a, AsksTheSame(a, b),
           a.published => /\ r.paidAfter = a.paid + r.amount /\ r.amount > 0
                          /\ b.paid = r.paidAfter
    PROVE  InARow(Append(rs, r), b)
<1> DEFINE n == Len(rs)
           ss == Append(rs, r)
<1>1. /\ Len(ss) = n + 1 /\ n \in Nat /\ DOMAIN rs = 1..n /\ DOMAIN ss = 1..(n + 1)
      /\ \A i \in 1..n : ss[i] = rs[i]
      /\ ss[n + 1] = r
  BY AppendIs
<1>0. rs = <<>> <=> n = 0
  OBVIOUS
<1> HIDE DEF n, ss
<1>2. \A i \in 1..(n + 1) : i \in 1..n \/ i = n + 1
  BY <1>1
<1>3. \A i \in DOMAIN ss : AsksTheSame(ss[i].account, b)
  <2>1. \A i \in 1..n : AsksTheSame(rs[i].account, b)
    <3>1. \A i \in 1..n : AsksTheSame(rs[i].account, a)
      BY <1>1 DEF InARow
    <3> QED
      BY <3>1 DEF AsksTheSame
  <2> QED
    BY <1>1, <1>2, <2>1
<1>4. ss # <<>>
  <2>1. 1 \in DOMAIN ss
    BY <1>1
  <2> QED
    BY <2>1, EmptyList
<1>5. ASSUME b.published, NEW i \in DOMAIN ss
      PROVE  /\ i = 1 => ss[i].account.paid = 0
             /\ i > 1 => ss[i].account.paid = ss[i - 1].paidAfter
             /\ i = Len(ss) => b.paid = ss[i].paidAfter
             /\ i < Len(ss) => ss[i].paidAfter < b.paid
  <2>1. a.published
    BY <1>5 DEF AsksTheSame
  <2>2. a.paid \in Nat /\ r.amount \in Nat /\ r.paidAfter = a.paid + r.amount /\ r.amount > 0
        /\ b.paid = r.paidAfter
    BY <2>1 DEF AccountRow, ReceiptRow
  <2>3. CASE i \in 1..n
    <3>1. /\ i = 1 => rs[i].account.paid = 0
          /\ i > 1 => rs[i].account.paid = rs[i - 1].paidAfter
          /\ i = n => a.paid = rs[i].paidAfter
          /\ i < n => rs[i].paidAfter < a.paid
      BY <1>1, <2>1, <2>3 DEF InARow, n
    <3>2. i > 1 => i - 1 \in 1..n
      BY <1>1, <2>3
    <3>3. ss[i] = rs[i] /\ (i > 1 => ss[i - 1] = rs[i - 1])
      BY <1>1, <2>3, <3>2
    <3>4. rs[i].paidAfter \in Nat
      <4>1. rs[i] \in ReceiptRow
        BY <1>1, <2>3
      <4> QED
        BY <4>1 DEF ReceiptRow
    <3>5. i < n + 1 /\ (i = n \/ i < n) /\ i \in Int
      BY <1>1, <2>3
    <3> QED
      BY <1>1, <2>2, <3>1, <3>3, <3>4, <3>5
  <2>4. CASE i = n + 1
    <3>1. ss[i] = r /\ Len(ss) = i
      BY <1>1, <2>4
    <3>2. CASE n = 0
      <4>1. a.paid = 0
        BY <1>0, <2>1, <3>2 DEF InARow
      <4> QED
        BY <1>1, <2>2, <2>4, <3>1, <3>2, <4>1
    <3>3. CASE n # 0
      <4>1. n \in 1..n
        BY <1>1, <3>3
      <4>2. a.paid = rs[n].paidAfter
        BY <1>1, <2>1, <4>1 DEF InARow, n
      <4>3. ss[i - 1] = rs[n] /\ i > 1
        BY <1>1, <2>4, <4>1
      <4> QED
        BY <1>1, <2>2, <2>4, <3>1, <4>2, <4>3
    <3> QED
      BY <3>2, <3>3
  <2> QED
    BY <1>1, <1>2, <2>3, <2>4
<1> QED
  BY <1>3, <1>4, <1>5 DEF InARow, ss

LEMMA Known ==
    ASSUME AssessInv
    PROVE  /\ holding \in SurveyRow /\ table \in Tables /\ table \in TaxTable
           /\ book \subseteq AdjustmentRule /\ IsFiniteSet(book)
           /\ account \in AccountRow /\ account.arrears \in Nat /\ account.paid \in Nat
           /\ account.current \in Nat /\ account.total \in Nat /\ account.outstanding \in Nat
           /\ account.published \in BOOLEAN
           /\ \A i \in DOMAIN receipts : receipts[i] \in ReceiptRow
           /\ DOMAIN receipts = 1..Len(receipts) /\ Len(receipts) \in Nat
<1>1. account \in AccountRow
  BY DEF AssessInv, AccountOK
<1>2. /\ DOMAIN receipts = 1..Len(receipts) /\ Len(receipts) \in Nat
      /\ \A i \in DOMAIN receipts : receipts[i] \in ReceiptRow
  <2>1. receipts \in Seq(ReceiptRow)
    BY DEF AssessInv
  <2> QED
    BY <2>1, ListOf
<1>3. /\ account.arrears \in Nat /\ account.paid \in Nat /\ account.published \in BOOLEAN
      /\ account.current \in Nat /\ account.total \in Nat /\ account.outstanding \in Nat
  BY <1>1 DEF AccountRow
<1> QED
  BY <1>1, <1>2, <1>3, AssessmentAssumption DEF AssessInv

LEMMA ReceivedIs ==
    ASSUME AssessInv
    PROVE  Received \in Nat /\ (receipts = <<>> => Received = 0)
<1> DEFINE D == DOMAIN receipts
           f == [i \in D |-> receipts[i].amount]
<1>1. \A i \in D : f[i] \in Nat
  <2>1. \A r \in ReceiptRow : r.amount \in Nat
    BY DEF ReceiptRow
  <2> QED
    BY <2>1, Known
<1>2. IsFiniteSet(D)
  BY Known, Interval
<1>3. Received = SumOver(f, D)
  <2>1. Received = Total(f)
    BY DEF Received
  <2>2. DOMAIN f = D
    OBVIOUS
  <2> HIDE DEF f
  <2> QED
    BY <2>1, <2>2, TotalIsSum
<1>4. receipts = <<>> => D = {}
  BY EmptyList
<1> HIDE DEF D, f
<1> QED
  BY <1>1, <1>2, <1>3, <1>4, SumNat, SumEmpty

\* Nothing was received yet
LEMMA FirstRow ==
    ASSUME NEW rs, rs = <<>>, NEW a, a.published => a.paid = 0
    PROVE  InARow(rs, a)
BY EmptyList DEF InARow

LEMMA PublishKeeps ==
    ASSUME AssessInv, NEW preserve, PublishDemand(preserve)
    PROVE  AssessInv'
<1> DEFINE arrears == IF preserve THEN account.arrears ELSE 0
<1>1. account' = PropertyAssessment(table, SurveyTax(holding, table), book, arrears, Received)
  BY DEF PublishDemand
<1>2. arrears \in Nat /\ Received \in Nat
  BY Known, ReceivedIs
<1> HIDE DEF arrears
<1>3. AccountOK(holding, account') /\ account'.paid = Received
  BY <1>1, <1>2, Known, AssessedIs
<1>4. /\ UNCHANGED <<holding, table, book, checkout, receipts, notice>>
      /\ moved' = (moved \/ receipts # <<>>)
  BY Zenon DEF PublishDemand
<1>5. ~moved' => InARow(receipts, account')
  BY <1>3, <1>4, ReceivedIs, FirstRow
<1>6. moved' \in BOOLEAN
  BY <1>4 DEF AssessInv
<1> QED
  BY <1>3, <1>4, <1>5, <1>6 DEF AssessInv

LEMMA CarryKeeps ==
    ASSUME AssessInv, NEW a \in CarriedSums, CarryForward(a)
    PROVE  AssessInv'
<1> DEFINE total == account.current + a
           outstanding == AtLeast0(account.current + a - account.paid)
<1>1. /\ account.published
      /\ account' = [account EXCEPT !.arrears = a, !.total = total, !.outstanding = outstanding]
      /\ moved' = (moved \/ receipts # <<>>)
      /\ UNCHANGED <<holding, table, book, checkout, receipts, notice>>
  BY DEF CarryForward
<1>2. a \in Nat
  BY AssessmentAssumption
<1>3. total \in Nat /\ outstanding \in Nat /\ outstanding = AtLeast0(total - account.paid)
  BY <1>2, Known DEF AtLeast0
<1> HIDE DEF total, outstanding
<1>4. /\ account' \in AccountRow
      /\ account'.property = account.property /\ account'.water = account.water
      /\ account'.drainage = account.drainage /\ account'.penalty = account.penalty
      /\ account'.rebate = account.rebate /\ account'.arrears = a /\ account'.total = total
      /\ account'.outstanding = outstanding /\ account'.paid = account.paid
      /\ account'.current = account.current /\ account'.published = account.published
      /\ account'.table = account.table
  BY <1>1, <1>2, <1>3, Known DEF AccountRow
<1>5. AccountOK(holding, account')
  <2>1. account.current = AtLeast0(account.property + account.water + account.drainage
                                     + account.penalty - account.rebate)
    BY DEF AssessInv, AccountOK
  <2>2. \E t \in Tables : BilledUnder(holding, account', t)
    BY <1>1, <1>4 DEF AssessInv, AccountOK, BilledUnder
  <2>3. account'.total = account'.current + account'.arrears
    BY <1>4 DEF total
  <2> QED
    BY <1>1, <1>3, <1>4, <2>1, <2>2, <2>3 DEF AccountOK
<1>6. ~moved' => InARow(receipts, account')
  <2>1. ~moved' => receipts = <<>> /\ InARow(receipts, account)
    BY <1>1 DEF AssessInv
  <2>2. ~moved' => account.paid = 0
    BY <1>1, <2>1 DEF InARow
  <2> QED
    BY <1>4, <2>1, <2>2, FirstRow
<1>7. moved' \in BOOLEAN
  BY <1>1 DEF AssessInv
<1> QED
  BY <1>1, <1>5, <1>6, <1>7 DEF AssessInv

LEMMA PrintKeeps ==
    ASSUME AssessInv, PrintNotice
    PROVE  AssessInv'
<1> DEFINE lines == NoticeLines(holding, table)
           tax == SurveyTax(holding, table)
           d == IF account.published THEN account ELSE Unbilled(tax)
           n == [printed |-> TRUE, sheet |-> NoticeSheet(lines, d, account.published),
                 same |-> account.published => account.table = <<table>>]
<1>1. /\ notice' = n
      /\ UNCHANGED <<holding, table, book, account, checkout, receipts, moved>>
  BY DEF PrintNotice, DuesPayload
<1>2. tax \in Billed /\ HeadsAddUp(tax)
  BY Known, SurveyTaxIs
<1>3. /\ tax.property \in Nat /\ tax.water \in Nat /\ tax.drainage \in Nat /\ tax.penalty \in Nat
      /\ tax.total = tax.property + tax.water + tax.drainage + tax.penalty
  <2> HIDE DEF tax
  <2> QED
    BY <1>2 DEF Billed, HeadsAddUp
<1>4. /\ d.total = d.arrears + AtLeast0(d.property + d.water + d.drainage + d.penalty - d.rebate)
      /\ n.same => d.property = tax.property
  <2>1. CASE account.published
    <3>1. PICK t \in Tables : BilledUnder(holding, account, t)
      BY <2>1 DEF AssessInv, AccountOK
    <3>2. account.table = <<table>> => t = table
      BY <3>1 DEF BilledUnder
    <3>3. account.total = account.arrears + AtLeast0(account.property + account.water + account.drainage
                                                       + account.penalty - account.rebate)
      <4>1. /\ account.current = AtLeast0(account.property + account.water + account.drainage
                                            + account.penalty - account.rebate)
            /\ account.total = account.current + account.arrears
        BY DEF AssessInv, AccountOK
      <4> QED
        BY <4>1, Known
    <3> QED
      BY <2>1, <3>1, <3>2, <3>3 DEF BilledUnder
  <2>2. CASE ~account.published
    <3> HIDE DEF tax
    <3>1. /\ d.property = tax.property /\ d.water = tax.water /\ d.drainage = tax.drainage
          /\ d.penalty = tax.penalty /\ d.rebate = 0 /\ d.arrears = 0 /\ d.total = tax.total
      BY <2>2 DEF Unbilled, NoAccount
    <3> HIDE DEF d
    <3> QED
      BY <1>3, <3>1 DEF AtLeast0
  <2> QED
    BY <2>1, <2>2
<1> HIDE DEF d
<1>5. /\ n.sheet.lines = lines /\ n.sheet.property = d.property /\ n.sheet.water = d.water
      /\ n.sheet.drainage = d.drainage /\ n.sheet.penalty = d.penalty /\ n.sheet.rebate = d.rebate
      /\ n.sheet.arrears = d.arrears /\ n.sheet.total = d.total
  BY DEF NoticeSheet
<1> HIDE DEF n
<1>6. NoticeOK(holding, n)
  BY <1>4, <1>5, Known DEF NoticeOK
<1> QED
  BY <1>1, <1>6 DEF AssessInv

LEMMA ReceiveKeeps ==
    ASSUME AssessInv, NEW amount \in Nat, amount > 0, account.published, Len(receipts) < MaxReceipts,
           Receive(amount), checkout' \in Nat, UNCHANGED <<holding, table, book, notice, moved>>
    PROVE  AssessInv'
<1> DEFINE paid == account.paid + amount
           after == AtLeast0(account.total - paid)
           r == [account |-> account, amount |-> amount, paidAfter |-> paid, after |-> after]
<1>1. receipts' = Append(receipts, r) /\ account' = [account EXCEPT !.paid = paid, !.outstanding = after]
  BY DEF Receive
<1>2. paid \in Nat /\ after \in Nat
  BY Known DEF AtLeast0
<1>3. r \in ReceiptRow /\ ReceiptOK(holding, r)
  <2>1. AccountOK(holding, account) /\ account \in AccountRow
    BY Known DEF AssessInv
  <2> QED
    BY <1>2, <2>1 DEF ReceiptRow, ReceiptOK
<1>4. r.account = account /\ r.paidAfter = paid /\ r.amount = amount
  OBVIOUS
<1> HIDE DEF paid, after, r
<1>5. /\ account' \in AccountRow
      /\ account'.property = account.property /\ account'.water = account.water
      /\ account'.drainage = account.drainage /\ account'.penalty = account.penalty
      /\ account'.rebate = account.rebate /\ account'.arrears = account.arrears
      /\ account'.total = account.total
      /\ account'.outstanding = after /\ account'.paid = paid
      /\ account'.current = account.current /\ account'.published = account.published
      /\ account'.table = account.table
  BY <1>1, <1>2, Known DEF AccountRow
<1>6. AccountOK(holding, account')
  <2>1. /\ account.current = AtLeast0(account.property + account.water + account.drainage
                                     + account.penalty - account.rebate)
        /\ account.total = account.current + account.arrears
    BY DEF AssessInv, AccountOK
  <2>2. \E t \in Tables : BilledUnder(holding, account', t)
    BY <1>5 DEF AssessInv, AccountOK, BilledUnder
  <2>3. after = AtLeast0(account.total - paid)
    BY DEF after
  <2> QED
    BY <1>5, <2>1, <2>2, <2>3 DEF AccountOK
<1>7. /\ receipts' \in Seq(ReceiptRow) /\ Len(receipts') <= MaxReceipts
      /\ \A i \in DOMAIN receipts' : ReceiptOK(holding, receipts'[i])
  <2>0. receipts \in Seq(ReceiptRow) /\ MaxReceipts \in Nat
    BY AssessmentAssumption DEF AssessInv
  <2> DEFINE n == Len(receipts)
  <2>1. /\ receipts' \in Seq(ReceiptRow) /\ Len(receipts') = n + 1 /\ n \in Nat
        /\ DOMAIN receipts = 1..n /\ DOMAIN receipts' = 1..(n + 1)
        /\ \A i \in 1..n : receipts'[i] = receipts[i]
        /\ receipts'[n + 1] = r
    BY <1>1, <1>3, <2>0, AppendIs
  <2>2. \A i \in 1..n : ReceiptOK(holding, receipts[i])
    BY <2>1 DEF AssessInv
  <2> HIDE DEF n
  <2>3. \A i \in 1..(n + 1) : i \in 1..n \/ i = n + 1
    BY <2>1
  <2>4. \A i \in DOMAIN receipts' : ReceiptOK(holding, receipts'[i])
    BY <1>3, <2>1, <2>2, <2>3
  <2>5. Len(receipts') <= MaxReceipts
    BY <2>0, <2>1 DEF n
  <2> QED
    BY <2>1, <2>4, <2>5
<1>8. ~moved' => InARow(receipts', account')
  <2> SUFFICES ASSUME ~moved'
               PROVE  InARow(receipts', account')
    OBVIOUS
  <2>1. InARow(receipts, account) /\ receipts \in Seq(ReceiptRow) /\ account \in AccountRow
    BY Known DEF AssessInv
  <2>2. AsksTheSame(account, account')
    BY <1>5 DEF AsksTheSame
  <2>3. r.paidAfter = account.paid + r.amount /\ r.amount > 0 /\ account'.paid = r.paidAfter
    BY <1>4, <1>5 DEF paid
  <2> QED
    BY <1>1, <1>3, <1>4, <1>5, <2>1, <2>2, <2>3, RowGrows
<1>9. moved' \in BOOLEAN
  BY DEF AssessInv
<1> QED
  BY <1>6, <1>7, <1>8, <1>9 DEF AssessInv

LEMMA OfflineKeeps ==
    ASSUME AssessInv, NEW amount, CollectOffline(amount)
    PROVE  AssessInv'
<1>1. amount \in Nat /\ amount > 0
  BY Known DEF CollectOffline
<1>2. checkout' \in Nat
  BY DEF CollectOffline, AssessInv
<1> QED
  BY <1>1, <1>2, ReceiveKeeps DEF CollectOffline

LEMMA OpenKeeps ==
    ASSUME AssessInv, OpenCheckout
    PROVE  AssessInv'
<1> DEFINE tax == SurveyTax(holding, table)
<1>1. tax \in Billed
  BY Known, SurveyTaxIs
<1>2. tax.total \in Nat
  <2> HIDE DEF tax
  <2> QED
    BY <1>1 DEF Billed
<1>3. checkout' \in {account.outstanding, tax.total, 0}
  BY DEF OpenCheckout, DuesPayload
<1> HIDE DEF tax
<1>4. checkout' \in Nat
  BY <1>2, <1>3, Known
<1>5. UNCHANGED <<holding, table, book, account, receipts, notice, moved>>
  BY DEF OpenCheckout
<1> QED
  BY <1>4, <1>5 DEF AssessInv

LEMMA PaidKeeps ==
    ASSUME AssessInv, CheckoutPaid
    PROVE  AssessInv'
<1>1. /\ checkout \in Nat /\ checkout > 0 /\ checkout' \in Nat /\ Len(receipts) < MaxReceipts
      /\ UNCHANGED <<holding, table, book, notice, moved>>
  BY DEF CheckoutPaid, AssessInv
<1>2. CASE account.published
  BY <1>1, <1>2, ReceiveKeeps DEF CheckoutPaid
<1>3. CASE ~account.published
  <2> DEFINE r == [account |-> NoAccount, amount |-> checkout, paidAfter |-> checkout, after |-> 0]
  <2>1. receipts' = Append(receipts, r) /\ account' = account
    BY <1>3 DEF CheckoutPaid
  <2>2. account = NoAccount
    BY <1>3 DEF AssessInv, AccountOK
  <2>3. r \in ReceiptRow /\ ReceiptOK(holding, r)
    <3>1. AccountOK(holding, NoAccount) /\ NoAccount \in AccountRow
      BY NoAccountOK DEF AccountOK
    <3>2. NoAccount.paid = 0 /\ NoAccount.total = 0
      BY DEF NoAccount
    <3>3. AtLeast0(0 - checkout) = 0 /\ checkout = 0 + checkout
      BY <1>1 DEF AtLeast0
    <3> QED
      BY <1>1, <3>1, <3>2, <3>3 DEF ReceiptRow, ReceiptOK
  <2>4. r.account = account
    BY <2>2
  <2> HIDE DEF r
  <2>5. /\ receipts' \in Seq(ReceiptRow) /\ Len(receipts') <= MaxReceipts
        /\ \A i \in DOMAIN receipts' : ReceiptOK(holding, receipts'[i])
    <3>0. receipts \in Seq(ReceiptRow) /\ MaxReceipts \in Nat
      BY AssessmentAssumption DEF AssessInv
    <3> DEFINE n == Len(receipts)
    <3>1. /\ receipts' \in Seq(ReceiptRow) /\ Len(receipts') = n + 1 /\ n \in Nat
          /\ DOMAIN receipts = 1..n /\ DOMAIN receipts' = 1..(n + 1)
          /\ \A i \in 1..n : receipts'[i] = receipts[i]
          /\ receipts'[n + 1] = r
      BY <2>1, <2>3, <3>0, AppendIs
    <3>2. \A i \in 1..n : ReceiptOK(holding, receipts[i])
      BY <3>1 DEF AssessInv
    <3> HIDE DEF n
    <3>3. \A i \in 1..(n + 1) : i \in 1..n \/ i = n + 1
      BY <3>1
    <3>4. \A i \in DOMAIN receipts' : ReceiptOK(holding, receipts'[i])
      BY <2>3, <3>1, <3>2, <3>3
    <3>5. Len(receipts') <= MaxReceipts
      BY <1>1, <3>0, <3>1 DEF n
    <3> QED
      BY <3>1, <3>4, <3>5
  <2>6. ~moved' => InARow(receipts', account')
    <3> SUFFICES ASSUME ~moved'
                 PROVE  InARow(receipts', account)
      BY <2>1
    <3>1. InARow(receipts, account) /\ receipts \in Seq(ReceiptRow) /\ account \in AccountRow
      BY <1>1, Known DEF AssessInv
    <3>2. AsksTheSame(account, account)
      BY DEF AsksTheSame
    <3> QED
      BY <1>3, <2>1, <2>3, <2>4, <3>1, <3>2, RowGrows
  <2>7. AccountOK(holding, account) /\ moved' \in BOOLEAN
    BY <1>1 DEF AssessInv
  <2> QED
    BY <1>1, <2>1, <2>5, <2>6, <2>7 DEF AssessInv
<1> QED
  BY <1>2, <1>3

LEMMA AssessStep == AssessInv /\ [AssessNext]_assessVars => AssessInv'
<1> SUFFICES ASSUME AssessInv, [AssessNext]_assessVars
             PROVE  AssessInv'
  OBVIOUS
<1>1. CASE UNCHANGED assessVars
  BY <1>1 DEF AssessInv, assessVars
<1>2. ASSUME NEW tab \in Tables, PublishRates(tab)
      PROVE  AssessInv'
  BY <1>2 DEF PublishRates, AssessInv
<1>3. ASSUME NEW rules \in Books, ChangeBook(rules)
      PROVE  AssessInv'
  BY <1>3 DEF ChangeBook, AssessInv
<1>4. CASE Billing
  BY <1>2, <1>4, PublishKeeps, PrintKeeps DEF Billing
<1>5. CASE Collecting
  BY <1>3, <1>5, CarryKeeps, OfflineKeeps, OpenKeeps, PaidKeeps DEF Collecting
<1> QED
  BY <1>1, <1>4, <1>5 DEF AssessNext

(* A demand is billed under rates that were published, whatever is          *)
(* published, carried, paid and printed. *)
THEOREM AssessInvariance == AssessSpec => []AssessInv
<1>1. AssessInit => AssessInv
  BY AssessStart
<1>2. AssessInv /\ [AssessNext]_assessVars => AssessInv'
  BY AssessStep
<1> QED
  BY <1>1, <1>2, PTL DEF AssessSpec

LEMMA InvBillsAgree == AssessInv => BillsAgree
<1> SUFFICES ASSUME AssessInv
             PROVE  BillsAgree
  OBVIOUS
<1> DEFINE owing  == SurveyTax(holding, table)
           dues   == DuesPayload(holding, table)
           sheet  == notice.sheet
           floors == {holding.floors[i] : i \in DOMAIN holding.floors}
           built  == ~OpenLand(holding) /\ \E f \in floors : f.area > 0
           cells  == ReportRow(holding, table).cells
           untouched == /\ account.published /\ account.table = <<table>>
                        /\ account.rebate = 0 /\ account.penalty = owing.penalty
                        /\ account.arrears = 0 /\ account.paid = 0
<1>1. /\ holding \in SurveyRow /\ table \in TaxTable /\ table \in Tables
      /\ owing \in Billed /\ HeadsAddUp(owing)
  BY Known, SurveyTaxIs
<1>2. /\ owing.property \in Nat /\ owing.water \in Nat /\ owing.drainage \in Nat /\ owing.penalty \in Nat
      /\ owing.total = owing.property + owing.water + owing.drainage + owing.penalty
  <2> HIDE DEF owing
  <2> QED
    BY <1>1 DEF Billed, HeadsAddUp
<1>3. built <=> Built(holding)
  BY DEF Built
<1>4. dues.tax = owing /\ dues.lines = NoticeLines(holding, table)
  BY DEF DuesPayload
<1>5. ASSUME notice.printed, notice.same, built \/ (OpenLand(holding) /\ holding.floors = <<>>)
      PROVE  Total(sheet.lines) = sheet.property /\ FloorTable(dues) = owing.property
  <2>1. PICK t \in Tables : /\ sheet.lines = NoticeLines(holding, t)
                            /\ sheet.property = SurveyTax(holding, t).property
    BY <1>5 DEF AssessInv, NoticeOK
  <2>2. t \in TaxTable
    BY AssessmentAssumption
  <2>3. Built(holding) \/ (OpenLand(holding) /\ holding.floors = <<>>)
    BY <1>3, <1>5
  <2>4. Total(NoticeLines(holding, t)) = SurveyTax(holding, t).property
    BY <1>1, <2>2, <2>3, LinesAddUp
  <2>5. Total(NoticeLines(holding, table)) = owing.property
    BY <1>1, <2>3, LinesAddUp
  <2> HIDE DEF owing, dues, sheet
  <2> QED
    BY <1>4, <2>1, <2>4, <2>5 DEF FloorTable
<1>6. ASSUME notice.printed
      PROVE  sheet.total = sheet.arrears + AtLeast0(sheet.property + sheet.water + sheet.drainage
                                                    + sheet.penalty - sheet.rebate)
  BY <1>6 DEF AssessInv, NoticeOK
<1>7. Total(SummaryCard(dues).heads) = SummaryCard(dues).total
  <2> DEFINE heads == <<owing.property, owing.water, owing.drainage, owing.penalty>>
  <2>1. SummaryCard(dues).heads = heads /\ SummaryCard(dues).total = owing.total
    BY <1>4 DEF SummaryCard
  <2> HIDE DEF owing
  <2>2. /\ DOMAIN heads = 1..4 /\ heads[1] = owing.property /\ heads[2] = owing.water
        /\ heads[3] = owing.drainage /\ heads[4] = owing.penalty
    OBVIOUS
  <2> HIDE DEF heads
  <2>3. \A i \in 1..4 : heads[i] \in Int
    <3>1. \A i \in 1..4 : i = 1 \/ i = 2 \/ i = 3 \/ i = 4
      OBVIOUS
    <3> QED
      BY <1>2, <2>2, <3>1
  <2>4. SumOver(heads, 1..4) = heads[1] + heads[2] + heads[3] + heads[4]
    BY <2>3, SumOfFour
  <2>5. Total(heads) = SumOver(heads, 1..4)
    BY <2>2, TotalIsSum
  <2> QED
    BY <1>2, <2>1, <2>2, <2>4, <2>5
<1>8. ASSUME NEW f \in floors, Len(holding.floors) = 1, f.area > 0, f.use = {}, holding.use = {},
             ~OpenLand(holding)
      PROVE  GisPreview(holding.gis, f.area, f.con, table) = owing
  <2>1. DOMAIN holding.floors = {1}
    BY <1>1, <1>8, HoldingIs
  <2>2. f = holding.floors[1]
    BY <2>1
  <2>3. Built(holding)
    BY <1>8, <2>1, <2>2 DEF Built
  <2> QED
    BY <1>1, <1>8, <2>2, <2>3, PreviewIsBill
<1>9. WardDemand(holding, table) = owing.total - owing.penalty
  <2>1. WardDemand(holding, table) = owing.property + owing.water + owing.drainage
    BY DEF WardDemand, WithoutPenalty
  <2> HIDE DEF owing
  <2> QED
    BY <1>2, <2>1
<1>10. ASSUME built, Cardinality(DOMAIN cells)
                       = Cardinality({i \in DOMAIN holding.floors :
                                         BaseRate(table, holding.floors[i].con) > 0})
       PROVE  Total(cells) = owing.property
  <2>1. cells = ReportCells(holding, table)
    BY DEF ReportRow
  <2> QED
    BY <1>1, <1>3, <1>10, <2>1, CellsAddUp
<1>11. ASSUME untouched
       PROVE  CitizenNotice(dues).outstanding = account.outstanding
  <2>1. CitizenNotice(dues).outstanding = owing.total
    BY <1>4 DEF CitizenNotice
  <2>2. PICK t \in Tables : BilledUnder(holding, account, t)
    BY <1>11 DEF AssessInv, AccountOK
  <2>3. t = table
    BY <1>11, <2>2 DEF BilledUnder
  <2>4. /\ account.property = owing.property /\ account.water = owing.water
        /\ account.drainage = owing.drainage
    BY <2>2, <2>3 DEF BilledUnder
  <2>5. /\ account.current = AtLeast0(account.property + account.water + account.drainage
                                        + account.penalty - account.rebate)
        /\ account.total = account.current + account.arrears
        /\ account.outstanding = AtLeast0(account.total - account.paid)
    BY DEF AssessInv, AccountOK
  <2>6. /\ account.rebate = 0 /\ account.penalty = owing.penalty
        /\ account.arrears = 0 /\ account.paid = 0
    BY <1>11
  <2> HIDE DEF owing
  <2>7. account.current = owing.total
    BY <1>2, <2>4, <2>5, <2>6 DEF AtLeast0
  <2>8. account.outstanding = owing.total
    BY <1>2, <2>5, <2>6, <2>7 DEF AtLeast0
  <2> QED
    BY <2>1, <2>8
<1> HIDE DEF owing, dues, sheet, floors, built, cells, untouched
<1>12. ASSUME notice.printed
       PROVE  /\ notice.same /\ (built \/ (OpenLand(holding) /\ holding.floors = <<>>)) =>
                     Total(sheet.lines) = sheet.property /\ FloorTable(dues) = owing.property
              /\ sheet.total = sheet.arrears + AtLeast0(sheet.property + sheet.water + sheet.drainage
                                                    + sheet.penalty - sheet.rebate)
              /\ Total(SummaryCard(dues).heads) = SummaryCard(dues).total
              /\ \A f \in floors :
                    /\ Len(holding.floors) = 1 /\ f.area > 0
                    /\ f.use = {} /\ holding.use = {} /\ ~OpenLand(holding)
                    => GisPreview(holding.gis, f.area, f.con, table) = owing
              /\ WardDemand(holding, table) = owing.total - owing.penalty
              /\ built /\ Cardinality(DOMAIN cells)
                            = Cardinality({i \in DOMAIN holding.floors :
                                              BaseRate(table, holding.floors[i].con) > 0})
                    => Total(cells) = owing.property
              /\ untouched => CitizenNotice(dues).outstanding = account.outstanding
  BY <1>5, <1>6, <1>7, <1>8, <1>9, <1>10, <1>11, <1>12
<1> QED
  BY <1>12 DEF BillsAgree, owing, dues, sheet, floors, built, cells, untouched

-----------------------------------------------------------------------------
(* How a payment is split over the heads.                                  *)

LEMMA LeastIs == \A a, b \in Nat : Least(a, b) \in Nat /\ Least(a, b) <= a
BY DEF Least

LEMMA AtLeast0Is == \A n \in Int : AtLeast0(n) \in Nat
BY DEF AtLeast0

\* What the heads before and with the next one leave of an amount
LEMMA PourRest ==
    ASSUME NEW s \in Nat, NEW d \in Nat, NEW q \in Nat
    PROVE  AtLeast0(s - q) + (d - Least(d, AtLeast0(q - s))) = AtLeast0((s + d) - q)
BY DEF AtLeast0, Least

\* A head takes of a second amount what it takes of both less what it took of the first
LEMMA PourNext ==
    ASSUME NEW s \in Nat, NEW d \in Nat, NEW q \in Nat, NEW m \in Nat
    PROVE  Least(d - Least(d, AtLeast0(q - s)), AtLeast0(m - AtLeast0(s - q)))
             = Least(d, AtLeast0((q + m) - s)) - Least(d, AtLeast0(q - s))
BY DEF AtLeast0, Least

LEMMA PourSoFar ==
    ASSUME NEW s \in Nat, NEW d \in Nat, NEW q \in Nat
    PROVE  Least(q, s) + Least(d, AtLeast0(q - s)) = Least(q, s + d)
BY DEF AtLeast0, Least

\* FloorAmounts for the five heads, and what the heads before each one ask
FiveHeads(due) == \A i \in Heads : due[i] \in Nat
Before(due) == <<0, due[1], due[1] + due[2], due[1] + due[2] + due[3],
                 due[1] + due[2] + due[3] + due[4]>>
All5(due) == Before(due)[5] + due[5]

LEMMA BeforeIs ==
    ASSUME NEW due, FiveHeads(due)
    PROVE  /\ due[1] \in Nat /\ due[2] \in Nat /\ due[3] \in Nat /\ due[4] \in Nat /\ due[5] \in Nat
           /\ Before(due)[1] = 0
           /\ Before(due)[2] = Before(due)[1] + due[1]
           /\ Before(due)[3] = Before(due)[2] + due[2]
           /\ Before(due)[4] = Before(due)[3] + due[3]
           /\ Before(due)[5] = Before(due)[4] + due[4]
           /\ \A i \in Heads : Before(due)[i] \in Nat
           /\ All5(due) \in Nat
<1>1. due[1] \in Nat /\ due[2] \in Nat /\ due[3] \in Nat /\ due[4] \in Nat /\ due[5] \in Nat
  BY DEF FiveHeads, Heads
<1> DEFINE d1 == due[1]
           d2 == due[2]
           d3 == due[3]
           d4 == due[4]
<1>2. /\ Before(due)[1] = 0 /\ Before(due)[2] = d1 /\ Before(due)[3] = d1 + d2
      /\ Before(due)[4] = d1 + d2 + d3 /\ Before(due)[5] = d1 + d2 + d3 + d4
  BY DEF Before
<1>3. \A i \in Heads : i = 1 \/ i = 2 \/ i = 3 \/ i = 4 \/ i = 5
  BY DEF Heads
<1>4. \A i \in Heads : Before(due)[i] \in Nat
  BY <1>1, <1>2, <1>3
<1> QED
  BY <1>1, <1>2, <1>4 DEF All5, Heads

LEMMA PourIs ==
    ASSUME NEW due, FiveHeads(due), NEW q \in Nat
    PROVE  /\ DOMAIN Pour(due, q) = Heads /\ FiveHeads(Pour(due, q))
           /\ \A i \in Heads : /\ Pour(due, q)[i] = Least(due[i], AtLeast0(q - Before(due)[i]))
                               /\ Pour(due, q)[i] <= due[i]
<1>1. Pour(due, q) = [i \in Heads |-> Least(due[i], AtLeast0(q - Before(due)[i]))]
  BY DEF Pour, Before
<1>2. \A i \in Heads : due[i] \in Nat /\ AtLeast0(q - Before(due)[i]) \in Nat
  BY BeforeIs, AtLeast0Is DEF FiveHeads
<1> QED
  BY <1>1, <1>2, LeastIs DEF FiveHeads

\* What is still due after an amount was poured
LEMMA LessIs ==
    ASSUME NEW due, FiveHeads(due), NEW q \in Nat
    PROVE  LET u == Less(due, Pour(due, q))
           IN  /\ FiveHeads(u)
               /\ \A i \in Heads : /\ u[i] = due[i] - Least(due[i], AtLeast0(q - Before(due)[i]))
                                   /\ Before(u)[i] = AtLeast0(Before(due)[i] - q)
               /\ All5(u) = AtLeast0(All5(due) - q)
<1> DEFINE u == Less(due, Pour(due, q))
           L(i) == Least(due[i], AtLeast0(q - Before(due)[i]))
           B(i) == Before(due)[i]
           R(i) == AtLeast0(B(i) - q)
<1>1. \A i \in Heads : u[i] = due[i] - L(i) /\ u[i] \in Nat
  <2>1. \A i \in Heads : /\ Pour(due, q)[i] = L(i) /\ Pour(due, q)[i] <= due[i]
                         /\ Pour(due, q)[i] \in Nat /\ due[i] \in Nat
    BY PourIs DEF FiveHeads
  <2>2. u = [i \in Heads |-> due[i] - Pour(due, q)[i]]
    BY DEF Less
  <2> HIDE DEF u, L
  <2> QED
    BY <2>1, <2>2
<1> HIDE DEF u
<1>2. FiveHeads(u)
  BY <1>1 DEF FiveHeads
<1>3. /\ \A i \in Heads : B(i) \in Nat /\ due[i] \in Nat
      /\ B(1) = 0 /\ B(2) = B(1) + due[1] /\ B(3) = B(2) + due[2] /\ B(4) = B(3) + due[3]
      /\ B(5) = B(4) + due[4] /\ All5(due) = B(5) + due[5]
  BY BeforeIs DEF FiveHeads, All5
<1>4. /\ Before(u)[1] = 0 /\ Before(u)[2] = Before(u)[1] + u[1]
      /\ Before(u)[3] = Before(u)[2] + u[2] /\ Before(u)[4] = Before(u)[3] + u[3]
      /\ Before(u)[5] = Before(u)[4] + u[4] /\ All5(u) = Before(u)[5] + u[5]
  BY <1>2, BeforeIs DEF All5
<1>5. \A i \in Heads : R(i) + u[i] = AtLeast0((B(i) + due[i]) - q)
  BY <1>1, <1>3, PourRest
<1>6. R(1) = 0
  BY <1>3 DEF AtLeast0
<1>7. 1 \in Heads /\ 2 \in Heads /\ 3 \in Heads /\ 4 \in Heads /\ 5 \in Heads
  BY DEF Heads
<1> DEFINE Left(n) == AtLeast0(n - q)
<1>8. \A i \in Heads : R(i) + u[i] = Left(B(i) + due[i]) /\ R(i) = Left(B(i))
  BY <1>5
<1> HIDE DEF Left, R, B, L
<1>9. Before(u)[1] = R(1)
  BY <1>4, <1>6
<1>10. Before(u)[2] = R(2)
  BY <1>3, <1>4, <1>7, <1>8, <1>9
<1>11. Before(u)[3] = R(3)
  BY <1>3, <1>4, <1>7, <1>8, <1>10
<1>12. Before(u)[4] = R(4)
  BY <1>3, <1>4, <1>7, <1>8, <1>11
<1>13. Before(u)[5] = R(5)
  BY <1>3, <1>4, <1>7, <1>8, <1>12
<1>14. All5(u) = Left(All5(due))
  BY <1>3, <1>4, <1>7, <1>8, <1>13
<1>15. \A i \in Heads : Before(u)[i] = R(i)
  <2>1. \A i \in Heads : i = 1 \/ i = 2 \/ i = 3 \/ i = 4 \/ i = 5
    BY DEF Heads
  <2> QED
    BY <1>9, <1>10, <1>11, <1>12, <1>13, <2>1
<1> QED
  BY <1>1, <1>2, <1>14, <1>15 DEF u, Left, R, B, L

\* The heads take an amount as far as they ask
LEMMA PourTotal ==
    ASSUME NEW due, FiveHeads(due), NEW q \in Nat
    PROVE  Total(Pour(due, q)) = Least(q, All5(due))
<1> DEFINE p == Pour(due, q)
           B(i) == Before(due)[i]
<1>1. /\ DOMAIN p = Heads /\ \A i \in Heads : p[i] \in Nat
      /\ \A i \in Heads : p[i] = Least(due[i], AtLeast0(q - B(i)))
  BY PourIs DEF FiveHeads
<1>2. Total(p) = p[1] + p[2] + p[3] + p[4] + p[5]
  <2> HIDE DEF p
  <2>1. DOMAIN p = 1..5 /\ \A i \in 1..5 : p[i] \in Int
    BY <1>1 DEF Heads
  <2> QED
    BY <2>1, TotalIsSum, SumOfFive
<1>3. /\ \A i \in Heads : B(i) \in Nat /\ due[i] \in Nat
      /\ B(1) = 0 /\ B(2) = B(1) + due[1] /\ B(3) = B(2) + due[2] /\ B(4) = B(3) + due[3]
      /\ B(5) = B(4) + due[4] /\ All5(due) = B(5) + due[5]
  BY BeforeIs DEF FiveHeads, All5
<1>4. \A i \in Heads : Least(q, B(i)) + p[i] = Least(q, B(i) + due[i])
  <2> HIDE DEF p, B
  <2> SUFFICES ASSUME NEW i \in Heads
               PROVE  Least(q, B(i)) + p[i] = Least(q, B(i) + due[i])
    OBVIOUS
  <2>1. B(i) \in Nat /\ due[i] \in Nat /\ p[i] = Least(due[i], AtLeast0(q - B(i)))
    BY <1>1, <1>3
  <2>2. Least(q, B(i)) + Least(due[i], AtLeast0(q - B(i))) = Least(q, B(i) + due[i])
    BY <2>1, PourSoFar
  <2> QED
    BY <2>1, <2>2
<1>5. 1 \in Heads /\ 2 \in Heads /\ 3 \in Heads /\ 4 \in Heads /\ 5 \in Heads
  BY DEF Heads
<1>6. Least(q, B(1)) = 0
  BY <1>3 DEF Least
<1> DEFINE M(n) == Least(q, n)
<1>7. \A i \in Heads : M(B(i)) + p[i] = M(B(i) + due[i])
  BY <1>4
<1>8. M(B(1)) = 0 /\ \A i \in Heads : p[i] \in Nat
  BY <1>1, <1>6
<1> HIDE DEF p, B, M
<1>9. M(B(2)) = p[1]
  BY <1>3, <1>5, <1>7, <1>8
<1>10. M(B(3)) = p[1] + p[2]
  BY <1>3, <1>5, <1>7, <1>8, <1>9
<1>11. M(B(4)) = p[1] + p[2] + p[3]
  BY <1>3, <1>5, <1>7, <1>8, <1>10
<1>12. M(B(5)) = p[1] + p[2] + p[3] + p[4]
  BY <1>3, <1>5, <1>7, <1>8, <1>11
<1>13. M(All5(due)) = p[1] + p[2] + p[3] + p[4] + p[5]
  BY <1>3, <1>5, <1>7, <1>8, <1>12
<1> QED
  BY <1>2, <1>13 DEF M, p

(* A second payment puts on a head what both together put on it less what   *)
(* the first did. *)
LEMMA PourMore ==
    ASSUME NEW due, FiveHeads(due), NEW q \in Nat, NEW m \in Nat, NEW i \in Heads
    PROVE  Pour(Less(due, Pour(due, q)), m)[i] = Pour(due, q + m)[i] - Pour(due, q)[i]
<1> DEFINE u == Less(due, Pour(due, q))
           B == Before(due)[i]
<1>1. /\ FiveHeads(u) /\ u[i] = due[i] - Least(due[i], AtLeast0(q - B))
      /\ Before(u)[i] = AtLeast0(B - q)
  BY LessIs
<1>2. due[i] \in Nat /\ B \in Nat /\ q + m \in Nat
  BY BeforeIs DEF FiveHeads
<1> HIDE DEF u
<1>3. Pour(u, m)[i] = Least(u[i], AtLeast0(m - Before(u)[i]))
  BY <1>1, PourIs
<1>4. /\ Pour(due, q + m)[i] = Least(due[i], AtLeast0((q + m) - B))
      /\ Pour(due, q)[i] = Least(due[i], AtLeast0(q - B))
  BY <1>2, PourIs
<1> HIDE DEF B
<1>5. Least(due[i] - Least(due[i], AtLeast0(q - B)), AtLeast0(m - AtLeast0(B - q)))
        = Least(due[i], AtLeast0((q + m) - B)) - Least(due[i], AtLeast0(q - B))
  BY <1>2, PourNext
<1> QED
  BY <1>1, <1>3, <1>4, <1>5 DEF u

(* The parts of a split add up to the amount. *)
LEMMA SplitAddsUp ==
    ASSUME NEW unpaid, FiveHeads(unpaid), NEW amount \in Nat
    PROVE  /\ Total(Split(unpaid, amount)) = amount
           /\ amount <= All5(unpaid) => Split(unpaid, amount) = Pour(unpaid, amount)
<1> DEFINE p == Pour(unpaid, amount)
           S == {i \in Heads : p[i] > 0 \/ unpaid[i] > 0 \/ i = 2}
           last == Max(S)
           total == Total(p)
           s == [p EXCEPT ![last] = p[last] + (amount - total)]
<1>1. DOMAIN p = Heads /\ (\A i \in Heads : p[i] \in Nat) /\ total = Least(amount, All5(unpaid))
  BY PourIs, PourTotal DEF FiveHeads
<1>2. All5(unpaid) \in Nat /\ total \in Nat
  <2>1. All5(unpaid) \in Nat
    BY BeforeIs
  <2> QED
    BY <1>1, <2>1, LeastIs
<1>3. last \in Heads
  <2>1. S \subseteq Heads /\ 2 \in S
    BY DEF Heads
  <2>2. IsFiniteSet(Heads) /\ Heads \subseteq Int
    <3>1. 1 \in Int /\ 5 \in Int
      OBVIOUS
    <3>2. IsFiniteSet(1..5)
      BY <3>1, Interval, Zenon
    <3> QED
      BY <3>2 DEF Heads
  <2> HIDE DEF S
  <2>3. IsFiniteSet(S)
    BY <2>1, <2>2, FS_Subset
  <2> QED
    BY <2>1, <2>2, <2>3, MaxIs
<1>4. Split(unpaid, amount) = s
  BY DEF Split, Overflow
<1> HIDE DEF p, last, total
<1>5. DOMAIN s = Heads /\ s[last] = p[last] + (amount - total) /\ \A i \in Heads : i # last => s[i] = p[i]
  BY <1>1, <1>3
<1> HIDE DEF s
<1>6. \A i \in Heads : p[i] \in Int /\ s[i] \in Int
  BY <1>1, <1>2, <1>3, <1>5
<1>7. IsFiniteSet(Heads)
  <2>1. 1 \in Int /\ 5 \in Int
    OBVIOUS
  <2> QED
    BY <2>1, Interval, Zenon DEF Heads
<1>8. SumOver(s, Heads) = SumOver(p, Heads) + (s[last] - p[last])
  <2> HIDE DEF Heads
  <2> QED
    BY <1>3, <1>5, <1>6, <1>7, SumUpdate
<1>9. Total(s) = SumOver(s, Heads) /\ total = SumOver(p, Heads)
  BY <1>1, <1>5, TotalIsSum DEF total
<1>10. Total(s) = amount
  BY <1>1, <1>2, <1>3, <1>5, <1>8, <1>9
<1>11. ASSUME amount <= All5(unpaid)
       PROVE  s = p
  <2>1. total = amount
    BY <1>1, <1>2, <1>11 DEF Least
  <2>2. s[last] = p[last]
    BY <1>1, <1>2, <1>3, <1>5, <2>1
  <2>3. p = [i \in Heads |-> p[i]]
    BY DEF p, Pour
  <2>4. s = [i \in Heads |-> s[i]]
    BY <1>1 DEF s
  <2>5. \A i \in Heads : s[i] = p[i]
    BY <1>5, <2>2
  <2> HIDE DEF s
  <2> QED
    BY <2>3, <2>4, <2>5
<1> QED
  BY <1>4, <1>10, <1>11 DEF p

LEMMA DueIs ==
    ASSUME NEW h, NEW r \in ReceiptRow, AccountOK(h, r.account)
    PROVE  /\ FiveHeads(Due(r)) /\ DOMAIN Due(r) = Heads
           /\ r.account.total <= All5(Due(r))
<1> DEFINE a == r.account
           d2 == AtLeast0(a.property - a.rebate)
           due == Due(r)
<1>1. a \in AccountRow /\ a.total = a.current + a.arrears
      /\ a.current = AtLeast0(a.property + a.water + a.drainage + a.penalty - a.rebate)
  BY DEF AccountOK
<1>2. /\ a.property \in Nat /\ a.water \in Nat /\ a.drainage \in Nat /\ a.penalty \in Nat
      /\ a.rebate \in Nat /\ a.arrears \in Nat
  BY <1>1 DEF AccountRow
<1>3. d2 \in Nat
  BY <1>2 DEF AtLeast0
<1>4. due = <<a.arrears, d2, a.water, a.drainage, a.penalty>>
  BY DEF Due
<1> HIDE DEF a, d2, due
<1>5. /\ due[1] = a.arrears /\ due[2] = d2 /\ due[3] = a.water /\ due[4] = a.drainage
      /\ due[5] = a.penalty /\ DOMAIN due = 1..5
  BY <1>4
<1>6. FiveHeads(due)
  <2>1. \A i \in Heads : i = 1 \/ i = 2 \/ i = 3 \/ i = 4 \/ i = 5
    BY DEF Heads
  <2> QED
    BY <1>2, <1>3, <1>5, <2>1 DEF FiveHeads
<1>7. All5(due) = a.arrears + d2 + a.water + a.drainage + a.penalty
  BY <1>2, <1>3, <1>5, <1>6, BeforeIs DEF All5
<1>8. a.total <= All5(due)
  BY <1>1, <1>2, <1>7 DEF AtLeast0, d2
<1> QED
  BY <1>5, <1>6, <1>8 DEF a, due, Heads

(* The split of a receipt adds up to its amount; within what the demand     *)
(* asks it is what the heads take of all payments up to it less what they   *)
(* took of those before it. *)
LEMMA AllocationIs ==
    ASSUME NEW h, NEW r \in ReceiptRow, ReceiptOK(h, r)
    PROVE  /\ Total(Allocation(r)) = r.amount
           /\ r.paidAfter <= r.account.total =>
                 \A i \in Heads : Allocation(r)[i] = Pour(Due(r), r.paidAfter)[i]
                                                       - Pour(Due(r), r.account.paid)[i]
<1> DEFINE due == Due(r)
           q == r.account.paid
           m == r.amount
           u == Less(due, Pour(due, q))
<1>1. /\ AccountOK(h, r.account) /\ r.account \in AccountRow /\ m \in Nat
      /\ r.paidAfter = q + m
  BY DEF ReceiptOK, AccountOK, ReceiptRow
<1>2. q \in Nat /\ r.account.total \in Nat
  BY <1>1 DEF AccountRow
<1>3. FiveHeads(due) /\ r.account.total <= All5(due)
  BY <1>1, DueIs
<1> HIDE DEF q, m
<1>4. PaidBefore(r) = q
  BY <1>1, <1>2 DEF PaidBefore, AtLeast0, m
<1>5. Allocation(r) = Split(u, m)
  BY <1>4 DEF Allocation, m
<1>6. FiveHeads(u) /\ All5(u) = AtLeast0(All5(due) - q) /\ All5(due) \in Nat
  BY <1>2, <1>3, LessIs, BeforeIs
<1>7. Total(Split(u, m)) = m
  <2> HIDE DEF u
  <2> QED
    BY <1>1, <1>6, SplitAddsUp
<1>8. ASSUME r.paidAfter <= r.account.total, NEW i \in Heads
      PROVE  Allocation(r)[i] = Pour(due, r.paidAfter)[i] - Pour(due, q)[i]
  <2> HIDE DEF due
  <2>1. m <= All5(u)
    BY <1>1, <1>2, <1>3, <1>6, <1>8 DEF AtLeast0
  <2>2. Split(u, m) = Pour(u, m)
    <3> HIDE DEF u
    <3> QED
      BY <1>1, <1>6, <2>1, SplitAddsUp
  <2>3. Pour(u, m)[i] = Pour(due, q + m)[i] - Pour(due, q)[i]
    BY <1>1, <1>2, <1>3, PourMore
  <2> QED
    BY <1>1, <1>5, <2>2, <2>3
<1> QED
  BY <1>5, <1>7, <1>8 DEF m, q

LEMMA SameDue ==
    ASSUME NEW r, NEW s, AsksTheSame(r.account, s.account)
    PROVE  Due(r) = Due(s)
BY DEF AsksTheSame, Due

\* Receipts in a row put on no head more than it asks
LEMMA RowWithinDue ==
    ASSUME AssessInv, ~moved, account.published, account.paid <= account.total,
           NEW i \in DOMAIN receipts, NEW head \in Heads
    PROVE  SumOver([j \in DOMAIN receipts |-> Allocation(receipts[j])[head]], DOMAIN receipts)
             <= Due(receipts[i])[head]
<1> DEFINE n == Len(receipts)
           D == DOMAIN receipts
           due == Due(receipts[i])
           f == [j \in D |-> Allocation(receipts[j])[head]]
           paid(k) == IF k \in D THEN receipts[k].account.paid ELSE account.paid
           g == [k \in 1..(n + 1) |-> Pour(due, paid(k))[head]]
<1>1. /\ D = 1..n /\ n \in Nat /\ InARow(receipts, account)
      /\ \A j \in D : receipts[j] \in ReceiptRow /\ ReceiptOK(holding, receipts[j])
      /\ account.paid \in Nat /\ account.total \in Nat
  BY Known DEF AssessInv
<1>2. \A j \in D : AccountOK(holding, receipts[j].account) /\ receipts[j].account.paid \in Nat
  <2>1. \A j \in D : AccountOK(holding, receipts[j].account) /\ receipts[j].account \in AccountRow
    BY <1>1 DEF ReceiptOK, AccountOK
  <2> QED
    BY <2>1 DEF AccountRow
<1>3. FiveHeads(due)
  BY <1>1, <1>2, DueIs
<1>4. \A j \in D : Due(receipts[j]) = due /\ receipts[j].account.total = account.total
  <2>1. \A j \in D : AsksTheSame(receipts[j].account, receipts[i].account)
    BY <1>1 DEF InARow, AsksTheSame
  <2>2. \A j \in D : receipts[j].account.total = account.total
    BY <1>1 DEF InARow, AsksTheSame
  <2> QED
    BY <2>1, <2>2, SameDue
<1>5. \A k \in 1..(n + 1) : paid(k) \in Nat
  BY <1>1, <1>2
<1>6. \A j \in D : receipts[j].paidAfter = paid(j + 1) /\ receipts[j].paidAfter <= account.paid
  <2> SUFFICES ASSUME NEW j \in D
               PROVE  receipts[j].paidAfter = paid(j + 1) /\ receipts[j].paidAfter <= account.paid
    OBVIOUS
  <2>1. receipts[j].paidAfter \in Nat
    BY <1>1 DEF ReceiptRow
  <2>2. CASE j = n
    <3>1. account.paid = receipts[j].paidAfter /\ j + 1 \notin D
      BY <1>1, <2>2 DEF InARow
    <3> QED
      BY <1>1, <3>1
  <2>3. CASE j # n
    <3>1. j + 1 \in D /\ j + 1 > 1 /\ (j + 1) - 1 = j /\ j < n
      BY <1>1, <2>3
    <3>2. receipts[j].paidAfter < account.paid
      BY <1>1, <3>1 DEF InARow
    <3>3. receipts[j + 1].account.paid = receipts[(j + 1) - 1].paidAfter
      <4> DEFINE k == j + 1
      <4>1. k \in D /\ k > 1
        BY <3>1
      <4> HIDE DEF k
      <4>2. receipts[k].account.paid = receipts[k - 1].paidAfter
        BY <1>1, <4>1 DEF InARow
      <4> QED
        BY <4>2 DEF k
    <3> QED
      BY <1>1, <2>1, <3>1, <3>2, <3>3
  <2> QED
    BY <2>2, <2>3
<1>7. \A j \in D : f[j] = g[j + 1] - g[j]
  <2> SUFFICES ASSUME NEW j \in D
               PROVE  f[j] = g[j + 1] - g[j]
    OBVIOUS
  <2> DEFINE r == receipts[j]
  <2>1. r \in ReceiptRow /\ ReceiptOK(holding, r) /\ Due(r) = due
    BY <1>1, <1>4
  <2>2. r.paidAfter <= r.account.total
    <3>1. r.paidAfter \in Nat
      BY <2>1 DEF ReceiptRow
    <3> QED
      BY <1>1, <1>4, <1>6, <3>1
  <2>3. f[j] = Allocation(r)[head]
    OBVIOUS
  <2>4. paid(j) = r.account.paid /\ paid(j + 1) = r.paidAfter
    BY <1>6
  <2>5. j \in 1..(n + 1) /\ j + 1 \in 1..(n + 1)
    BY <1>1
  <2>6. g[j] = Pour(due, paid(j))[head] /\ g[j + 1] = Pour(due, paid(j + 1))[head]
    BY <2>5
  <2> HIDE DEF f, g, paid, r, due
  <2>7. Allocation(r)[head] = Pour(due, r.paidAfter)[head] - Pour(due, r.account.paid)[head]
    BY <2>1, <2>2, AllocationIs
  <2> QED
    BY <2>3, <2>4, <2>6, <2>7
<1>8. \A k \in 1..(n + 1) : g[k] \in Nat /\ g[k] <= due[head]
  <2>1. \A q \in Nat : Pour(due, q)[head] \in Nat /\ Pour(due, q)[head] <= due[head]
    <3> HIDE DEF due
    <3> QED
      BY <1>3, PourIs DEF FiveHeads
  <2>2. \A k \in 1..(n + 1) : g[k] = Pour(due, paid(k))[head]
    OBVIOUS
  <2> HIDE DEF g, paid, due
  <2> QED
    BY <1>5, <2>1, <2>2
<1>9. 1 \in 1..(n + 1) /\ n + 1 \in 1..(n + 1) /\ due[head] \in Nat
  BY <1>1, <1>3 DEF FiveHeads
<1> HIDE DEF f, g, due, n
<1>10. SumOver(f, 1..n) = g[n + 1] - g[1]
  <2>1. \A k \in 1..(n + 1) : g[k] \in Int
    BY <1>8
  <2>2. \A k \in 1..n : f[k] = g[k + 1] - g[k]
    BY <1>1, <1>7
  <2>3. n \in Nat
    BY <1>1
  <2> QED
    BY <2>1, <2>2, <2>3, SumOfSteps
<1>11. SumOver(f, D) <= due[head]
  BY <1>1, <1>8, <1>9, <1>10
<1> QED
  BY <1>11 DEF f, due

LEMMA InvReceiptsAddUp == AssessInv => ReceiptsAddUp
<1> SUFFICES ASSUME AssessInv
             PROVE  ReceiptsAddUp
  OBVIOUS
<1> DEFINE D == DOMAIN receipts
           copy == [i \in D |-> ReceiptCopy(receipts[i])]
           snaps == {i \in D : receipts[i].account.published}
           n == Len(receipts)
<1>1. /\ D = 1..n /\ n \in Nat
      /\ \A i \in D : receipts[i] \in ReceiptRow /\ ReceiptOK(holding, receipts[i])
      /\ account.paid \in Nat /\ account.total \in Nat /\ account.outstanding \in Nat
      /\ account.published \in BOOLEAN
  BY Known DEF AssessInv
<1>2. \A i \in snaps : i \in D /\ copy[i].split = Allocation(receipts[i])
                       /\ copy[i].before = OutstandingBefore(receipts[i])
                       /\ (copy[i].full <=> receipts[i].after = 0)
  BY DEF ReceiptCopy
<1> HIDE DEF copy
<1>3. \A i \in snaps : Total(copy[i].split) = receipts[i].amount
  BY <1>1, <1>2, AllocationIs
<1>4. ASSUME NEW i \in D, receipts[i].account.rebate = 0, receipts[i].account.arrears = 0
      PROVE  CitizenReceipt(receipts[i]).heads = CitizenReceipt(receipts[i]).total
  <2> DEFINE a == receipts[i].account
             tax == SurveyTax(holding, table)
             d == IF a.published THEN a ELSE DuesPayload(holding, table).tax
  <2>1. /\ CitizenReceipt(receipts[i]).heads = d.property + d.water + d.drainage + d.penalty
        /\ CitizenReceipt(receipts[i]).total = d.total
    BY DEF CitizenReceipt, Heading, WithoutPenalty
  <2>2. CASE a.published
    <3>1. AccountOK(holding, a)
      BY <1>1 DEF ReceiptOK
    <3>2. /\ a \in AccountRow /\ a.total = a.current + a.arrears /\ a.rebate = 0 /\ a.arrears = 0
          /\ a.current = AtLeast0(a.property + a.water + a.drainage + a.penalty - a.rebate)
      BY <1>4, <3>1 DEF AccountOK
    <3> HIDE DEF a
    <3>3. a.property \in Nat /\ a.water \in Nat /\ a.drainage \in Nat /\ a.penalty \in Nat
      BY <3>2 DEF AccountRow
    <3>4. a.total = a.property + a.water + a.drainage + a.penalty
      BY <3>2, <3>3 DEF AtLeast0
    <3> QED
      BY <2>1, <2>2, <3>4
  <2>3. CASE ~a.published
    <3>1. d = tax
      BY <2>3 DEF DuesPayload
    <3>2. HeadsAddUp(tax)
      BY Known, SurveyTaxIs
    <3> HIDE DEF a, d, tax
    <3> QED
      BY <2>1, <3>1, <3>2 DEF HeadsAddUp
  <2> QED
    BY <2>2, <2>3
<1>5. ASSUME ~moved, account.paid <= account.total
      PROVE  /\ \A i \in snaps, h \in Heads :
                   Total([j \in snaps |-> copy[j].split[h]]) <= Due(receipts[i])[h]
             /\ \A i \in snaps : i > 1 => copy[i].before = receipts[i - 1].after
             /\ \A i \in snaps : copy[i].full <=> account.outstanding = 0 /\ i = n
  <2>1. InARow(receipts, account)
    BY <1>5 DEF AssessInv
  <2>2. \A i \in D : receipts[i].account.published = account.published
    BY <2>1 DEF InARow, AsksTheSame
  <2>3. CASE ~account.published
    <3>1. snaps = {}
      BY <2>2, <2>3
    <3> HIDE DEF snaps
    <3> QED
      BY <3>1
  <2>4. CASE account.published
    <3>1. snaps = D
      BY <2>2, <2>4
    <3>2. ASSUME NEW i \in snaps, NEW h \in Heads
          PROVE  Total([j \in snaps |-> copy[j].split[h]]) <= Due(receipts[i])[h]
      <4> DEFINE f == [j \in snaps |-> copy[j].split[h]]
                 g == [j \in D |-> Allocation(receipts[j])[h]]
      <4>1. f = g
        BY <1>2, <3>1
      <4>2. Total(f) = SumOver(g, D)
        <5>1. DOMAIN g = D
          OBVIOUS
        <5>2. Total(g) = SumOver(g, D)
          <6> HIDE DEF g
          <6> QED
            BY <5>1, TotalIsSum
        <5> HIDE DEF f, g
        <5> QED
          BY <4>1, <5>2
      <4>3. SumOver(g, D) <= Due(receipts[i])[h]
        BY <1>5, <2>4, <3>1, <3>2, RowWithinDue
      <4> HIDE DEF f, g, D
      <4> QED
        BY <4>2, <4>3 DEF f
    <3>3. ASSUME NEW i \in D
          PROVE  /\ receipts[i].paidAfter = receipts[i].account.paid + receipts[i].amount
                 /\ receipts[i].account.paid \in Nat /\ receipts[i].amount \in Nat
                 /\ receipts[i].paidAfter \in Nat /\ receipts[i].paidAfter <= account.paid
                 /\ (i = n <=> receipts[i].paidAfter = account.paid)
                 /\ receipts[i].account.total = account.total
                 /\ receipts[i].after = account.total - receipts[i].paidAfter
      <4> DEFINE r == receipts[i]
      <4>1. /\ r.paidAfter = r.account.paid + r.amount /\ r.account \in AccountRow
            /\ r.after = AtLeast0(r.account.total - r.paidAfter)
            /\ r.amount \in Nat /\ r.paidAfter \in Nat
        BY <1>1 DEF ReceiptOK, AccountOK, ReceiptRow
      <4>2. r.account.paid \in Nat
        BY <4>1 DEF AccountRow
      <4>3. r.account.total = account.total
        BY <2>1 DEF InARow, AsksTheSame
      <4>4. (i = n => account.paid = r.paidAfter) /\ (i < n => r.paidAfter < account.paid)
        BY <2>1, <2>4 DEF InARow
      <4>5. i = n \/ i < n
        BY <1>1
      <4> HIDE DEF r, n
      <4>6. r.paidAfter <= account.paid /\ (i = n <=> r.paidAfter = account.paid)
        BY <1>1, <4>1, <4>4, <4>5
      <4>7. r.after = account.total - r.paidAfter
        BY <1>1, <1>5, <4>1, <4>3, <4>6 DEF AtLeast0
      <4> QED
        BY <4>1, <4>2, <4>3, <4>6, <4>7 DEF r
    <3>4. ASSUME NEW i \in snaps, i > 1
          PROVE  copy[i].before = receipts[i - 1].after
      <4> DEFINE r == receipts[i]
                 p == r.account.paid
                 b == receipts[i - 1].after
      <4>1. i \in D /\ i - 1 \in D
        BY <1>1, <3>1, <3>4
      <4>2. p = receipts[i - 1].paidAfter
        BY <2>1, <2>4, <3>4, <4>1 DEF InARow
      <4>3. /\ r.account.total = account.total /\ r.paidAfter = p + r.amount
            /\ r.after = account.total - r.paidAfter /\ r.amount \in Nat /\ p \in Nat
            /\ b = account.total - p /\ p <= account.paid
        BY <3>3, <4>1, <4>2
      <4> HIDE DEF p, b, r
      <4>4. r.paidAfter - r.amount = p /\ r.after + r.amount = account.total - p
        BY <1>1, <4>3
      <4>5. AtLeast0(p) = p /\ AtLeast0(account.total - p) = account.total - p
        BY <1>1, <1>5, <4>3 DEF AtLeast0
      <4>6. OutstandingBefore(r) = account.total - p
        BY <4>3, <4>4, <4>5 DEF OutstandingBefore
      <4> QED
        BY <1>2, <4>3, <4>6 DEF r, b
    <3>5. ASSUME NEW i \in snaps
          PROVE  copy[i].full <=> account.outstanding = 0 /\ i = n
      <4>1. account.outstanding = account.total - account.paid
        <5>1. account.outstanding = AtLeast0(account.total - account.paid)
          BY DEF AssessInv, AccountOK
        <5> QED
          BY <1>1, <1>5, <5>1 DEF AtLeast0
      <4>2. /\ receipts[i].after = account.total - receipts[i].paidAfter
            /\ receipts[i].paidAfter \in Nat /\ receipts[i].paidAfter <= account.paid
            /\ (i = n <=> receipts[i].paidAfter = account.paid)
        BY <3>1, <3>3
      <4>3. receipts[i].after = 0 <=> account.outstanding = 0 /\ i = n
        <5> HIDE DEF n
        <5> QED
          BY <1>1, <1>5, <4>1, <4>2
      <4> QED
        BY <1>2, <4>3
    <3> QED
      BY <3>2, <3>4, <3>5
  <2> QED
    BY <1>1, <2>3, <2>4
<1> HIDE DEF D, snaps
<1> QED
  BY <1>3, <1>4, <1>5 DEF ReceiptsAddUp, D, copy, snaps

(* Whatever is published, paid, carried and printed in whatever order, the  *)
(* notice, the dues page, the reports and the receipts of a property agree  *)
(* with one another. *)
THEOREM PapersStayAgreed == AssessSpec => []PapersAgree
<1>1. AssessInv => PapersAgree
  BY InvBillsAgree, InvReceiptsAddUp DEF PapersAgree
<1> QED
  BY <1>1, AssessInvariance, PTL

-----------------------------------------------------------------------------
(* The rows keep their types; only a year that is in the table is in use.  *)
LEMMA RefTypeStep ==
    ASSUME RefInv, RefTypeOK, RefInv', [RefNext]_refVars
    PROVE  RefTypeOK'
<1>1. /\ year' \in [Codes -> Years] /\ rule' \in [Rules -> RuleRows] /\ raced' \in BOOLEAN
      /\ year \in [Codes -> Years] /\ ask \in [Clerks -> Asks]
  BY DEF RefInv
<1>2. used \subseteq {y \in Codes : year[y].on} /\ asked \in 0..MaxAsk /\ MaxAsk \in Nat
  BY ReferenceConstants DEF RefTypeOK
<1>3. ASSUME year' = year, used' = used, asked' \in 0..MaxAsk
      PROVE  RefTypeOK'
  BY <1>1, <1>2, <1>3 DEF RefTypeOK, Years, RuleRows
<1>4. ASSUME NEW p, NEW r, Send(p, r)
      PROVE  RefTypeOK'
  <2>1. asked < MaxAsk /\ asked' = asked + 1 /\ year' = year /\ used' = used
    BY <1>4 DEF Send, refTables
  <2> QED
    BY <1>2, <1>3, <2>1
<1>5. ASSUME NEW p \in Clerks, WriteYear(p)
      PROVE  RefTypeOK'
  <2> DEFINE k == ask[p]
  <2>1. k \in Asks /\ k.y \in Codes /\ k.op \in YearOps
    BY <1>1, <1>5 DEF WriteYear, Asks
  <2>2. used' = used /\ asked' = asked
    BY <1>5 DEF WriteYear
  <2>3. \A y \in Codes \ {k.y} : year'[y] = year[y]
    BY <1>1, <1>5 DEF WriteYear
  <2>4. k.y \in used /\ year[k.y].on => year'[k.y].on
    <3>1. \A row \in Years : row.on => /\ \A r : [row EXCEPT !.range = r].on
                                       /\ \A s : [row EXCEPT !.st = s].on
      BY DEF Years
    <3>2. year[k.y] \in Years
      BY <1>1, <2>1
    <3> QED
      BY <1>1, <1>5, <2>1, <3>1, <3>2 DEF WriteYear, YearOps
  <2>5. used' \subseteq {y \in Codes : year'[y].on}
    BY <1>2, <2>2, <2>3, <2>4
  <2> QED
    BY <1>1, <1>2, <2>2, <2>5 DEF RefTypeOK, Years, RuleRows
<1>6. ASSUME NEW p \in Clerks, LoadReference(p) \/ CheckYear(p) \/ CheckRule(p) \/ WriteRule(p)
      PROVE  RefTypeOK'
  <2>1. year' = year /\ used' = used /\ asked' = asked
    BY <1>6 DEF LoadReference, CheckYear, CheckRule, WriteRule, refTables
  <2> QED
    BY <1>2, <1>3, <2>1
<1>7. ASSUME NEW p \in Clerks, NEW y \in Codes, ToggleYear(p, y) \/ DeleteYear(p, y)
                \/ \E range \in DatesTyped : AddYear(p, y, range) \/ EditYear(p, y, range)
      PROVE  RefTypeOK'
  BY <1>4, <1>7 DEF ToggleYear, DeleteYear, AddYear, EditYear, SendYear
<1>8. ASSUME NEW p \in Clerks, NEW r \in Rules, PublishRule(p, r) \/ ArchiveRule(p, r) \/ RemoveRule(p, r)
                \/ \E v \in Values, of \in Codes \cup {All} : AddRule(p, r, v, of) \/ EditRule(p, r, v, of)
      PROVE  RefTypeOK'
  BY <1>4, <1>8 DEF PublishRule, ArchiveRule, RemoveRule, AddRule, EditRule, SendRule
<1>9. ASSUME NEW y \in Codes, UseYear(y)
      PROVE  RefTypeOK'
  <2>1. year' = year /\ asked' = asked /\ used' = used \cup {y} /\ year[y].on
    BY <1>9 DEF UseYear
  <2>2. used' \subseteq {z \in Codes : year'[z].on}
    BY <1>2, <2>1
  <2> QED
    BY <1>1, <1>2, <2>1, <2>2 DEF RefTypeOK, Years, RuleRows
<1>10. CASE UNCHANGED refVars
  BY <1>2, <1>3, <1>10 DEF refVars
<1> QED
  BY <1>5, <1>6, <1>7, <1>8, <1>9, <1>10 DEF RefNext

(* RefTypeOK: years and rules are rows of their tables, and a year that    *)
(* configurations, demands or payments refer to is in the table: remove    *)
(* of reference.service.ts refuses it, and the foreign key does.           *)
THEOREM ReferenceTyped == RefSpec => []RefTypeOK
<1>1. RefInit /\ RefInv => RefTypeOK
  <2>1. RefInit => used = {} /\ asked = 0 /\ MaxAsk \in Nat
    BY ReferenceConstants DEF RefInit
  <2>2. RefInv => year \in [Codes -> Years] /\ rule \in [Rules -> RuleRows] /\ raced \in BOOLEAN
    BY DEF RefInv
  <2> QED
    BY <2>1, <2>2 DEF RefTypeOK, Years, RuleRows
<1>2. RefInv /\ RefTypeOK /\ [RefNext]_refVars => RefTypeOK'
  BY RefStep, RefTypeStep
<1> QED
  BY <1>1, <1>2, ReferenceInvariance, PTL DEF RefSpec

(* Versions are numbered from 1, and what is billed is rates.              *)
VersionsAhead(r) ==
    /\ r.op = "publish" /\ r.pc \in {"version", "mark"} => r.ver >= 1
    /\ r.op = "copy" /\ r.pc # "read" => r.ver >= 1
    /\ r.op = "copy" /\ r.pc \in {"cells", "pct", "version", "mark"} =>
          \A g \in r.got : g \in Target => g.ver >= 1
    /\ r.pc = "billing" => r.got \subseteq Draft

Numbered ==
    /\ \A w \in Wards : cfg[w].ver >= 1 /\ \A h \in hist[w] : h.ver >= 1
    /\ bill \in [Wards -> SUBSET Draft]
    /\ \A q \in Reqs : VersionsAhead(req[q])

LEMMA NumberedTypes == RatesInv /\ Numbered => RatesTypeOK
<1> SUFFICES ASSUME RatesInv, Numbered
             PROVE  RatesTypeOK
  OBVIOUS
<1>1. /\ cfg \in [Wards -> Config] /\ hist \in [Wards -> SUBSET Version]
      /\ page \in [Pages -> Workspaces]
  BY DEF RatesInv
<1>2. ASSUME NEW w \in Wards
      PROVE  /\ cfg[w].st \in {"none", "DRAFT", "PUBLISHED"}
             /\ cfg[w].ver \in Nat \ {0} /\ RatesOf(cfg[w]) \in Draft
             /\ hist[w] \subseteq [ver : Nat \ {0}, cells : Rates, pct : Rates]
             /\ bill[w] \subseteq Draft
  <2>1. cfg[w] \in Config /\ cfg[w].ver >= 1
    BY <1>1 DEF Numbered
  <2>2. \A h \in hist[w] : h \in Version /\ h.ver >= 1
    BY <1>1 DEF Numbered
  <2>3. hist[w] \subseteq [ver : Nat \ {0}, cells : Rates, pct : Rates]
    BY <2>2 DEF Version
  <2> QED
    BY <2>1, <2>3 DEF Numbered, Config, Status, RatesOf, Draft
<1>3. \A p \in Pages : page[p].draft \in Draft
  BY <1>1 DEF Workspaces
<1> QED
  BY <1>2, <1>3 DEF RatesTypeOK

LEMMA NumberedStart == RatesInit => Numbered
<1> SUFFICES ASSUME RatesInit
             PROVE  Numbered
  OBVIOUS
<1>1. 0 \in Rates
  BY RatesConstants
<1>2. /\ \A w \in Wards : cfg[w].ver = 1 /\ \A h \in hist[w] : h.ver = 1
      /\ bill \in [Wards -> SUBSET Draft]
  BY <1>1 DEF RatesInit, Draft
<1>3. NoReq.op = "none" /\ NoReq.pc = "idle" /\ NoReq.got = {}
  BY DEF NoReq
<1>4. \A q \in Reqs : req[q] = NoReq
  BY DEF RatesInit
<1> QED
  BY <1>2, <1>3, <1>4 DEF Numbered, VersionsAhead

LEMMA NewVersionIs ==
    ASSUME RatesInv, Numbered, NEW q \in Reqs, req[q].pc \in {"version", "mark"}
    PROVE  NewVersion(req[q]) >= 1
<1> DEFINE r == req[q]
<1>1. r \in Requests /\ Shaped(r) /\ VersionsAhead(r)
  BY DEF RatesInv, Numbered
<1> HIDE DEF r
<1>2. r.pc \in {"version", "mark"}
  BY DEF r
<1>3. r.op \in {"publish", "copy"}
  BY <1>1, <1>2 DEF Requests, Shaped, NoReq
<1>4. CASE r.op = "copy" /\ r.st # "PUBLISHED"
  <2>1. PICK g \in r.got : g \in Target /\ r.got = {g}
    BY <1>1, <1>2, <1>4 DEF Shaped
  <2>2. (CHOOSE x \in r.got : TRUE) = g
    BY <2>1
  <2> QED
    BY <1>1, <1>4, <2>1, <2>2 DEF NewVersion, VersionsAhead, r
<1>5. CASE ~(r.op = "copy" /\ r.st # "PUBLISHED")
  BY <1>1, <1>2, <1>3, <1>5 DEF NewVersion, VersionsAhead, r
<1> QED
  BY <1>4, <1>5

LEMMA EndsAhead == VersionsAhead(NoReq)
BY DEF VersionsAhead, NoReq

LEMMA PcAhead ==
    ASSUME NEW r \in Requests, VersionsAhead(r), NEW pc \in Pcs \ {"billing"},
           r.op = "publish" /\ pc \in {"version", "mark"} => r.ver >= 1,
           r.op = "copy" /\ pc # "read" => r.pc # "read",
           r.op = "copy" /\ pc \in {"cells", "pct", "version", "mark"} =>
              r.pc \in {"cells", "pct", "version", "mark"}
    PROVE  VersionsAhead([r EXCEPT !.pc = pc])
<1> DEFINE n == [r EXCEPT !.pc = pc]
<1>1. n.op = r.op /\ n.pc = pc /\ n.ver = r.ver /\ n.got = r.got
  BY DEF Requests
<1> HIDE DEF n
<1>2. VersionsAhead(n)
  BY <1>1 DEF VersionsAhead
<1> QED
  BY <1>2 DEF n

(* A request moves or ends, and the tables with it. *)
LEMMA NumberedMove ==
    ASSUME RatesInv, Numbered, NEW q \in Reqs, NEW n, VersionsAhead(n), req' = [req EXCEPT ![q] = n],
           \A w \in Wards : cfg'[w].ver >= 1 /\ \A h \in hist'[w] : h.ver >= 1,
           bill' \in [Wards -> SUBSET Draft]
    PROVE  Numbered'
<1>1. \A o \in Reqs : req'[o] = IF o = q THEN n ELSE req[o]
  BY DEF RatesInv
<1> QED
  BY <1>1 DEF Numbered

LEMMA NumberedApi ==
    ASSUME RatesInv, Numbered, NEW q \in Reqs, Api(q)
    PROVE  Numbered'
<1> DEFINE r == req[q]
<1>1. /\ r \in Requests /\ Shaped(r) /\ VersionsAhead(r) /\ cfg \in [Wards -> Config]
      /\ hist \in [Wards -> SUBSET Version] /\ r.w \in Wards /\ r.cur \in Wards
  BY DEF RatesInv, Numbered, Requests
<1>2. /\ \A w \in Wards : cfg[w].ver >= 1 /\ \A h \in hist[w] : h.ver >= 1
      /\ bill \in [Wards -> SUBSET Draft]
  BY DEF Numbered
<1>3. \A w \in Wards : cfg[w] \in Config /\ cfg[w].ver \in Int
  BY <1>1 DEF Config
<1> HIDE DEF r
<1>4. ASSUME UNCHANGED tables, NEW n, VersionsAhead(n), req' = [req EXCEPT ![q] = n]
      PROVE  Numbered'
  BY <1>2, <1>4, NumberedMove DEF tables
<1>5. ASSUME NEW pc, Goto(q, pc)
      PROVE  req' = [req EXCEPT ![q] = [r EXCEPT !.pc = pc]]
  BY <1>5 DEF Goto, RatesInv, r
<1>6. End(q) => req' = [req EXCEPT ![q] = NoReq]
  BY DEF End
<1>7. CASE CheckDraft(q)
  <2>1. r.op \in {"cells", "pct"} /\ UNCHANGED tables
    BY <1>7 DEF CheckDraft, r
  <2>2. Goto(q, r.op) \/ End(q)
    BY <1>7 DEF CheckDraft, r
  <2>3. VersionsAhead([r EXCEPT !.pc = r.op])
    BY <1>1, <2>1, PcAhead DEF Pcs
  <2> QED
    BY <1>4, <1>5, <1>6, <2>1, <2>2, <2>3, EndsAhead
<1>8. CASE ReadConfig(q)
  <2>1. r.op = "publish" /\ UNCHANGED tables
    BY <1>8 DEF ReadConfig, r
  <2>2. \/ Goto(q, "cells")
        \/ req' = [req EXCEPT ![q].pc = "mark", ![q].ver = cfg[r.w].ver]
    BY <1>8 DEF ReadConfig, r
  <2>3. VersionsAhead([r EXCEPT !.pc = "cells"])
    BY <1>1, <2>1, PcAhead DEF Pcs
  <2> DEFINE n == [r EXCEPT !.pc = "mark", !.ver = cfg[r.w].ver]
  <2>4. n.op = "publish" /\ n.pc = "mark" /\ n.ver = cfg[r.w].ver
    BY <1>1, <2>1 DEF Requests
  <2>5. req' = [req EXCEPT ![q].pc = "mark", ![q].ver = cfg[r.w].ver] => req' = [req EXCEPT ![q] = n]
    BY DEF RatesInv, r
  <2> HIDE DEF n
  <2>6. n.ver >= 1
    BY <1>1, <1>2, <2>4
  <2>7. VersionsAhead(n)
    BY <2>4, <2>6 DEF VersionsAhead
  <2> QED
    BY <1>4, <1>5, <2>1, <2>2, <2>3, <2>5, <2>7
<1>9. CASE CopyRead(q)
  <2>1. r.op = "copy" /\ UNCHANGED tables
    BY <1>9 DEF CopyRead, r
  <2> DEFINE n == [r EXCEPT !.pc = "next", !.st = cfg[r.w].st, !.ver = cfg[r.w].ver, !.todo = Wards]
  <2>2. req' = [req EXCEPT ![q] = n]
    BY <1>9 DEF CopyRead, RatesInv, r
  <2>3. n.op = "copy" /\ n.pc = "next" /\ n.ver = cfg[r.w].ver
    BY <1>1, <2>1 DEF Requests
  <2> HIDE DEF n
  <2>4. n.ver >= 1
    BY <1>1, <1>2, <2>3
  <2>5. VersionsAhead(n)
    BY <2>3, <2>4 DEF VersionsAhead
  <2> QED
    BY <1>4, <2>1, <2>2, <2>5
<1>10. CASE CopyNext(q)
  <2>1. r.op = "copy" /\ r.pc = "next" /\ r.ver >= 1
    <3>1. r.pc = "next" /\ r.op \in {"none", "cells", "pct", "publish", "copy"}
      BY <1>1, <1>10 DEF CopyNext, At, r, Requests
    <3>2. r.op = "copy"
      BY <1>1, <3>1 DEF Shaped, NoReq
    <3> QED
      BY <1>1, <3>1, <3>2 DEF VersionsAhead
  <2>2. CASE End(q) /\ UNCHANGED tables
    BY <1>4, <1>6, <2>2, EndsAhead
  <2>3. ASSUME NEW w \in r.todo, NEW c, c.ver >= 1,
               cfg' = [cfg EXCEPT ![w] = IF w = r.w THEN @ ELSE c], w # r.w => c = GetOrCreate(w),
               req' = [req EXCEPT ![q].pc = "cells", ![q].cur = w, ![q].todo = @ \ {w},
                                  ![q].got = {[st |-> c.st, ver |-> c.ver]}],
               UNCHANGED <<hist, bill>>
        PROVE  Numbered'
    <3> DEFINE got == {[st |-> c.st, ver |-> c.ver]}
               todo == r.todo \ {w}
               n == [r EXCEPT !.pc = "cells", !.cur = w, !.todo = todo, !.got = got]
    <3>1. req' = [req EXCEPT ![q] = n]
      BY <2>3 DEF RatesInv, r
    <3>2. \A g \in got : g.ver >= 1
      BY <2>3
    <3> HIDE DEF got, todo
    <3>3. n.op = "copy" /\ n.pc = "cells" /\ n.ver = r.ver /\ n.got = got
      BY <1>1, <2>1 DEF Requests
    <3> HIDE DEF n
    <3>4. VersionsAhead(n)
      BY <2>1, <3>2, <3>3 DEF VersionsAhead
    <3>5. \A x \in Wards : cfg'[x].ver >= 1
      BY <1>1, <1>2, <2>3
    <3> QED
      BY <1>2, <2>3, <3>1, <3>4, <3>5, NumberedMove
  <2>4. ASSUME NEW w \in r.todo
        PROVE  (IF w = r.w THEN [st |-> r.st, ver |-> r.ver] ELSE GetOrCreate(w)).ver >= 1
    <3>1. w \in Wards
      BY <1>1 DEF Requests
    <3> QED
      BY <1>2, <2>1, <3>1 DEF GetOrCreate
  <2> QED
    BY <1>10, <2>2, <2>3, <2>4 DEF CopyNext, r
<1>11. CASE WriteCells(q)
  <2>1. /\ cfg' = [cfg EXCEPT ![r.cur].cells = r.want.cells] /\ UNCHANGED <<hist, bill>>
        /\ r.pc = "cells" /\ (End(q) \/ Goto(q, "pct"))
    BY <1>11 DEF WriteCells, At, r
  <2>2. \A w \in Wards : cfg'[w].ver >= 1
    BY <1>1, <1>2, <2>1 DEF Config
  <2>3. VersionsAhead([r EXCEPT !.pc = "pct"])
    BY <1>1, <2>1, PcAhead DEF Pcs
  <2> QED
    BY <1>2, <1>5, <1>6, <2>1, <2>2, <2>3, EndsAhead, NumberedMove
<1>12. CASE WriteParams(q)
  <2> DEFINE target == CHOOSE g \in r.got : TRUE
             up == [target EXCEPT !.ver = @ + 1]
             got == {up}
             raised == [r EXCEPT !.pc = "version", !.got = got]
  <2>1. cfg' = [cfg EXCEPT ![r.cur].pct = r.want.pct] /\ UNCHANGED <<hist, bill>> /\ r.pc = "pct"
    BY <1>12 DEF WriteParams, At, r
  <2>2. \A w \in Wards : cfg'[w].ver >= 1
    BY <1>1, <1>2, <2>1 DEF Config
  <2>3. r.op \in {"pct", "publish", "copy"}
    BY <1>1, <2>1 DEF Shaped, Requests, NoReq
  <2>4. ASSUME NEW pc \in {"reread", "version", "next"}, pc = "reread" \/ r.op = "copy"
        PROVE  VersionsAhead([r EXCEPT !.pc = pc])
    BY <1>1, <2>1, <2>4, PcAhead DEF Pcs
  <2>5. \/ End(q)
        \/ r.op = "publish" /\ Goto(q, "reread")
        \/ r.op = "copy" /\ (Goto(q, "version") \/ Goto(q, "next"))
        \/ r.op = "copy" /\ req' = [req EXCEPT ![q].pc = "version", ![q].got = got]
    BY <1>12, <2>3 DEF WriteParams, r
  <2>6. req' = [req EXCEPT ![q].pc = "version", ![q].got = got] => req' = [req EXCEPT ![q] = raised]
    BY DEF RatesInv, r
  <2>7. r.op = "copy" => VersionsAhead(raised)
    <3> SUFFICES ASSUME r.op = "copy"
                 PROVE  VersionsAhead(raised)
      OBVIOUS
    <3>1. PICK g \in r.got : g \in Target /\ r.got = {g}
      BY <1>1, <2>1 DEF Shaped
    <3>2. target = g
      BY <3>1
    <3>3. g.ver >= 1 /\ g.ver \in Int
      BY <1>1, <2>1, <3>1 DEF VersionsAhead, Target
    <3>4. up.ver >= 1
      BY <3>1, <3>2, <3>3 DEF Target
    <3> HIDE DEF up
    <3>5. \A x \in got : x.ver >= 1
      BY <3>4
    <3> HIDE DEF got
    <3>6. raised.op = "copy" /\ raised.pc = "version" /\ raised.got = got /\ raised.ver = r.ver
      BY <1>1 DEF Requests
    <3>7. r.ver >= 1
      BY <1>1, <2>1 DEF VersionsAhead
    <3> HIDE DEF raised
    <3> QED
      BY <3>5, <3>6, <3>7 DEF VersionsAhead
  <2> HIDE DEF got, up, target, raised
  <2>8. CASE End(q)
    BY <1>2, <1>6, <2>1, <2>2, <2>8, EndsAhead, NumberedMove
  <2>9. CASE r.op = "publish" /\ Goto(q, "reread")
    BY <1>2, <1>5, <2>1, <2>2, <2>4, <2>9, NumberedMove
  <2>10. CASE r.op = "copy" /\ (Goto(q, "version") \/ Goto(q, "next"))
    BY <1>2, <1>5, <2>1, <2>2, <2>4, <2>10, NumberedMove
  <2>11. CASE r.op = "copy" /\ req' = [req EXCEPT ![q].pc = "version", ![q].got = got]
    BY <1>2, <2>1, <2>2, <2>6, <2>7, <2>11, NumberedMove
  <2> QED
    BY <2>5, <2>8, <2>9, <2>10, <2>11
<1>13. CASE Reread(q)
  <2> DEFINE v == cfg[r.w].ver + (IF cfg[r.w].st = "PUBLISHED" THEN 1 ELSE 0)
             n == [r EXCEPT !.pc = "version", !.ver = v]
  <2>1. UNCHANGED tables /\ r.pc = "reread" /\ req' = [req EXCEPT ![q] = n]
    BY <1>13 DEF Reread, At, RatesInv, r
  <2>2. r.op = "publish"
    BY <1>1, <2>1 DEF Shaped, Requests, NoReq
  <2>3. v >= 1
    BY <1>1, <1>2, <1>3
  <2> HIDE DEF v
  <2>4. n.op = "publish" /\ n.pc = "version" /\ n.ver = v
    BY <1>1, <2>2 DEF Requests
  <2> HIDE DEF n
  <2>5. VersionsAhead(n)
    BY <2>3, <2>4 DEF VersionsAhead
  <2> QED
    BY <1>4, <2>1, <2>5
<1>14. CASE AddVersion(q)
  <2> DEFINE v == NewVersion(r)
             row == [ver |-> v, cells |-> r.want.cells, pct |-> r.want.pct]
  <2>1. r.pc = "version" /\ cfg' = cfg /\ bill' = bill /\ Goto(q, "mark")
    BY <1>14 DEF AddVersion, At, r
  <2>2. v >= 1
    BY <2>1, NewVersionIs DEF r
  <2>3. row.ver >= 1
    BY <2>2
  <2>4. \E gone : hist' = [hist EXCEPT ![r.cur] = (@ \ gone) \cup {row}]
    <3> DEFINE old == IF r.op = "copy" /\ r.st = "PUBLISHED"
                      THEN {h \in hist[r.cur] : h.ver = r.ver} ELSE {}
               gone == IF old = {} THEN {} ELSE {CHOOSE h \in old : TRUE}
    <3>1. hist' = [hist EXCEPT ![r.cur] =
                     (IF old = {} THEN @ ELSE @ \ {CHOOSE h \in old : TRUE}) \cup {row}]
      BY <1>14 DEF AddVersion, r
    <3> HIDE DEF old
    <3>2. hist' = [hist EXCEPT ![r.cur] = (@ \ gone) \cup {row}]
      BY <3>1
    <3> QED
      BY <3>2
  <2> HIDE DEF row
  <2>5. \A w \in Wards : \A h \in hist'[w] : h.ver >= 1
    BY <1>1, <1>2, <2>3, <2>4
  <2>6. r.op = "publish" \/ r.op = "copy"
    BY <1>1, <2>1 DEF Shaped, Requests, NoReq
  <2>7. VersionsAhead([r EXCEPT !.pc = "mark"])
    <3>1. r.op = "publish" => r.ver >= 1
      BY <1>1, <2>1 DEF VersionsAhead
    <3> QED
      BY <1>1, <2>1, <3>1, PcAhead DEF Pcs
  <2> QED
    BY <1>2, <1>5, <2>1, <2>5, <2>7, NumberedMove
<1>15. CASE Mark(q)
  <2> DEFINE v == NewVersion(r)
             st == IF r.op = "copy" /\ r.st # "PUBLISHED" THEN cfg[r.cur].st ELSE "PUBLISHED"
             pc == IF r.op = "copy" /\ r.st # "PUBLISHED" THEN "next" ELSE "bill"
             b == [cfg[r.cur] EXCEPT !.ver = v]
             c == [b EXCEPT !.st = st]
  <2>1. r.pc = "mark" /\ UNCHANGED <<hist, bill>> /\ Goto(q, pc)
    BY <1>15 DEF Mark, At, r
  <2>2. cfg' = [cfg EXCEPT ![r.cur] = c]
    BY <1>1, <1>15 DEF Mark, r
  <2>3. v >= 1
    BY <2>1, NewVersionIs DEF r
  <2> HIDE DEF v, st
  <2>4. c.ver = v
    <3>1. b.ver = v /\ b = [st |-> cfg[r.cur].st, ver |-> v, cells |-> cfg[r.cur].cells, pct |-> cfg[r.cur].pct]
      BY <1>3, <1>1 DEF Config
    <3> HIDE DEF b
    <3> QED
      BY <3>1
  <2> HIDE DEF b, c
  <2>5. \A w \in Wards : cfg'[w].ver >= 1
    BY <1>1, <1>2, <2>2, <2>3, <2>4
  <2>6. pc \in {"next", "bill"} /\ pc \in Pcs \ {"billing"}
    BY DEF Pcs
  <2> HIDE DEF pc
  <2>7. VersionsAhead([r EXCEPT !.pc = pc])
    BY <1>1, <2>1, <2>6, PcAhead
  <2> QED
    BY <1>2, <1>5, <2>1, <2>5, <2>7, NumberedMove
<1>16. CASE BillRead(q)
  <2> DEFINE got == {RatesOf(cfg[r.cur])}
             n == [r EXCEPT !.pc = "billing", !.got = got]
  <2>1. UNCHANGED tables /\ r.pc = "bill" /\ req' = [req EXCEPT ![q] = n]
    BY <1>16 DEF BillRead, At, RatesInv, r
  <2>2. got \subseteq Draft
    BY <1>1, <1>3 DEF RatesOf, Draft, Config
  <2> HIDE DEF got
  <2>3. n.op = r.op /\ n.pc = "billing" /\ n.ver = r.ver /\ n.got = got
    BY <1>1 DEF Requests
  <2> HIDE DEF n
  <2>4. VersionsAhead(n)
    BY <1>1, <2>1, <2>2, <2>3 DEF VersionsAhead
  <2> QED
    BY <1>4, <2>1, <2>4
<1>17. CASE BillWrite(q)
  <2>1. r.pc = "billing" /\ UNCHANGED <<cfg, hist>> /\ bill' = [bill EXCEPT ![r.cur] = r.got]
    BY <1>17 DEF BillWrite, At, r
  <2>2. r.got \subseteq Draft
    BY <1>1, <2>1 DEF VersionsAhead
  <2>3. bill' \in [Wards -> SUBSET Draft]
    BY <1>2, <2>1, <2>2
  <2>4. End(q) \/ (r.op # "publish" /\ Goto(q, "next"))
    BY <1>17 DEF BillWrite, r
  <2>5. VersionsAhead([r EXCEPT !.pc = "next"])
    BY <1>1, <2>1, PcAhead DEF Pcs
  <2> QED
    BY <1>2, <1>5, <1>6, <2>1, <2>3, <2>4, <2>5, EndsAhead, NumberedMove
<1>18. CASE Dies(q)
  BY <1>4, <1>6, <1>18, EndsAhead DEF Dies
<1> QED
  BY <1>7, <1>8, <1>9, <1>10, <1>11, <1>12, <1>13, <1>14, <1>15, <1>16, <1>17, <1>18 DEF Api

LEMMA NumberedWorkspace ==
    ASSUME RatesInv, Numbered, NEW p \in Pages, Workspace(p)
    PROVE  Numbered'
<1>1. /\ \A w \in Wards : cfg[w].ver >= 1 /\ \A h \in hist[w] : h.ver >= 1
      /\ bill \in [Wards -> SUBSET Draft] /\ \A q \in Reqs : VersionsAhead(req[q])
      /\ cfg \in [Wards -> Config] /\ req \in [Reqs -> Requests] /\ page[p].ward \in Wards
  BY DEF Numbered, RatesInv, Workspaces
<1>2. CASE UNCHANGED tables /\ req' = req
  BY <1>1, <1>2 DEF tables, Numbered
<1>3. ASSUME NEW op, NEW w, NEW d, NEW q, Begin(q, Request(op, p, w, d))
      PROVE  Numbered'
  <2> DEFINE n == Request(op, p, w, d)
  <2>1. n.pc = "read" /\ n.got = {}
    BY DEF Request, NoReq
  <2>2. req' = [req EXCEPT ![q] = n] /\ UNCHANGED tables
    BY <1>3 DEF Begin
  <2> HIDE DEF n
  <2>3. VersionsAhead(n)
    BY <2>1 DEF VersionsAhead
  <2>4. \A o \in Reqs : VersionsAhead(req'[o])
    BY <1>1, <2>2, <2>3
  <2> QED
    BY <1>1, <2>2, <2>4 DEF tables, Numbered
<1>4. CASE Load(p)
  <2>1. cfg' = [cfg EXCEPT ![page[p].ward] = GetOrCreate(page[p].ward)] /\ UNCHANGED <<hist, bill, req>>
    BY <1>4 DEF Load
  <2>2. GetOrCreate(page[p].ward).ver >= 1
    BY <1>1 DEF GetOrCreate
  <2>3. \A w \in Wards : cfg'[w].ver >= 1
    BY <1>1, <2>1, <2>2
  <2> QED
    BY <1>1, <2>1, <2>3 DEF Numbered
<1>5. ASSUME NEW w, SelectWard(p, w)
      PROVE  Numbered'
  BY <1>2, <1>5 DEF SelectWard
<1>6. ASSUME NEW v, EditCell(p, v)
      PROVE  Numbered'
  BY <1>2, <1>6 DEF EditCell
<1>7. ASSUME NEW q, TimerFires(p, q) \/ AskPublish(p, q) \/ AskCopy(p, q) \/ \E v : EditPct(p, q, v)
      PROVE  Numbered'
  BY <1>2, <1>3, <1>7 DEF TimerFires, AskPublish, AskCopy, EditPct
<1> QED
  BY <1>4, <1>5, <1>6, <1>7 DEF Workspace

(* RatesTypeOK: the versions of configurations and of their history are    *)
(* counted from 1, and what wards were billed at are rates.                *)
THEOREM RatesTyped == RatesSpec => []RatesTypeOK
<1>1. RatesInv /\ Numbered /\ [RatesNext]_rateVars => Numbered'
  <2>1. Numbered /\ UNCHANGED rateVars => Numbered'
    BY DEF rateVars, Numbered
  <2> QED
    BY <2>1, NumberedApi, NumberedWorkspace DEF RatesNext
<1> QED
  BY <1>1, NumberedStart, NumberedTypes, RatesInvariance, PTL DEF RatesSpec
=============================================================================
