---------------------------- MODULE TaxReference ----------------------------
(* Assessment years and tax adjustment rules: the reference data that the  *)
(* tax pages of the portal maintain and the demands are computed with.     *)
(*                                                                         *)
(* A request reads, checks and then writes, without a lock in between.  A  *)
(* rule belongs to one year, or to all of them.                            *)
EXTENDS Integers, FiniteSets

CONSTANTS
    Codes,     \* codes of assessment years
    Rules,
    Values,    \* what a rule says
    Dates,     \* days a year may begin and end on; 0 is an empty field
    All,       \* the year of a rule for all years
    Clerks,     \* open pages, one request at a time each
    Ops,       \* the operations to explore
    MaxAsk     \* bound on requests

ASSUME ReferenceConstants ==
    /\ Dates \subseteq Nat \ {0} /\ All \notin Codes /\ MaxAsk \in Nat
    /\ {} \notin {Codes, Rules, Values, Dates}

VARIABLES
    year,      \* reference entries of the category ASSESSMENT_YEAR
    rule,      \* TaxAdjustmentRule table
    used,      \* years that configurations or demands refer to
    ask,       \* the request of each page
    asked,
    grid,      \* the rows of each page as it last loaded them
    raced      \* whether two requests on years have overlapped

refVars == <<year, rule, used, ask, asked, grid, raced>>
refTables == <<year, rule, used>>

NoRange == <<0, 0>>
Field == Dates \cup {0}
NoYear == [on |-> FALSE, st |-> "INACTIVE", range |-> NoRange]
NoRule == [st |-> "none", val |-> CHOOSE v \in Values : TRUE, of |-> All]
NoAsk == [op |-> "none", pc |-> "idle", y |-> CHOOSE y \in Codes : TRUE, range |-> NoRange,
          r |-> CHOOSE r \in Rules : TRUE, val |-> NoRule.val, of |-> All]
YearOps == {"addYear", "editYear", "activate", "deactivate", "deleteYear"}

-----------------------------------------------------------------------------
(* The pages.  A page offers what its rows call for as it last loaded them *)
(* - the year may have been switched or the rule published, archived or    *)
(* deleted since - and loads them again after a request, or when opened.   *)

ShownYear(p, y) == grid[p].year[y]
ShownRule(p, r) == grid[p].rule[r]

LoadReference(p) ==
    /\ asked < MaxAsk   \* rows are for the next request
    /\ grid[p] # [year |-> year, rule |-> rule]
    /\ grid' = [grid EXCEPT ![p] = [year |-> year, rule |-> rule]]
    /\ UNCHANGED <<refTables, ask, asked, raced>>

Send(p, r) ==
    /\ ask[p] = NoAsk /\ asked < MaxAsk /\ r.op \in Ops
    /\ ask' = [ask EXCEPT ![p] = r]
    /\ asked' = asked + 1
    /\ raced' = (raced \/ (r.op \in YearOps /\ \E o \in Clerks : ask[o].op \in YearOps))
    /\ UNCHANGED <<refTables, grid>>

SendYear(p, op, y, range) ==
    Send(p, [NoAsk EXCEPT !.op = op, !.pc = "check", !.y = y, !.range = range])
SendRule(p, op, r, v, of) ==
    Send(p, [NoAsk EXCEPT !.op = op, !.pc = "check", !.r = r, !.val = v, !.of = of])

\* The table of years: every row has Edit, and one button for its status
YearButtons(p, y) ==
    IF ~ShownYear(p, y).on THEN {}
    ELSE {"editYear", IF ShownYear(p, y).st = "ACTIVE" THEN "deactivate" ELSE "activate"}

\* Both dialogs take any dates, or none, and check nothing but the name
DatesTyped == Field \X Field

\* Add year: any code
AddYear(p, y, range) == SendYear(p, "addYear", y, range)

\* Edit: the dialog starts from the row and sends both dates, touched or not
EditYear(p, y, range) == "editYear" \in YearButtons(p, y) /\ SendYear(p, "editYear", y, range)

ToggleYear(p, y) ==
    \E op \in {"activate", "deactivate"} \cap YearButtons(p, y) : SendYear(p, op, y, NoRange)

\* Only the API offers to delete a year or a rule
DeleteYear(p, y) == SendYear(p, "deleteYear", y, NoRange)
RemoveRule(p, r) == SendRule(p, "remove", r, NoRule.val, All)

\* The table of rules
RuleButtons(p, r) ==
    CASE ShownRule(p, r).st = "DRAFT" -> {"editRule", "publish", "archive"}
      [] ShownRule(p, r).st = "PUBLISHED" -> {"archive"}
      [] OTHER -> {}

\* The years its dialog offers: all years, the active ones, and on an edit the
\* one the rule is for, active or not
YearChoices(p, kept) == {All, kept} \cup {y \in Codes : ShownYear(p, y).on /\ ShownYear(p, y).st = "ACTIVE"}

AddRule(p, r, v, of) ==
    rule[r] = NoRule /\ of \in YearChoices(p, All) /\ SendRule(p, "addRule", r, v, of)

EditRule(p, r, v, of) ==
    /\ "editRule" \in RuleButtons(p, r) /\ of \in YearChoices(p, ShownRule(p, r).of)
    /\ SendRule(p, "editRule", r, v, of)

PublishRule(p, r) == "publish" \in RuleButtons(p, r) /\ SendRule(p, "publish", r, NoRule.val, All)
ArchiveRule(p, r) == "archive" \in RuleButtons(p, r) /\ SendRule(p, "archive", r, NoRule.val, All)

-----------------------------------------------------------------------------
(* Codes.                                                                  *)

\* buildValue refuses one date without the other, and a start after the end
BuildValueOk(range) == range = NoRange \/ (0 \notin {range[1], range[2]} /\ range[1] <= range[2])

\* Mutant: years that only share a day do not overlap
MutRangesOverlap(a, b) == a # NoRange /\ b # NoRange /\ a[1] < b[2] /\ b[1] < a[2]

\* rangesOverlap, which a year without dates never does
RangesOverlap(a, b) == a # NoRange /\ b # NoRange /\ a[1] <= b[2] /\ b[1] <= a[2]

\* assertNoOverlap
NoOverlap(y, range) ==
    \A o \in Codes \ {y} : year[o].on /\ year[o].st = "ACTIVE" => ~RangesOverlap(range, year[o].range)

Answered(p) == ask' = [ask EXCEPT ![p] = NoAsk]

\* The reads of a request on a year; a refusal answers it
CheckYear(p) ==
    LET k == ask[p]
        row == year[k.y]
        ok == CASE k.op = "addYear" -> ~row.on /\ BuildValueOk(k.range) /\ NoOverlap(k.y, k.range)
                [] k.op = "editYear" -> /\ row.on /\ BuildValueOk(k.range)
                                        /\ row.st = "ACTIVE" => NoOverlap(k.y, k.range)
                [] k.op = "activate" -> row.on /\ NoOverlap(k.y, row.range)
                [] k.op = "deactivate" -> row.on
                [] k.op = "deleteYear" -> row.on /\ k.y \notin used
    IN  /\ k.pc = "check" /\ k.op \in YearOps
        /\ IF ok THEN ask' = [ask EXCEPT ![p].pc = "write"] ELSE Answered(p)
        /\ UNCHANGED <<refTables, asked, grid, raced>>

\* The write: the unique code refuses a second insert, a missing row any
\* update, and a foreign key the delete of a year in use; rules that belong to
\* a deleted year become rules for all years
WriteYear(p) ==
    LET k == ask[p]  row == year[k.y]
        ok == CASE k.op = "addYear" -> ~row.on
                [] k.op = "deleteYear" -> row.on /\ k.y \notin used
                [] OTHER -> row.on
        new == CASE k.op = "addYear" -> [on |-> TRUE, st |-> "ACTIVE", range |-> k.range]
                 [] k.op = "editYear" -> [row EXCEPT !.range = k.range]
                 [] k.op = "activate" -> [row EXCEPT !.st = "ACTIVE"]
                 [] k.op = "deactivate" -> [row EXCEPT !.st = "INACTIVE"]
                 [] k.op = "deleteYear" -> NoYear
    IN  /\ k.pc = "write" /\ k.op \in YearOps
        /\ year' = IF ok THEN [year EXCEPT ![k.y] = new] ELSE year
        /\ rule' = IF ok /\ k.op = "deleteYear"
                   THEN [r \in Rules |-> IF rule[r].of = k.y THEN [rule[r] EXCEPT !.of = All] ELSE rule[r]]
                   ELSE rule
        /\ Answered(p)
        /\ UNCHANGED <<used, asked, grid, raced>>

\* A configuration or demand of the year is created; a payment of a year that
\* has neither, which the check would refuse and the foreign key would not, is
\* not explored
UseYear(y) ==
    /\ year[y].on /\ y \notin used
    /\ used' = used \cup {y}
    /\ UNCHANGED <<year, rule, ask, asked, grid, raced>>

-----------------------------------------------------------------------------
(* Rules.                                                                  *)

\* assertAssessmentYear: a rule's year must exist, active or not
YearExists(of) == of = All \/ year[of].on

\* update refuses published and archived rules
MayEdit(row) == row.st = "DRAFT"

CheckRule(p) ==
    LET k == ask[p]
        row == rule[k.r]
        ok == CASE k.op = "addRule" -> YearExists(k.of)
                [] k.op = "editRule" -> row.st # "none" /\ MayEdit(row) /\ YearExists(k.of)
                [] k.op = "publish" -> row.st \in {"DRAFT", "PUBLISHED"}
                [] k.op = "archive" -> row.st \in {"DRAFT", "PUBLISHED"}
                [] k.op = "remove" -> row.st \in {"DRAFT", "ARCHIVED"}
    IN  /\ k.pc = "check" /\ k.op \notin YearOps
        /\ IF ok THEN ask' = [ask EXCEPT ![p].pc = "write"] ELSE Answered(p)
        /\ UNCHANGED <<refTables, asked, grid, raced>>

WriteRule(p) ==
    LET k == ask[p]  row == rule[k.r]
        ok == /\ k.op = "addRule" <=> row.st = "none"
              /\ k.op \in {"addRule", "editRule"} => YearExists(k.of)
        new == CASE k.op = "addRule" -> [st |-> "DRAFT", val |-> k.val, of |-> k.of]
                 [] k.op = "editRule" -> [row EXCEPT !.val = k.val, !.of = k.of]
                 [] k.op = "publish" -> [row EXCEPT !.st = "PUBLISHED"]
                 [] k.op = "archive" -> [row EXCEPT !.st = "ARCHIVED"]
                 [] k.op = "remove" -> NoRule
    IN  /\ k.pc = "write" /\ k.op \notin YearOps
        /\ rule' = IF ok THEN [rule EXCEPT ![k.r] = new] ELSE rule
        /\ Answered(p)
        /\ UNCHANGED <<year, used, asked, grid, raced>>

-----------------------------------------------------------------------------
\* Reference data as earlier work may have left it: no years, or years that
\* are closed and cover the same day, which nothing checks while they are
RefInit ==
    /\ year \in {[y \in Codes |-> NoYear],
                 [y \in Codes |-> [on |-> TRUE, st |-> "INACTIVE", range |-> LET d == CHOOSE d \in Dates : TRUE IN <<d, d>>]]}
    /\ rule \in {[r \in Rules |-> NoRule]} \cup
                {[r \in Rules |-> [NoRule EXCEPT !.st = "DRAFT", !.of = y]] : y \in {z \in Codes : year[z].on}}
    /\ used = {}
    /\ ask = [p \in Clerks |-> NoAsk]
    /\ asked = 0 /\ raced = FALSE
    /\ grid = [p \in Clerks |-> [year |-> year, rule |-> rule]]

RefNext ==
    \/ \E p \in Clerks :
        \/ LoadReference(p) \/ CheckYear(p) \/ WriteYear(p) \/ CheckRule(p) \/ WriteRule(p)
        \/ \E y \in Codes :
              \/ ToggleYear(p, y) \/ DeleteYear(p, y)
              \/ \E range \in DatesTyped : AddYear(p, y, range) \/ EditYear(p, y, range)
        \/ \E r \in Rules :
              \/ PublishRule(p, r) \/ ArchiveRule(p, r) \/ RemoveRule(p, r)
              \/ \E v \in Values, of \in Codes \cup {All} : AddRule(p, r, v, of) \/ EditRule(p, r, v, of)
    \/ \E y \in Codes : UseYear(y)

RefSpec == RefInit /\ [][RefNext]_refVars

-----------------------------------------------------------------------------
(* Properties.                                                             *)

\* The years, the rules and the requests hold what they may hold
RefTypeOK ==
    /\ year \in [Codes -> [on : BOOLEAN, st : {"ACTIVE", "INACTIVE"}, range : DatesTyped]]
    /\ rule \in [Rules -> [st : {"none", "DRAFT", "PUBLISHED", "ARCHIVED"}, val : Values, of : Codes \cup {All}]]
    /\ used \subseteq {y \in Codes : year[y].on}
    /\ asked \in 0..MaxAsk /\ raced \in BOOLEAN

DaysOf(y) == IF year[y].range = NoRange THEN {} ELSE year[y].range[1]..year[y].range[2]

\* The ranges of active years are disjoint, though inactive years are edited
\* without any check and activated later - as long as no two requests on years
\* overlapped, for the check and the write are not one transaction.
YearsDisjoint ==
    ~raced => \A y, z \in Codes :
        y # z /\ year[y].st = "ACTIVE" /\ year[z].st = "ACTIVE" /\ year[y].on /\ year[z].on
            => DaysOf(y) \cap DaysOf(z) = {}
=============================================================================
