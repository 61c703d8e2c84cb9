------------------------------- MODULE YearEnd -------------------------------
(***************************************************************************)
(* Demands over several assessment years (apps/api/src/demands): publishing*)
(* one demand or a whole ward, collecting on it, and the year-end closing  *)
(* that carries what is unpaid in one year into another as arrears.        *)
(*                                                                         *)
(* Publishing reads and writes outside any transaction.  The closing reads *)
(* its preview outside and then works through it inside one $transaction   *)
(* at the database's default isolation: it reads committed rows, what it   *)
(* writes stays invisible and locked until it commits, and an abort leaves *)
(* no trace.  Collections take the demand row FOR UPDATE.                  *)
(***************************************************************************)
EXTENDS Integers, FiniteSets, FiniteSetsExt

CONSTANTS
    Surveys,      \* active surveys of the ward
    Years,        \* assessment years
    Tasks,        \* slots for publishes and closings in flight
    Currents,     \* what an assessment may compute as currentDemand
    PayAmounts,   \* amounts paid
    PreviewLimit, \* how many unpaid demands a preview returns (`take: 5000`)
    MaxPublish,   \* bound: number of publish requests
    MaxPaid       \* bound: payments taken for one survey and year

ASSUME ClosingAssumption == /\ Currents \subseteq Nat
                            /\ PayAmounts \subseteq Nat \ {0}
                            /\ PreviewLimit \in Nat
                            /\ IsFiniteSet(Years)

VARIABLES
    demand,    \* demand[s][y]: the property_demand row
    arrear,    \* arrear[s][y][f]: amount of the demand_arrear row of (s, y) from year f, 0 if none
    run,       \* run[f][y]: the year_end_run row from f to y is COMMITTED
    succ,      \* succ[s][y]: sum of the SUCCESS payments for (s, y)
    publishes, \* number of publish requests so far (only to bound them)
    task       \* publishes and closings in flight

dbVars == <<demand, arrear, run, succ>>
vars   == <<dbVars, publishes, task>>

-----------------------------------------------------------------------------
(* Rows *)

DemandRow == [status: {"ABSENT", "DRAFT", "PUBLISHED"}, current: Nat, arrears: Nat,
              total: Nat, paid: Nat, outstanding: Nat]

Absent == [status |-> "ABSENT", current |-> 0, arrears |-> 0, total |-> 0, paid |-> 0,
           outstanding |-> 0]

(* What a closing writes for one survey; fresh when it creates the demand. *)
Carry == [s: Surveys, amount: Nat, arrears: Nat, total: Nat, outstanding: Nat, fresh: BOOLEAN]

Task ==
    [op: {"idle"}]
    \cup [op: {"publish"}, year: Years, keep: BOOLEAN, todo: SUBSET Surveys]
    \cup [op: {"publishing"}, year: Years, keep: BOOLEAN, todo: SUBSET Surveys, s: Surveys,
          existed: BOOLEAN, row: DemandRow]
    \cup [op: {"closing"}, from: Years, to: Years, proposed: [Surveys -> Nat],
          todo: SUBSET Surveys, writes: SUBSET Carry]
    \cup [op: {"carrying"}, from: Years, to: Years, proposed: [Surveys -> Nat],
          todo: SUBSET Surveys, writes: SUBSET Carry, s: Surveys, saw: DemandRow,
          sawArrears: [Years -> Nat]]

Idle(t) == task[t] = [op |-> "idle"]
Become(t, q) == task' = [task EXCEPT ![t] = q]
Done(t) == Become(t, [op |-> "idle"])
InClosing(t) == task[t].op \in {"closing", "carrying"}

(* (s, y) is written, and so locked, by an open closing transaction of T.  *)
LockedBy(T, s, y) ==
    \E t \in T : /\ InClosing(t)
                 /\ task[t].to = y
                 /\ \E w \in task[t].writes : w.s = s

(* Mutation: an overpaid demand owes a negative amount. *)
MutOutstandingUnclamped(total, paid) == total - paid

Outstanding(total, paid) == IF paid >= total THEN 0 ELSE total - paid

Init ==
    /\ demand = [s \in Surveys |-> [y \in Years |-> Absent]]
    /\ arrear = [s \in Surveys |-> [y \in Years |-> [f \in Years |-> 0]]]
    /\ run = [f \in Years |-> [y \in Years |-> FALSE]]
    /\ succ = [s \in Surveys |-> [y \in Years |-> 0]]
    /\ publishes = 0
    /\ task = [t \in Tasks |-> [op |-> "idle"]]

-----------------------------------------------------------------------------
(* Publishing *)

(* publish: one survey, arrears reset. *)
PublishOne(t, s, y) ==
    /\ Idle(t)
    /\ publishes < MaxPublish
    /\ publishes' = publishes + 1
    /\ Become(t, [op |-> "publish", year |-> y, keep |-> FALSE, todo |-> {s}])
    /\ UNCHANGED dbVars

(* publishForWard: every active survey, arrears preserved. *)
PublishWard(t, y) ==
    /\ Idle(t)
    /\ publishes < MaxPublish
    /\ publishes' = publishes + 1
    /\ Become(t, [op |-> "publish", year |-> y, keep |-> TRUE, todo |-> Surveys])
    /\ UNCHANGED dbVars

(* computePropertyAssessment on a base demand of c: the row to be written. *)
Assessed(c, arrears, paid) ==
    [status |-> "PUBLISHED", current |-> c, arrears |-> arrears, total |-> c + arrears,
     paid |-> paid, outstanding |-> Outstanding(c + arrears, paid)]

(* upsertPublishedDemandForSurvey reads the row and the payments ... *)
PublishRead(t, s, c) ==
    LET q == task[t]
        row == demand[s][q.year]
    IN  /\ q.op = "publish"
        /\ s \in q.todo
        /\ Become(t, [op |-> "publishing", year |-> q.year, keep |-> q.keep,
                      todo |-> q.todo \ {s}, s |-> s, existed |-> row.status # "ABSENT",
                      row |-> Assessed(c, IF q.keep THEN row.arrears ELSE 0, succ[s][q.year])])
        /\ UNCHANGED <<dbVars, publishes>>

(* ... and writes what it computed from them. *)
PublishWrite(t) ==
    LET q == task[t]
    IN  /\ q.op = "publishing"
        /\ ~LockedBy(Tasks, q.s, q.year)
        /\ q.existed \/ demand[q.s][q.year].status = "ABSENT"
        /\ demand' = [demand EXCEPT ![q.s][q.year] = q.row]
        /\ IF q.todo = {} THEN Done(t)
           ELSE Become(t, [op |-> "publish", year |-> q.year, keep |-> q.keep, todo |-> q.todo])
        /\ UNCHANGED <<arrear, run, succ, publishes>>

(* The request dies or the unique (survey, year) key refuses its row: what *)
(* it has published stays published.                                       *)
PublishFailed(t) ==
    /\ task[t].op \in {"publish", "publishing"}
    /\ Done(t)
    /\ UNCHANGED <<dbVars, publishes>>

-----------------------------------------------------------------------------
(* Payments *)

(* A collection or a confirmed online payment: it is stored, and if there  *)
(* is a published demand that demand is locked and credited.               *)
Pay(s, y, a) ==
    LET row == demand[s][y]
    IN  /\ succ[s][y] + a <= MaxPaid
        /\ row.status = "PUBLISHED" => ~LockedBy(Tasks, s, y)
        /\ succ' = [succ EXCEPT ![s][y] = @ + a]
        /\ demand' = IF row.status = "PUBLISHED"
                     THEN [demand EXCEPT ![s][y].paid = row.paid + a,
                                         ![s][y].outstanding =
                                             Outstanding(row.total, row.paid + a)]
                     ELSE demand
        /\ UNCHANGED <<arrear, run, publishes, task>>

-----------------------------------------------------------------------------
(* The year-end closing *)

Unpaid(s, y) == IF demand[s][y].status = "PUBLISHED" THEN demand[s][y].outstanding ELSE 0

(* previewYearEnd: the surveys with the largest unpaid demands, up to the limit. *)
Previewed(y, P) ==
    LET unpaid == {s \in Surveys : Unpaid(s, y) > 0}
    IN  /\ P \subseteq unpaid
        /\ Cardinality(P) = Min({PreviewLimit, Cardinality(unpaid)})
        /\ \A s \in P, o \in unpaid \ P : Unpaid(s, y) >= Unpaid(o, y)

(* commitYearEnd, up to its transaction. *)
CloseStart(t, from, to) ==
    /\ Idle(t)
    /\ from # to
    /\ ~run[from][to]
    /\ \E P \in SUBSET Surveys :
         /\ Previewed(from, P)
         /\ Become(t, [op |-> "closing", from |-> from, to |-> to,
                       proposed |-> [s \in Surveys |-> IF s \in P THEN Unpaid(s, from) ELSE 0],
                       todo |-> P, writes |-> {}])
    /\ UNCHANGED <<dbVars, publishes>>

(* The transaction reads the next survey's target demand and its arrears. *)
CarryRead(t, s) ==
    LET q == task[t]
    IN  /\ q.op = "closing"
        /\ s \in q.todo
        /\ Become(t, [op |-> "carrying", from |-> q.from, to |-> q.to, proposed |-> q.proposed,
                      todo |-> q.todo \ {s}, writes |-> q.writes, s |-> s,
                      saw |-> demand[s][q.to], sawArrears |-> arrear[s][q.to]])
        /\ UNCHANGED <<dbVars, publishes>>

(* Back to the loop, with W written in the transaction. *)
NextRow(t, W) ==
    LET q == task[t]
    IN  Become(t, [op |-> "closing", from |-> q.from, to |-> q.to, proposed |-> q.proposed,
                   todo |-> q.todo, writes |-> W])

(* The target's arrears rows, this one included, and the totals they give. *)
Carried(q) ==
    LET arrears == MapThenSumSet(LAMBDA f : q.sawArrears[f], Years) + q.proposed[q.s]
        total   == q.saw.current + arrears
    IN  [s |-> q.s, amount |-> q.proposed[q.s], arrears |-> arrears, total |-> total,
         outstanding |-> Outstanding(total, q.saw.paid), fresh |-> q.saw.status = "ABSENT"]

(* Mutation: a target that is published already is left alone. *)
MutCarrySkipsPublished(t) ==
    LET q == task[t]
    IN  /\ q.op = "carrying"
        /\ q.sawArrears[q.from] > 0 \/ q.saw.status = "PUBLISHED"
        /\ NextRow(t, q.writes)
        /\ UNCHANGED <<dbVars, publishes>>

(* The target has an arrears row from this year: skipped. *)
CarrySkip(t) ==
    LET q == task[t]
    IN  /\ q.op = "carrying"
        /\ q.sawArrears[q.from] > 0
        /\ NextRow(t, q.writes)
        /\ UNCHANGED <<dbVars, publishes>>

(* Mutation: without the unique keys. *)
MutCarryNoKeys(t) ==
    LET q == task[t]
    IN  /\ q.op = "carrying"
        /\ q.sawArrears[q.from] = 0
        /\ ~LockedBy(Tasks \ {t}, q.s, q.to)
        /\ NextRow(t, q.writes \cup {Carried(q)})
        /\ UNCHANGED <<dbVars, publishes>>

(* Create the target if there was none, insert the arrears row, update the *)
(* target; unless the unique keys of property_demand and demand_arrear are *)
(* taken by now.                                                           *)
CarryWrite(t) ==
    LET q == task[t]
    IN  /\ q.op = "carrying"
        /\ q.sawArrears[q.from] = 0
        /\ ~LockedBy(Tasks \ {t}, q.s, q.to)
        /\ q.saw.status = "ABSENT" => demand[q.s][q.to].status = "ABSENT"
        /\ arrear[q.s][q.to][q.from] = 0
        /\ NextRow(t, q.writes \cup {Carried(q)})
        /\ UNCHANGED <<dbVars, publishes>>

(* The row that a carry leaves: the closing sets three columns of a row    *)
(* that exists, all of them of a row it creates.                           *)
CarriedRow(row, w) ==
    IF w.fresh
    THEN [status |-> "DRAFT", current |-> 0, arrears |-> w.arrears, total |-> w.total,
          paid |-> 0, outstanding |-> w.outstanding]
    ELSE [row EXCEPT !.arrears = w.arrears, !.total = w.total, !.outstanding = w.outstanding]

(* Mutation: the rows are written one transaction each. *)
MutAbortKeepsRows(t) ==
    LET q == task[t]
    IN  /\ InClosing(t)
        /\ arrear' = [s \in Surveys |-> [y \in Years |-> [f \in Years |->
                        IF y = q.to /\ f = q.from /\ \E w \in q.writes : w.s = s
                        THEN q.proposed[s] ELSE arrear[s][y][f]]]]
        /\ Done(t)
        /\ UNCHANGED <<demand, run, succ, publishes>>

(* The transaction fails, times out or dies with the process: rolled back. *)
CloseAborted(t) ==
    /\ InClosing(t)
    /\ Done(t)
    /\ UNCHANGED <<dbVars, publishes>>

(* Mutation: year_end_run and demand_arrear rows are upserted. *)
MutCommitUpserts(t) ==
    LET q == task[t]
    IN  /\ q.op = "closing"
        /\ q.todo = {}
        /\ run' = [run EXCEPT ![q.from][q.to] = TRUE]
        /\ arrear' = [s \in Surveys |-> [arrear[s] EXCEPT ![q.to][q.from] =
                        IF q.proposed[s] > 0 THEN q.proposed[s] ELSE @]]
        /\ Done(t)
        /\ UNCHANGED <<demand, succ, publishes>>

(* The year_end_run row is created and everything becomes visible. *)
CloseCommit(t) ==
    LET q == task[t]
        WriteOf(s) == {w \in q.writes : w.s = s}
    IN  /\ q.op = "closing"
        /\ q.todo = {}
        /\ ~run[q.from][q.to]
        /\ run' = [run EXCEPT ![q.from][q.to] = TRUE]
        /\ demand' = [s \in Surveys |-> [y \in Years |->
                        IF y = q.to /\ WriteOf(s) # {}
                        THEN CarriedRow(demand[s][y], CHOOSE w \in WriteOf(s) : TRUE)
                        ELSE demand[s][y]]]
        /\ arrear' = [s \in Surveys |-> [y \in Years |-> [f \in Years |->
                        IF y = q.to /\ f = q.from /\ WriteOf(s) # {}
                        THEN (CHOOSE w \in WriteOf(s) : TRUE).amount
                        ELSE arrear[s][y][f]]]]
        /\ Done(t)
        /\ UNCHANGED <<succ, publishes>>

-----------------------------------------------------------------------------
Publishing(t) ==
    \/ \E s \in Surveys, y \in Years : PublishOne(t, s, y)
    \/ \E y \in Years : PublishWard(t, y)
    \/ \E s \in Surveys, c \in Currents : PublishRead(t, s, c)
    \/ PublishWrite(t)
    \/ PublishFailed(t)

Closing(t) ==
    \/ \E from, to \in Years : CloseStart(t, from, to)
    \/ \E s \in Surveys : CarryRead(t, s)
    \/ CarrySkip(t)
    \/ CarryWrite(t)
    \/ CloseCommit(t)
    \/ CloseAborted(t)

Next ==
    \/ \E t \in Tasks : Publishing(t) \/ Closing(t)
    \/ \E s \in Surveys, y \in Years, a \in PayAmounts : Pay(s, y, a)

Spec == Init /\ [][Next]_vars

-----------------------------------------------------------------------------
(* Properties *)

(* Rows and tasks in flight hold values of their types. *)
TypeOK ==
    /\ demand \in [Surveys -> [Years -> DemandRow]]
    /\ arrear \in [Surveys -> [Years -> [Years -> Nat]]]
    /\ run \in [Years -> [Years -> BOOLEAN]]
    /\ succ \in [Surveys -> [Years -> Nat]]
    /\ publishes \in Nat
    /\ task \in [Tasks -> Task]

(* All or nothing: an arrears row from a year exists only if the closing   *)
(* of that year has committed, wherever a closing fails or dies.           *)
ArrearsByCommittedRun ==
    \A s \in Surveys : \A f, y \in Years : arrear[s][y][f] > 0 => run[f][y]

(* "commit once per year pair": however many closings of the same years    *)
(* run at the same time, what was carried for a survey is never changed    *)
(* or carried again.                                                       *)
CarriedOnce ==
    [][\A s \in Surveys : \A f, y \in Years :
         run[f][y] => run'[f][y] /\ arrear'[s][y][f] = arrear[s][y][f]]_vars

(* A closing that commits has carried every survey of its preview,         *)
(* whatever was published or collected while it ran.                       *)
PreviewIsCarried ==
    [][\A t \in Tasks :
         LET q == task[t]
         IN  q.op = "closing" /\ ~run[q.from][q.to] /\ run'[q.from][q.to] /\ Idle(t)'
             => \A s \in Surveys : q.proposed[s] > 0 => arrear'[s][q.to][q.from] > 0]_vars

(* A published demand is never turned back into a draft or lost: not by a  *)
(* closing that saw no target and not by a publish that saw none.          *)
PublishedStays ==
    [][\A s \in Surveys, y \in Years :
         demand[s][y].status = "PUBLISHED" => demand'[s][y].status = "PUBLISHED"]_vars

-----------------------------------------------------------------------------
(* What the repository says of the code and the code does not do *)

(* "Existing demand arrears are preserved": a ward publish does not lower  *)
(* the arrears of a demand that exists.                                    *)
WardKeepsArrears ==
    [][\A t \in Tasks :
         LET q == task[t]
         IN  q.op = "publishing" /\ task'[t] # q /\ q.keep
             => demand'[q.s][q.year].arrears >= demand[q.s][q.year].arrears]_vars

(* "Carry unpaid published outstanding into the next assessment year as    *)
(* arrears": the closing that commits carries, for every survey, what is   *)
(* unpaid then.                                                            *)
UnpaidIsCarried ==
    [][\A f, y \in Years :
         ~run[f][y] /\ run'[f][y]
         => \A s \in Surveys : Unpaid(s, f) > 0 => arrear'[s][y][f] = Unpaid(s, f)]_vars

=============================================================================
