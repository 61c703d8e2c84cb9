---------------------------- MODULE YearEndProofs ----------------------------
(***************************************************************************)
(* Proofs about YearEnd, for any number of surveys, years, publishes and   *)
(* closings at the same time and for any amounts.                          *)
(***************************************************************************)
EXTENDS YearEnd, FiniteSums

-----------------------------------------------------------------------------
(* The inductive invariant.  A closing decides by what it saw and writes   *)
(* it much later, so the invariant says what of that is still so: what it  *)
(* skipped is there, what it is about to create is not, and nobody else is *)
(* about to write the rows it has written.                                 *)

ClosingOps == {"closing", "carrying"}

(* What holds of a publish or closing in flight. *)
TaskOK(q) ==
    /\ q.op = "publishing" => q.row.status = "PUBLISHED"
    /\ q.op \in ClosingOps =>
          /\ \A s \in q.todo : q.proposed[s] > 0
          /\ \A w \in q.writes : /\ w.amount = q.proposed[w.s] /\ w.amount > 0
                                 /\ w.fresh => demand[w.s][q.to].status = "ABSENT"
          /\ \A s \in Surveys : q.proposed[s] > 0 =>
                \/ s \in q.todo
                \/ q.op = "carrying" /\ s = q.s
                \/ \E w \in q.writes : w.s = s
                \/ arrear[s][q.to][q.from] > 0
    /\ q.op = "carrying" =>
          /\ q.proposed[q.s] > 0
          /\ \A f \in Years : q.sawArrears[f] > 0 => arrear[q.s][q.to][f] > 0

TasksOK == \A t \in Tasks : TaskOK(task[t])

(* The rows a closing has written are locked against every other closing. *)
Exclusive ==
    \A t, u \in Tasks :
        t # u /\ InClosing(t) /\ InClosing(u) /\ task[t].to = task[u].to
        => \A w \in task[t].writes, v \in task[u].writes : w.s # v.s

IInv == TypeOK /\ TasksOK /\ Exclusive /\ ArrearsByCommittedRun

-----------------------------------------------------------------------------
(* Facts used by several actions *)

LEMMA OutstandingNat ==
    ASSUME NEW t \in Nat, NEW a \in Nat
    PROVE  Outstanding(t, a) \in Nat
BY DEF Outstanding

LEMMA UnpaidNat ==
    ASSUME TypeOK, NEW s \in Surveys, NEW y \in Years
    PROVE  Unpaid(s, y) \in Nat
BY DEF Unpaid, TypeOK, DemandRow

(* An assessed row is a published row. *)
LEMMA AssessedRow ==
    ASSUME NEW c \in Nat, NEW a \in Nat, NEW paid \in Nat
    PROVE  Assessed(c, a, paid) \in DemandRow /\ Assessed(c, a, paid).status = "PUBLISHED"
<1>1. c + a \in Nat
  OBVIOUS
<1>2. Outstanding(c + a, paid) \in Nat
  BY <1>1, OutstandingNat
<1> QED
  BY <1>1, <1>2 DEF Assessed, DemandRow

(* What a closing carries for a survey is well typed: the arrears rows of  *)
(* the finitely many years add up.                                         *)
LEMMA CarriedCarry ==
    ASSUME NEW q \in Task, q.op = "carrying"
    PROVE  /\ Carried(q) \in Carry
           /\ Carried(q).s = q.s
           /\ Carried(q).amount = q.proposed[q.s]
           /\ Carried(q).fresh <=> q.saw.status = "ABSENT"
<1>1. /\ q.s \in Surveys /\ q.saw \in DemandRow /\ q.proposed \in [Surveys -> Nat]
      /\ q.sawArrears \in [Years -> Nat]
  BY DEF Task
<1> DEFINE sum == MapThenSumSet(LAMBDA f : q.sawArrears[f], Years)
<1>2. sum \in Nat
  <2>1. sum = SumOver(q.sawArrears, Years)
    BY DEF SumOver
  <2>2. \A f \in Years : q.sawArrears[f] \in Nat
    BY <1>1
  <2> QED
    BY <2>1, <2>2, SumNat, ClosingAssumption
<1> HIDE DEF sum
<1>3. q.proposed[q.s] \in Nat /\ q.saw.current \in Nat /\ q.saw.paid \in Nat
  BY <1>1 DEF DemandRow
<1> DEFINE arrears == sum + q.proposed[q.s]
           total == q.saw.current + arrears
           fresh == (q.saw.status = "ABSENT")
<1>4. arrears \in Nat /\ total \in Nat
  BY <1>2, <1>3
<1> HIDE DEF arrears, total
<1>5. Outstanding(total, q.saw.paid) \in Nat
  BY <1>3, <1>4, OutstandingNat
<1>6. Carried(q) = [s |-> q.s, amount |-> q.proposed[q.s], arrears |-> arrears,
                    total |-> total, outstanding |-> Outstanding(total, q.saw.paid),
                    fresh |-> fresh]
  BY DEF Carried, arrears, total, sum
<1>7. fresh \in BOOLEAN /\ (fresh <=> q.saw.status = "ABSENT")
  OBVIOUS
<1> HIDE DEF fresh
<1>8. Carried(q) \in Carry
  BY <1>1, <1>3, <1>4, <1>5, <1>6, <1>7 DEF Carry
<1>9. Carried(q).s = q.s /\ Carried(q).amount = q.proposed[q.s] /\ Carried(q).fresh = fresh
  BY <1>6
<1> QED
  BY <1>7, <1>8, <1>9, Zenon

(* A row that a carry leaves is a row, and keeps its status unless it is new. *)
LEMMA CarriedRowRow ==
    ASSUME NEW row \in DemandRow, NEW w \in Carry
    PROVE  /\ CarriedRow(row, w) \in DemandRow
           /\ ~w.fresh => CarriedRow(row, w).status = row.status
BY DEF CarriedRow, DemandRow, Carry

LEMMA InitIInv == Init => IInv
<1> SUFFICES ASSUME Init PROVE IInv
  OBVIOUS
<1>1. TypeOK
  BY DEF Init, TypeOK, Absent, DemandRow, Task
<1>2. TasksOK /\ Exclusive
  BY DEF Init, TasksOK, TaskOK, ClosingOps, Exclusive, InClosing
<1>3. ArrearsByCommittedRun
  BY DEF Init, ArrearsByCommittedRun
<1> QED
  BY <1>1, <1>2, <1>3 DEF IInv

(* A step of one task that changes no row: the invariant stays if the task *)
(* is in order and has written no row another closing has.                 *)
LEMMA TaskStep ==
    ASSUME IInv, NEW t \in Tasks, NEW q \in Task, TaskOK(q), Become(t, q),
           UNCHANGED dbVars, publishes' \in Nat,
           q.op \in ClosingOps =>
              \A u \in Tasks \ {t} : InClosing(u) /\ task[u].to = q.to =>
                 \A w \in q.writes, v \in task[u].writes : w.s # v.s
    PROVE  IInv'
<1>1. task' \in [Tasks -> Task] /\ \A u \in Tasks : task'[u] = IF u = t THEN q ELSE task[u]
  BY DEF IInv, TypeOK, Become
<1>2. TypeOK'
  BY <1>1 DEF IInv, TypeOK, dbVars
<1>3. \A x : TaskOK(x)' = TaskOK(x)
  BY DEF TaskOK, dbVars
<1>4. TasksOK'
  BY <1>1, <1>3 DEF IInv, TasksOK
<1>5. Exclusive'
  BY <1>1 DEF IInv, Exclusive, InClosing, ClosingOps
<1>6. ArrearsByCommittedRun'
  BY DEF IInv, ArrearsByCommittedRun, dbVars
<1> QED
  BY <1>2, <1>4, <1>5, <1>6 DEF IInv

(* A task that is done. *)
LEMMA DoneStep ==
    ASSUME IInv, NEW t \in Tasks, Done(t), UNCHANGED <<dbVars, publishes>>
    PROVE  IInv'
<1> DEFINE q == [op |-> "idle"]
<1>1. q \in Task /\ q.op = "idle"
  BY DEF Task
<1>2. TaskOK(q) /\ q.op \notin ClosingOps
  BY DEF TaskOK, ClosingOps
<1>3. Become(t, q) /\ publishes' \in Nat
  BY DEF Done, IInv, TypeOK
<1> HIDE DEF q
<1> QED
  BY <1>1, <1>2, <1>3, TaskStep

-----------------------------------------------------------------------------
(* Publishing *)

(* A publish that has been asked for, or is back in its loop. *)
LEMMA PublishTask ==
    ASSUME NEW y \in Years, NEW k \in BOOLEAN, NEW todo \in SUBSET Surveys
    PROVE  LET q == [op |-> "publish", year |-> y, keep |-> k, todo |-> todo]
           IN  q \in Task /\ TaskOK(q) /\ q.op = "publish"
BY DEF Task, TaskOK, ClosingOps

LEMMA PublishOneKeeps ==
    ASSUME IInv, NEW t \in Tasks, NEW s \in Surveys, NEW y \in Years, PublishOne(t, s, y)
    PROVE  IInv'
<1> DEFINE q == [op |-> "publish", year |-> y, keep |-> FALSE, todo |-> {s}]
<1>1. q \in Task /\ TaskOK(q) /\ q.op \notin ClosingOps
  BY PublishTask DEF ClosingOps
<1>2. Become(t, q) /\ UNCHANGED dbVars /\ publishes' \in Nat
  BY DEF PublishOne, IInv, TypeOK
<1> HIDE DEF q
<1> QED
  BY <1>1, <1>2, TaskStep

LEMMA PublishWardKeeps ==
    ASSUME IInv, NEW t \in Tasks, NEW y \in Years, PublishWard(t, y)
    PROVE  IInv'
<1> DEFINE q == [op |-> "publish", year |-> y, keep |-> TRUE, todo |-> Surveys]
<1>1. q \in Task /\ TaskOK(q) /\ q.op \notin ClosingOps
  BY PublishTask DEF ClosingOps
<1>2. Become(t, q) /\ UNCHANGED dbVars /\ publishes' \in Nat
  BY DEF PublishWard, IInv, TypeOK
<1> HIDE DEF q
<1> QED
  BY <1>1, <1>2, TaskStep

LEMMA PublishReadKeeps ==
    ASSUME IInv, NEW t \in Tasks, NEW s \in Surveys, NEW c \in Currents, PublishRead(t, s, c)
    PROVE  IInv'
<1> DEFINE p == task[t]
           old == demand[s][p.year]
           row == Assessed(c, IF p.keep THEN old.arrears ELSE 0, succ[s][p.year])
           q == [op |-> "publishing", year |-> p.year, keep |-> p.keep, todo |-> p.todo \ {s},
                 s |-> s, existed |-> old.status # "ABSENT", row |-> row]
<1>1. p \in Task /\ p.op = "publish" /\ Become(t, q) /\ UNCHANGED <<dbVars, publishes>>
  BY DEF PublishRead, IInv, TypeOK
<1>2. p.year \in Years /\ p.keep \in BOOLEAN /\ p.todo \in SUBSET Surveys
  BY <1>1 DEF Task
<1>3. old.arrears \in Nat /\ succ[s][p.year] \in Nat /\ c \in Nat
  BY <1>2, ClosingAssumption DEF IInv, TypeOK, DemandRow
<1>4. row \in DemandRow /\ row.status = "PUBLISHED"
  <2>1. (IF p.keep THEN old.arrears ELSE 0) \in Nat
    BY <1>3
  <2> QED
    BY <1>3, <2>1, AssessedRow
<1>5. (old.status # "ABSENT") \in BOOLEAN
  OBVIOUS
<1>6. q \in Task
  <2> DEFINE existed == old.status # "ABSENT"
  <2> HIDE DEF p, row, existed
  <2>1. [op |-> "publishing", year |-> p.year, keep |-> p.keep, todo |-> p.todo \ {s},
         s |-> s, existed |-> existed, row |-> row] \in Task
    <3>1. existed \in BOOLEAN
      BY DEF existed
    <3> QED
      BY <1>2, <1>4, <3>1 DEF Task
  <2> QED
    BY <2>1 DEF existed
<1>7. TaskOK(q) /\ q.op \notin ClosingOps
  BY <1>4 DEF TaskOK, ClosingOps
<1>8. publishes' \in Nat
  BY <1>1 DEF IInv, TypeOK
<1> HIDE DEF q
<1> QED
  BY <1>1, <1>6, <1>7, <1>8, TaskStep

(* A step that writes demands and leaves the closings in flight as they    *)
(* are keeps the invariant if no row one of them creates appears.          *)
LEMMA RowStep ==
    ASSUME IInv, TypeOK', UNCHANGED <<arrear, run>>,
           \A t \in Tasks : \/ task'[t] = task[t]
                            \/ TaskOK(task'[t]) /\ task'[t].op \notin ClosingOps,
           \A t \in Tasks : InClosing(t) =>
              \A w \in task[t].writes :
                 w.fresh => demand'[w.s][task[t].to].status = demand[w.s][task[t].to].status
    PROVE  IInv'
<1>1. ASSUME NEW t \in Tasks
      PROVE  TaskOK(task[t])'
  <2>1. CASE task'[t] = task[t]
    BY <2>1 DEF IInv, TasksOK, TaskOK, InClosing, ClosingOps
  <2>2. CASE TaskOK(task'[t]) /\ task'[t].op \notin ClosingOps
    BY <2>2 DEF TaskOK, ClosingOps
  <2> QED
    BY <2>1, <2>2
<1>2. TasksOK'
  BY <1>1 DEF TasksOK
<1>3. Exclusive'
  BY DEF IInv, Exclusive, InClosing, ClosingOps
<1>4. ArrearsByCommittedRun'
  BY DEF IInv, ArrearsByCommittedRun
<1> QED
  BY <1>2, <1>3, <1>4 DEF IInv

LEMMA PublishWriteKeeps ==
    ASSUME IInv, NEW t \in Tasks, PublishWrite(t)
    PROVE  IInv'
<1> DEFINE q == task[t]
           idle == [op |-> "idle"]
           next == [op |-> "publish", year |-> q.year, keep |-> q.keep, todo |-> q.todo]
<1>1. /\ q \in Task /\ q.op = "publishing"
      /\ task' = [task EXCEPT ![t] = IF q.todo = {} THEN idle ELSE next]
  BY DEF PublishWrite, Done, Become, IInv, TypeOK
<1>2. /\ q.year \in Years /\ q.keep \in BOOLEAN /\ q.todo \in SUBSET Surveys
      /\ q.s \in Surveys /\ q.row \in DemandRow
  BY <1>1 DEF Task
<1>3. idle \in Task /\ TaskOK(idle) /\ idle.op \notin ClosingOps
  BY DEF Task, TaskOK, ClosingOps
<1>4. next \in Task /\ TaskOK(next) /\ next.op \notin ClosingOps
  <2> HIDE DEF q
  <2> QED
    BY <1>2, PublishTask DEF ClosingOps
<1>5. demand' = [demand EXCEPT ![q.s][q.year] = q.row] /\ UNCHANGED <<arrear, run, succ, publishes>>
  BY DEF PublishWrite
<1>6. ~LockedBy(Tasks, q.s, q.year)
  BY DEF PublishWrite
<1>7. \A u \in Tasks : InClosing(u) =>
         \A w \in task[u].writes : demand'[w.s][task[u].to] = demand[w.s][task[u].to]
  <2> SUFFICES ASSUME NEW u \in Tasks, InClosing(u), NEW w \in task[u].writes
               PROVE  demand'[w.s][task[u].to] = demand[w.s][task[u].to]
    OBVIOUS
  <2>1. ~(w.s = q.s /\ task[u].to = q.year)
    BY <1>6 DEF LockedBy
  <2>2. w.s \in Surveys /\ task[u].to \in Years
    <3>1. task[u] \in Task /\ task[u].op \in {"closing", "carrying"}
      BY DEF IInv, TypeOK, InClosing
    <3> QED
      BY <3>1 DEF Task, Carry
  <2> HIDE DEF q
  <2> QED
    BY <1>2, <1>5, <2>1, <2>2 DEF IInv, TypeOK
<1>8. \A u \in Tasks : task'[u] = IF u = t THEN IF q.todo = {} THEN idle ELSE next ELSE task[u]
  BY <1>1 DEF IInv, TypeOK
<1> HIDE DEF q, idle, next
<1>9. TypeOK'
  <2>1. demand' \in [Surveys -> [Years -> DemandRow]]
    BY <1>2, <1>5 DEF IInv, TypeOK
  <2>2. task' \in [Tasks -> Task]
    BY <1>1, <1>3, <1>4 DEF IInv, TypeOK
  <2> QED
    BY <1>5, <2>1, <2>2 DEF IInv, TypeOK
<1> QED
  BY <1>3, <1>4, <1>5, <1>7, <1>8, <1>9, RowStep

LEMMA PublishFailedKeeps ==
    ASSUME IInv, NEW t \in Tasks, PublishFailed(t)
    PROVE  IInv'
BY DoneStep DEF PublishFailed

-----------------------------------------------------------------------------
(* Payments *)

(* A payment changes two columns of a row that stays what it is. *)
LEMMA PayRows ==
    ASSUME TypeOK, NEW s \in Surveys, NEW y \in Years, NEW a \in PayAmounts, Pay(s, y, a)
    PROVE  /\ demand' \in [Surveys -> [Years -> DemandRow]]
           /\ \A r \in Surveys, x \in Years : demand'[r][x].status = demand[r][x].status
<1> DEFINE row == demand[s][y]
           new == [row EXCEPT !.paid = row.paid + a,
                              !.outstanding = Outstanding(row.total, row.paid + a)]
<1>1. row \in DemandRow /\ a \in Nat
  BY ClosingAssumption DEF TypeOK
<1>2. row.total \in Nat /\ row.paid + a \in Nat
  BY <1>1 DEF DemandRow
<1>3. Outstanding(row.total, row.paid + a) \in Nat
  BY <1>2, OutstandingNat
<1>4. new \in DemandRow /\ new.status = row.status
  BY <1>1, <1>2, <1>3 DEF DemandRow
<1>5. CASE row.status = "PUBLISHED"
  <2>1. demand' = [demand EXCEPT ![s][y] = new]
    BY <1>5 DEF Pay, TypeOK, DemandRow
  <2> HIDE DEF new, row
  <2>2. row = demand[s][y]
    BY DEF row
  <2> QED
    BY <1>4, <2>1, <2>2 DEF TypeOK
<1>6. CASE row.status # "PUBLISHED"
  BY <1>6 DEF Pay, TypeOK
<1> QED
  BY <1>5, <1>6

LEMMA PayKeeps ==
    ASSUME IInv, NEW s \in Surveys, NEW y \in Years, NEW a \in PayAmounts, Pay(s, y, a)
    PROVE  IInv'
<1>1. /\ demand' \in [Surveys -> [Years -> DemandRow]]
      /\ \A r \in Surveys, x \in Years : demand'[r][x].status = demand[r][x].status
  BY PayRows DEF IInv
<1>2. UNCHANGED <<arrear, run, publishes, task>>
  BY DEF Pay
<1>3. succ' \in [Surveys -> [Years -> Nat]]
  <2>1. a \in Nat
    BY ClosingAssumption
  <2> QED
    BY <2>1 DEF Pay, IInv, TypeOK
<1>4. TypeOK'
  BY <1>1, <1>2, <1>3 DEF IInv, TypeOK
<1>5. ASSUME NEW t \in Tasks, InClosing(t), NEW w \in task[t].writes
      PROVE  demand'[w.s][task[t].to].status = demand[w.s][task[t].to].status
  <2>1. task[t] \in Task /\ task[t].op \in {"closing", "carrying"}
    BY <1>5 DEF IInv, TypeOK, InClosing
  <2>2. w.s \in Surveys /\ task[t].to \in Years
    BY <2>1 DEF Task, Carry
  <2> QED
    BY <1>1, <2>2
<1> QED
  BY <1>2, <1>4, <1>5, RowStep

-----------------------------------------------------------------------------
(* The year-end closing *)

(* Two tasks that are both closing, of which t moves on with the rows it   *)
(* had: still nobody else has one of them.                                 *)
LEMMA StillExclusive ==
    ASSUME IInv, NEW t \in Tasks, InClosing(t)
    PROVE  \A u \in Tasks \ {t} : InClosing(u) /\ task[u].to = task[t].to =>
              \A w \in task[t].writes, v \in task[u].writes : w.s # v.s
BY DEF IInv, Exclusive

LEMMA CloseStartKeeps ==
    ASSUME IInv, NEW t \in Tasks, NEW from \in Years, NEW to \in Years,
           CloseStart(t, from, to)
    PROVE  IInv'
<1>1. PICK P \in SUBSET Surveys :
         /\ Previewed(from, P)
         /\ Become(t, [op |-> "closing", from |-> from, to |-> to,
                       proposed |-> [s \in Surveys |-> IF s \in P THEN Unpaid(s, from) ELSE 0],
                       todo |-> P, writes |-> {}])
  BY DEF CloseStart
<1> DEFINE proposed == [s \in Surveys |-> IF s \in P THEN Unpaid(s, from) ELSE 0]
           q == [op |-> "closing", from |-> from, to |-> to, proposed |-> proposed,
                 todo |-> P, writes |-> {}]
<1>2. proposed \in [Surveys -> Nat]
  BY UnpaidNat DEF IInv
<1>3. \A s \in Surveys : proposed[s] > 0 <=> s \in P
  <2>1. \A s \in P : Unpaid(s, from) > 0
    BY <1>1 DEF Previewed
  <2> QED
    BY <2>1
<1>4. Become(t, q) /\ UNCHANGED dbVars /\ publishes' \in Nat
  BY <1>1 DEF CloseStart, IInv, TypeOK
<1> HIDE DEF proposed
<1>5. q \in Task
  BY <1>2 DEF Task
<1>6. TaskOK(q)
  BY <1>3 DEF TaskOK, ClosingOps
<1>7. q.writes = {}
  OBVIOUS
<1> HIDE DEF q
<1> QED
  BY <1>4, <1>5, <1>6, <1>7, TaskStep

LEMMA CarryReadKeeps ==
    ASSUME IInv, NEW t \in Tasks, NEW s \in Surveys, CarryRead(t, s)
    PROVE  IInv'
<1> DEFINE p == task[t]
           q == [op |-> "carrying", from |-> p.from, to |-> p.to, proposed |-> p.proposed,
                 todo |-> p.todo \ {s}, writes |-> p.writes, s |-> s,
                 saw |-> demand[s][p.to], sawArrears |-> arrear[s][p.to]]
<1>1. /\ p \in Task /\ p.op = "closing" /\ s \in p.todo /\ TaskOK(p)
      /\ Become(t, q) /\ UNCHANGED <<dbVars, publishes>>
  BY DEF CarryRead, IInv, TypeOK, TasksOK
<1>2. /\ p.from \in Years /\ p.to \in Years /\ p.proposed \in [Surveys -> Nat]
      /\ p.todo \in SUBSET Surveys /\ p.writes \in SUBSET Carry
  BY <1>1 DEF Task
<1>3. demand[s][p.to] \in DemandRow /\ arrear[s][p.to] \in [Years -> Nat]
  BY <1>2 DEF IInv, TypeOK
<1>4. \A u \in Tasks \ {t} : InClosing(u) /\ task[u].to = p.to =>
         \A w \in p.writes, v \in task[u].writes : w.s # v.s
  BY <1>1, StillExclusive DEF InClosing
<1>5. publishes' \in Nat
  BY <1>1 DEF IInv, TypeOK
<1> HIDE DEF p
<1>6. q \in Task
  BY <1>2, <1>3 DEF Task
<1>7. TaskOK(q)
  BY <1>1, <1>2, <1>3 DEF TaskOK, ClosingOps
<1>8. q.writes = p.writes /\ q.to = p.to
  OBVIOUS
<1> HIDE DEF q
<1> QED
  BY <1>1, <1>4, <1>5, <1>6, <1>7, <1>8, TaskStep

(* Back in the loop with the rows W. *)
LEMMA NextRowStep ==
    ASSUME IInv, NEW t \in Tasks, NEW W \in SUBSET Carry, task[t].op = "carrying",
           NextRow(t, W), UNCHANGED <<dbVars, publishes>>, task[t].writes \subseteq W,
           \A w \in W \ task[t].writes :
              /\ w.s = task[t].s /\ w.amount = task[t].proposed[w.s]
              /\ w.fresh => demand[w.s][task[t].to].status = "ABSENT"
              /\ ~LockedBy(Tasks \ {t}, w.s, task[t].to),
           \/ arrear[task[t].s][task[t].to][task[t].from] > 0
           \/ \E w \in W : w.s = task[t].s
    PROVE  IInv'
<1> DEFINE p == task[t]
           q == [op |-> "closing", from |-> p.from, to |-> p.to, proposed |-> p.proposed,
                 todo |-> p.todo, writes |-> W]
<1>1. p \in Task /\ p.op = "carrying" /\ TaskOK(p) /\ Become(t, q)
  BY DEF NextRow, IInv, TypeOK, TasksOK
<1>2. /\ p.from \in Years /\ p.to \in Years /\ p.proposed \in [Surveys -> Nat]
      /\ p.todo \in SUBSET Surveys /\ p.s \in Surveys
  BY <1>1 DEF Task
<1>3. ASSUME NEW u \in Tasks \ {t}, InClosing(u), task[u].to = p.to,
             NEW w \in W, NEW v \in task[u].writes
      PROVE  w.s # v.s
  <2>1. CASE w \in p.writes
    BY <1>1, <1>3, <2>1, StillExclusive DEF InClosing
  <2>2. CASE w \notin p.writes
    BY <1>3, <2>2 DEF LockedBy
  <2> QED
    BY <2>1, <2>2
<1>4. publishes' \in Nat
  BY DEF IInv, TypeOK
<1>5. q \in Task
  BY <1>2 DEF Task
<1>6. TaskOK(q)
  <2>1. q.op = "closing" /\ q.op \in ClosingOps
    BY DEF ClosingOps
  <2>2. \A s \in q.todo : q.proposed[s] > 0
    BY <1>1 DEF TaskOK, ClosingOps
  <2>3. ASSUME NEW w \in q.writes
        PROVE  /\ w.amount = q.proposed[w.s] /\ w.amount > 0
               /\ w.fresh => demand[w.s][q.to].status = "ABSENT"
    BY <1>1, <2>3 DEF TaskOK, ClosingOps
  <2>4. ASSUME NEW s \in Surveys, q.proposed[s] > 0
        PROVE  \/ s \in q.todo
               \/ \E w \in q.writes : w.s = s
               \/ arrear[s][q.to][q.from] > 0
    BY <1>1, <2>4 DEF TaskOK, ClosingOps
  <2> HIDE DEF q
  <2> QED
    BY <2>1, <2>2, <2>3, <2>4 DEF TaskOK
<1>7. q.writes = W /\ q.to = p.to
  OBVIOUS
<1> HIDE DEF q
<1> QED
  BY <1>1, <1>3, <1>4, <1>5, <1>6, <1>7, TaskStep

LEMMA CarrySkipKeeps ==
    ASSUME IInv, NEW t \in Tasks, CarrySkip(t)
    PROVE  IInv'
<1> DEFINE p == task[t]
<1>1. /\ p \in Task /\ p.op = "carrying" /\ TaskOK(p) /\ p.sawArrears[p.from] > 0
      /\ NextRow(t, p.writes) /\ UNCHANGED <<dbVars, publishes>>
  BY DEF CarrySkip, IInv, TypeOK, TasksOK
<1>2. p.writes \in SUBSET Carry /\ p.from \in Years
  BY <1>1 DEF Task
<1>3. arrear[p.s][p.to][p.from] > 0
  BY <1>1, <1>2 DEF TaskOK
<1> QED
  BY <1>1, <1>2, <1>3, NextRowStep

LEMMA CarryWriteKeeps ==
    ASSUME IInv, NEW t \in Tasks, CarryWrite(t)
    PROVE  IInv'
<1> DEFINE p == task[t]
           c == Carried(p)
           W == p.writes \cup {c}
<1>1. /\ p \in Task /\ p.op = "carrying" /\ ~LockedBy(Tasks \ {t}, p.s, p.to)
      /\ p.saw.status = "ABSENT" => demand[p.s][p.to].status = "ABSENT"
      /\ NextRow(t, W) /\ UNCHANGED <<dbVars, publishes>>
  BY DEF CarryWrite, IInv, TypeOK
<1>2. c \in Carry /\ c.s = p.s /\ c.amount = p.proposed[p.s] /\ (c.fresh <=> p.saw.status = "ABSENT")
  BY <1>1, CarriedCarry
<1>3. W \in SUBSET Carry
  BY <1>1, <1>2 DEF Task
<1>4. \A w \in W \ p.writes : w = c
  OBVIOUS
<1> HIDE DEF c
<1>5. p.writes \subseteq W /\ c \in W
  OBVIOUS
<1> HIDE DEF W
<1> QED
  BY <1>1, <1>2, <1>3, <1>4, <1>5, NextRowStep

LEMMA CloseAbortedKeeps ==
    ASSUME IInv, NEW t \in Tasks, CloseAborted(t)
    PROVE  IInv'
BY DoneStep DEF CloseAborted

(* What the commit of closing t does to each row: only rows of its own     *)
(* target year change, with what it wrote for their survey.                *)
Written(t, s) == {w \in task[t].writes : w.s = s}

LEMMA CommitRows ==
    ASSUME IInv, NEW t \in Tasks, CloseCommit(t)
    PROVE  /\ task[t] \in Task /\ TaskOK(task[t]) /\ task[t].op = "closing" /\ task[t].todo = {}
           /\ ~run[task[t].from][task[t].to]
           /\ run' = [run EXCEPT ![task[t].from][task[t].to] = TRUE]
           /\ Done(t) /\ UNCHANGED <<succ, publishes>>
           /\ demand' \in [Surveys -> [Years -> DemandRow]]
           /\ arrear' \in [Surveys -> [Years -> [Years -> Nat]]]
           /\ \A s \in Surveys, y \in Years :
                 \/ demand'[s][y] = demand[s][y]
                 \/ /\ y = task[t].to
                    /\ \E w \in Written(t, s) : demand'[s][y] = CarriedRow(demand[s][y], w)
           /\ \A s \in Surveys, y, f \in Years :
                 IF y = task[t].to /\ f = task[t].from /\ Written(t, s) # {}
                 THEN \E w \in Written(t, s) : arrear'[s][y][f] = w.amount
                 ELSE arrear'[s][y][f] = arrear[s][y][f]
<1> DEFINE q == task[t]
           One(s) == CHOOSE w \in Written(t, s) : TRUE
<1>1. /\ q \in Task /\ TaskOK(q) /\ q.op = "closing" /\ q.todo = {}
      /\ ~run[q.from][q.to] /\ run' = [run EXCEPT ![q.from][q.to] = TRUE]
      /\ Done(t) /\ UNCHANGED <<succ, publishes>>
  BY DEF CloseCommit, IInv, TypeOK, TasksOK
<1>2. q.from \in Years /\ q.to \in Years /\ q.writes \in SUBSET Carry
  BY <1>1 DEF Task
<1>3. ASSUME NEW s, Written(t, s) # {}
      PROVE  One(s) \in Written(t, s) /\ One(s) \in Carry
  BY <1>2, <1>3 DEF Written
<1>4. demand' = [s \in Surveys |-> [y \in Years |->
                   IF y = q.to /\ Written(t, s) # {} THEN CarriedRow(demand[s][y], One(s))
                   ELSE demand[s][y]]]
  BY DEF CloseCommit, Written
<1>5. arrear' = [s \in Surveys |-> [y \in Years |-> [f \in Years |->
                   IF y = q.to /\ f = q.from /\ Written(t, s) # {} THEN One(s).amount
                   ELSE arrear[s][y][f]]]]
  BY DEF CloseCommit, Written
<1> HIDE DEF One
<1>6. demand' \in [Surveys -> [Years -> DemandRow]]
  <2>1. ASSUME NEW s \in Surveys, NEW y \in Years
        PROVE  (IF y = q.to /\ Written(t, s) # {} THEN CarriedRow(demand[s][y], One(s))
                ELSE demand[s][y]) \in DemandRow
    BY <1>3, CarriedRowRow DEF IInv, TypeOK
  <2> QED
    BY <1>4, <2>1
<1>7. arrear' \in [Surveys -> [Years -> [Years -> Nat]]]
  <2>1. ASSUME NEW s \in Surveys, NEW y \in Years, NEW f \in Years
        PROVE  (IF y = q.to /\ f = q.from /\ Written(t, s) # {} THEN One(s).amount
                ELSE arrear[s][y][f]) \in Nat
    BY <1>3 DEF IInv, TypeOK, Carry
  <2> QED
    BY <1>5, <2>1
<1>8. ASSUME NEW s \in Surveys, NEW y \in Years
      PROVE  \/ demand'[s][y] = demand[s][y]
             \/ /\ y = q.to
                /\ \E w \in Written(t, s) : demand'[s][y] = CarriedRow(demand[s][y], w)
  BY <1>3, <1>4
<1>9. ASSUME NEW s \in Surveys, NEW y \in Years, NEW f \in Years
      PROVE  IF y = q.to /\ f = q.from /\ Written(t, s) # {}
             THEN \E w \in Written(t, s) : arrear'[s][y][f] = w.amount
             ELSE arrear'[s][y][f] = arrear[s][y][f]
  BY <1>3, <1>5
<1> QED
  BY <1>1, <1>6, <1>7, <1>8, <1>9

(* Every other row stays as it is. *)
LEMMA CommitSpares ==
    ASSUME IInv, NEW t \in Tasks, CloseCommit(t), NEW s \in Surveys, NEW y \in Years
    PROVE  /\ ~(y = task[t].to /\ Written(t, s) # {}) => demand'[s][y] = demand[s][y]
           /\ \A f \in Years : ~(y = task[t].to /\ f = task[t].from)
                             => arrear'[s][y][f] = arrear[s][y][f]
<1>1. \A r \in Surveys, x \in Years :
         \/ demand'[r][x] = demand[r][x]
         \/ /\ x = task[t].to
            /\ \E w \in Written(t, r) : demand'[r][x] = CarriedRow(demand[r][x], w)
  BY CommitRows
<1>2. \A r \in Surveys, x, f \in Years :
         IF x = task[t].to /\ f = task[t].from /\ Written(t, r) # {}
         THEN \E w \in Written(t, r) : arrear'[r][x][f] = w.amount
         ELSE arrear'[r][x][f] = arrear[r][x][f]
  BY CommitRows
<1>3. \/ demand'[s][y] = demand[s][y]
      \/ y = task[t].to /\ \E w \in Written(t, s) : demand'[s][y] = CarriedRow(demand[s][y], w)
  BY <1>1
<1>4. ASSUME NEW f \in Years, ~(y = task[t].to /\ f = task[t].from)
      PROVE  arrear'[s][y][f] = arrear[s][y][f]
  BY <1>2, <1>4
<1> QED
  BY <1>3, <1>4

LEMMA CloseCommitKeeps ==
    ASSUME IInv, NEW t \in Tasks, CloseCommit(t)
    PROVE  IInv'
<1> DEFINE q == task[t]
           idle == [op |-> "idle"]
<1>1. /\ q \in Task /\ q.op = "closing" /\ TaskOK(q)
      /\ ~run[q.from][q.to] /\ run' = [run EXCEPT ![q.from][q.to] = TRUE]
      /\ Done(t) /\ UNCHANGED <<succ, publishes>>
      /\ demand' \in [Surveys -> [Years -> DemandRow]]
      /\ arrear' \in [Surveys -> [Years -> [Years -> Nat]]]
  BY CommitRows
<1>11. ASSUME NEW s \in Surveys, NEW y \in Years, ~(y = q.to /\ Written(t, s) # {})
      PROVE  demand'[s][y] = demand[s][y]
  BY <1>11, CommitSpares
<1>12. ASSUME NEW s \in Surveys, NEW y \in Years, NEW f \in Years, ~(y = q.to /\ f = q.from)
      PROVE  arrear'[s][y][f] = arrear[s][y][f]
  BY <1>12, CommitSpares
<1>2. q.from \in Years /\ q.to \in Years /\ q.writes \in SUBSET Carry
  BY <1>1 DEF Task
<1>3. /\ task' \in [Tasks -> Task]
      /\ \A u \in Tasks : task'[u] = IF u = t THEN idle ELSE task[u]
  <2>1. idle \in Task
    BY DEF Task
  <2> QED
    BY <1>1, <2>1 DEF Done, Become, IInv, TypeOK
<1>4. TypeOK'
  <2>1. run' \in [Years -> [Years -> BOOLEAN]]
    BY <1>1, <1>2 DEF IInv, TypeOK
  <2> QED
    BY <1>1, <1>3, <2>1 DEF IInv, TypeOK
<1>5. ASSUME NEW s \in Surveys, NEW y \in Years, NEW f \in Years, arrear[s][y][f] > 0
      PROVE  arrear'[s][y][f] = arrear[s][y][f]
  <2>1. ~(y = q.to /\ f = q.from)
    BY <1>1, <1>5 DEF IInv, ArrearsByCommittedRun
  <2> QED
    BY <1>12, <2>1
<1>6. ASSUME NEW u \in Tasks, u # t, InClosing(u), NEW v \in task[u].writes
      PROVE  demand'[v.s][task[u].to] = demand[v.s][task[u].to]
  <2>1. task[u] \in Task /\ task[u].op \in {"closing", "carrying"}
    BY <1>6 DEF IInv, TypeOK, InClosing
  <2>2. v.s \in Surveys /\ task[u].to \in Years
    BY <2>1 DEF Task, Carry
  <2>3. task[u].to = q.to => Written(t, v.s) = {}
    BY <1>1, <1>6 DEF IInv, Exclusive, InClosing, Written
  <2> QED
    BY <1>11, <2>2, <2>3
<1>7. ASSUME NEW u \in Tasks
      PROVE  TaskOK(task[u])'
  <2>1. CASE u = t
    BY <1>3, <2>1 DEF TaskOK, ClosingOps
  <2>2. CASE u # t
    <3> DEFINE p == task[u]
    <3>1. task'[u] = p /\ p \in Task /\ TaskOK(p)
      BY <1>3, <2>2 DEF IInv, TypeOK, TasksOK
    <3>2. CASE p.op \in ClosingOps
      <4>1. p.to \in Years /\ p.from \in Years
        BY <3>1, <3>2 DEF Task, ClosingOps
      <4>2. \A w \in p.writes : w.fresh => demand'[w.s][p.to].status = "ABSENT"
        BY <1>6, <2>2, <3>1, <3>2 DEF TaskOK, ClosingOps, InClosing
      <4>3. \A s \in Surveys : arrear[s][p.to][p.from] > 0 => arrear'[s][p.to][p.from] > 0
        BY <1>5, <4>1
      <4>4. p.op = "carrying" => \A f \in Years : p.sawArrears[f] > 0 => arrear'[p.s][p.to][f] > 0
        <5>1. p.op = "carrying" => p.s \in Surveys
          BY <3>1 DEF Task
        <5> QED
          BY <1>5, <3>1, <4>1, <5>1 DEF TaskOK
      <4> HIDE DEF p
      <4> QED
        BY <3>1, <3>2, <4>2, <4>3, <4>4 DEF TaskOK
    <3>3. CASE p.op \notin ClosingOps
      BY <3>1, <3>3 DEF TaskOK, ClosingOps
    <3> QED
      BY <3>2, <3>3
  <2> QED
    BY <2>1, <2>2
<1>8. TasksOK'
  BY <1>7 DEF TasksOK
<1>9. Exclusive'
  BY <1>3 DEF IInv, Exclusive, InClosing
<1>10. ArrearsByCommittedRun'
  <2> SUFFICES ASSUME NEW s \in Surveys, NEW y \in Years, NEW f \in Years, arrear'[s][y][f] > 0
               PROVE  run'[f][y]
    BY DEF ArrearsByCommittedRun
  <2>1. CASE y = q.to /\ f = q.from
    BY <1>1, <1>2, <2>1 DEF IInv, TypeOK
  <2>2. CASE ~(y = q.to /\ f = q.from)
    <3>1. run[f][y]
      BY <1>12, <2>2 DEF IInv, ArrearsByCommittedRun
    <3> QED
      BY <1>1, <1>2, <3>1 DEF IInv, TypeOK
  <2> QED
    BY <2>1, <2>2
<1> QED
  BY <1>4, <1>8, <1>9, <1>10 DEF IInv

-----------------------------------------------------------------------------
(* The theorems *)

LEMMA NextKeeps == IInv /\ [Next]_vars => IInv'
<1> SUFFICES ASSUME IInv, [Next]_vars
             PROVE  IInv'
  OBVIOUS
<1>1. ASSUME NEW t \in Tasks, Publishing(t)
      PROVE  IInv'
  BY <1>1, PublishOneKeeps, PublishWardKeeps, PublishReadKeeps, PublishWriteKeeps,
     PublishFailedKeeps DEF Publishing
<1>2. ASSUME NEW t \in Tasks, Closing(t)
      PROVE  IInv'
  BY <1>2, CloseStartKeeps, CarryReadKeeps, CarrySkipKeeps, CarryWriteKeeps, CloseCommitKeeps,
     CloseAbortedKeeps DEF Closing
<1>3. ASSUME NEW s \in Surveys, NEW y \in Years, NEW a \in PayAmounts, Pay(s, y, a)
      PROVE  IInv'
  BY <1>3, PayKeeps
<1>4. CASE UNCHANGED vars
  BY <1>4 DEF vars, dbVars, IInv, TypeOK, TasksOK, TaskOK, Exclusive, InClosing,
              ArrearsByCommittedRun
<1> QED
  BY <1>1, <1>2, <1>3, <1>4 DEF Next

(* Whatever publishes, payments and closings run at the same time, the     *)
(* invariant holds (demands.service.ts).                                   *)
THEOREM Invariance == Spec => []IInv
<1>1. Init => IInv
  BY InitIInv
<1>2. IInv /\ [Next]_vars => IInv'
  BY NextKeeps
<1> QED
  BY <1>1, <1>2, PTL DEF Spec

(* Rows and tasks are well typed; the arrears of all years add up to a     *)
(* natural number.                                                         *)
THEOREM TypeCorrect == Spec => []TypeOK
<1>1. IInv => TypeOK
  BY DEF IInv
<1> QED
  BY <1>1, Invariance, PTL

(* No arrears row without a committed closing of its years (commitYearEnd  *)
(* writes rows and run in one transaction).                                *)
THEOREM ArrearsCommitted == Spec => []ArrearsByCommittedRun
<1>1. IInv => ArrearsByCommittedRun
  BY DEF IInv
<1> QED
  BY <1>1, Invariance, PTL

-----------------------------------------------------------------------------
(* What a step may never do *)

(* A closing that is committed stays committed, and what it carried is     *)
(* never changed or carried again: "commit once per year pair".            *)
THEOREM CarriesOnce == Spec => CarriedOnce
<1>1. ASSUME IInv, [Next]_vars, NEW s \in Surveys, NEW f \in Years, NEW y \in Years, run[f][y]
      PROVE  run'[f][y] /\ arrear'[s][y][f] = arrear[s][y][f]
  <2>1. ASSUME NEW t \in Tasks, CloseCommit(t)
        PROVE  run'[f][y] /\ arrear'[s][y][f] = arrear[s][y][f]
    <3> DEFINE q == task[t]
    <3>1. /\ q \in Task /\ q.op = "closing" /\ ~run[q.from][q.to]
          /\ run' = [run EXCEPT ![q.from][q.to] = TRUE]
      BY <1>1, <2>1, CommitRows
    <3>2. ~(y = q.to /\ f = q.from)
      BY <1>1, <3>1
    <3>3. arrear'[s][y][f] = arrear[s][y][f]
      BY <1>1, <2>1, <3>2, CommitSpares
    <3>4. q.from \in Years /\ q.to \in Years
      BY <3>1 DEF Task
    <3>5. run'[f][y]
      BY <1>1, <3>1, <3>4 DEF IInv, TypeOK
    <3> QED
      BY <3>3, <3>5
  <2>2. ASSUME NEW t \in Tasks, Publishing(t)
        PROVE  UNCHANGED <<run, arrear>>
    BY <2>2 DEF Publishing, PublishOne, PublishWard, PublishRead, PublishWrite, PublishFailed, dbVars
  <2>3. ASSUME NEW t \in Tasks, Closing(t), ~CloseCommit(t)
        PROVE  UNCHANGED <<run, arrear>>
    BY <2>3 DEF Closing, CloseStart, CarryRead, CarrySkip, CarryWrite, CloseAborted, dbVars
  <2>4. ASSUME NEW r \in Surveys, NEW x \in Years, NEW a \in PayAmounts, Pay(r, x, a)
        PROVE  UNCHANGED <<run, arrear>>
    BY <2>4 DEF Pay
  <2>5. CASE UNCHANGED vars
    BY <1>1, <2>5 DEF vars, dbVars
  <2> QED
    BY <1>1, <2>1, <2>2, <2>3, <2>4, <2>5 DEF Next
<1>2. IInv /\ [Next]_vars =>
         [\A s \in Surveys : \A f, y \in Years :
             run[f][y] => run'[f][y] /\ arrear'[s][y][f] = arrear[s][y][f]]_vars
  BY <1>1
<1> QED
  BY <1>2, Invariance, PTL DEF Spec, CarriedOnce

(* A task of which the step makes an idle one, or that stays as it is:     *)
(* steps of other tasks.                                                   *)
LEMMA OthersStay ==
    ASSUME TypeOK, NEW t \in Tasks, NEW u \in Tasks, NEW q, Become(u, q), u # t
    PROVE  task'[t] = task[t]
BY DEF TypeOK, Become

(* The closing that commits has carried every survey its preview named,    *)
(* whatever was published, paid or carried meanwhile.                      *)
THEOREM PreviewCarried == Spec => PreviewIsCarried
<1>1. ASSUME IInv, [Next]_vars, NEW t \in Tasks, task[t].op = "closing",
             ~run[task[t].from][task[t].to], run'[task[t].from][task[t].to], Idle(t)',
             NEW s \in Surveys, task[t].proposed[s] > 0
      PROVE  arrear'[s][task[t].to][task[t].from] > 0
  <2> DEFINE q == task[t]
  <2>1. q \in Task /\ TaskOK(q)
    BY <1>1 DEF IInv, TypeOK, TasksOK
  <2>2. q.from \in Years /\ q.to \in Years /\ q.writes \in SUBSET Carry
    BY <1>1, <2>1 DEF Task
  <2>3. run' # run
    BY <1>1
  <2>4. PICK u \in Tasks : CloseCommit(u)
    <3>1. ASSUME NEW u \in Tasks, Publishing(u)
          PROVE  run' = run
      BY <3>1 DEF Publishing, PublishOne, PublishWard, PublishRead, PublishWrite, PublishFailed,
                  dbVars
    <3>2. ASSUME NEW u \in Tasks, Closing(u), ~CloseCommit(u)
          PROVE  run' = run
      BY <3>2 DEF Closing, CloseStart, CarryRead, CarrySkip, CarryWrite, CloseAborted, dbVars
    <3>3. ASSUME NEW r \in Surveys, NEW x \in Years, NEW a \in PayAmounts, Pay(r, x, a)
          PROVE  run' = run
      BY <3>3 DEF Pay
    <3>4. CASE UNCHANGED vars
      BY <2>3, <3>4 DEF vars, dbVars
    <3> QED
      BY <1>1, <2>3, <3>1, <3>2, <3>3, <3>4 DEF Next
  <2>5. u = t
    <3> SUFFICES ASSUME u # t PROVE FALSE
      OBVIOUS
    <3>1. task'[t] = task[t]
      BY <1>1, <2>4, OthersStay DEF CloseCommit, Done, IInv
    <3> QED
      BY <1>1, <3>1 DEF Idle
  <2>6. CloseCommit(t) /\ q.todo = {}
    BY <2>4, <2>5 DEF CloseCommit
  <2>7. arrear[s][q.to][q.from] = 0
    BY <1>1, <2>2 DEF IInv, TypeOK, ArrearsByCommittedRun
  <2>8. Written(t, s) # {}
    BY <1>1, <2>1, <2>6, <2>7 DEF TaskOK, ClosingOps, Written
  <2>9. PICK w \in Written(t, s) : arrear'[s][q.to][q.from] = w.amount
    BY <1>1, <2>2, <2>6, <2>8, CommitRows
  <2>10. w.amount > 0
    BY <1>1, <2>1, <2>9 DEF TaskOK, ClosingOps, Written
  <2> QED
    BY <2>9, <2>10
<1>2. IInv /\ [Next]_vars =>
         [\A t \in Tasks :
            LET q == task[t]
            IN  q.op = "closing" /\ ~run[q.from][q.to] /\ run'[q.from][q.to] /\ Idle(t)'
                => \A s \in Surveys : q.proposed[s] > 0 => arrear'[s][q.to][q.from] > 0]_vars
  BY <1>1
<1> QED
  BY <1>2, Invariance, PTL DEF Spec, PreviewIsCarried

(* A published demand stays published: neither a closing that saw no       *)
(* target nor a publish that saw no row overwrites it.                     *)
THEOREM StaysPublished == Spec => PublishedStays
<1>1. ASSUME IInv, [Next]_vars, NEW s \in Surveys, NEW y \in Years,
             demand[s][y].status = "PUBLISHED"
      PROVE  demand'[s][y].status = "PUBLISHED"
  <2>1. ASSUME NEW t \in Tasks, CloseCommit(t)
        PROVE  demand'[s][y].status = "PUBLISHED"
    <3> DEFINE q == task[t]
    <3>1. q \in Task /\ q.op = "closing" /\ TaskOK(q)
      BY <1>1, <2>1, CommitRows
    <3>2. CASE demand'[s][y] = demand[s][y]
      BY <1>1, <3>2
    <3>3. ASSUME NEW w \in Written(t, s), y = q.to, demand'[s][y] = CarriedRow(demand[s][y], w)
          PROVE  demand'[s][y].status = "PUBLISHED"
      <4>1. w \in q.writes /\ w.s = s /\ w \in Carry
        BY <3>1 DEF Task, Written
      <4>2. ~w.fresh
        BY <1>1, <3>1, <3>3, <4>1 DEF TaskOK, ClosingOps
      <4>3. demand[s][y] \in DemandRow
        BY <1>1 DEF IInv, TypeOK
      <4> QED
        BY <1>1, <3>3, <4>1, <4>2, <4>3, CarriedRowRow
    <3> QED
      BY <1>1, <2>1, <3>2, <3>3, CommitRows
  <2>2. ASSUME NEW t \in Tasks, PublishWrite(t)
        PROVE  demand'[s][y].status = "PUBLISHED"
    <3> DEFINE q == task[t]
    <3>1. q \in Task /\ q.op = "publishing" /\ q.row.status = "PUBLISHED"
      BY <1>1, <2>2 DEF PublishWrite, IInv, TypeOK, TasksOK, TaskOK
    <3>2. q.s \in Surveys /\ q.year \in Years
      BY <3>1 DEF Task
    <3>3. demand' = [demand EXCEPT ![q.s][q.year] = q.row]
      BY <2>2 DEF PublishWrite
    <3> HIDE DEF q
    <3> QED
      BY <1>1, <3>1, <3>2, <3>3 DEF IInv, TypeOK
  <2>3. ASSUME NEW r \in Surveys, NEW x \in Years, NEW a \in PayAmounts, Pay(r, x, a)
        PROVE  demand'[s][y].status = "PUBLISHED"
    BY <1>1, <2>3, PayRows DEF IInv
  <2>4. ASSUME NEW t \in Tasks, Publishing(t), ~PublishWrite(t)
        PROVE  demand' = demand
    BY <2>4 DEF Publishing, PublishOne, PublishWard, PublishRead, PublishFailed, dbVars
  <2>5. ASSUME NEW t \in Tasks, Closing(t), ~CloseCommit(t)
        PROVE  demand' = demand
    BY <2>5 DEF Closing, CloseStart, CarryRead, CarrySkip, CarryWrite, CloseAborted, dbVars
  <2>6. CASE UNCHANGED vars
    BY <1>1, <2>6 DEF vars, dbVars
  <2> QED
    BY <1>1, <2>1, <2>2, <2>3, <2>4, <2>5, <2>6 DEF Next
<1>2. IInv /\ [Next]_vars =>
         [\A s \in Surveys, y \in Years :
            demand[s][y].status = "PUBLISHED" => demand'[s][y].status = "PUBLISHED"]_vars
  BY <1>1
<1> QED
  BY <1>2, Invariance, PTL DEF Spec, PublishedStays

-----------------------------------------------------------------------------
(* Publishes, payments and closings that do not overlap                    *)
(*                                                                         *)
(* Two runs show arrears lost and a balance not carried, and nothing keeps *)
(* a demand's sums right, when a row moves between a read and the write    *)
(* that goes by it.  The theorems below show that nothing else leads there.*)

(* What a step may do to the demand of s for year y: a publish writes it,  *)
(* a payment is added to it, or a closing that commits carries into it.    *)
PublishedRow(t, s, y) ==
    /\ PublishWrite(t) /\ task[t].s = s /\ task[t].year = y
    /\ demand'[s][y] = task[t].row

PaidRow(s, y, a) ==
    /\ Pay(s, y, a) /\ demand[s][y].status = "PUBLISHED"
    /\ demand'[s][y] = [demand[s][y] EXCEPT
                          !.paid = demand[s][y].paid + a,
                          !.outstanding = Outstanding(demand[s][y].total, demand[s][y].paid + a)]

CarriedInto(t, s, y) ==
    /\ CloseCommit(t) /\ task[t].to = y
    /\ \E w \in Written(t, s) : demand'[s][y] = CarriedRow(demand[s][y], w)

RowMoved(s, y) ==
    \/ demand'[s][y] = demand[s][y]
    \/ \E t \in Tasks : PublishedRow(t, s, y) \/ CarriedInto(t, s, y)
    \/ \E a \in PayAmounts : PaidRow(s, y, a)

LEMMA RowMoves ==
    ASSUME IInv, [Next]_vars, NEW s \in Surveys, NEW y \in Years
    PROVE  RowMoved(s, y)
<1>1. ASSUME NEW t \in Tasks, CloseCommit(t)
      PROVE  RowMoved(s, y)
  <2>1. \A r \in Surveys, x \in Years :
           \/ demand'[r][x] = demand[r][x]
           \/ /\ x = task[t].to
              /\ \E w \in Written(t, r) : demand'[r][x] = CarriedRow(demand[r][x], w)
    BY <1>1, CommitRows
  <2>2. \/ demand'[s][y] = demand[s][y]
        \/ /\ y = task[t].to
           /\ \E w \in Written(t, s) : demand'[s][y] = CarriedRow(demand[s][y], w)
    BY <2>1
  <2> QED
    BY <1>1, <2>2 DEF RowMoved, CarriedInto
<1>2. ASSUME NEW t \in Tasks, PublishWrite(t)
      PROVE  RowMoved(s, y)
  <2> DEFINE q == task[t]
  <2>1. q \in Task /\ q.op = "publishing" /\ demand' = [demand EXCEPT ![q.s][q.year] = q.row]
    BY <1>2 DEF PublishWrite, IInv, TypeOK
  <2>2. q.s \in Surveys /\ q.year \in Years
    BY <2>1 DEF Task
  <2>3. CASE q.s = s /\ q.year = y
    <3>1. demand'[s][y] = q.row
      BY <2>1, <2>2, <2>3 DEF IInv, TypeOK
    <3> QED
      BY <1>2, <2>3, <3>1 DEF RowMoved, PublishedRow
  <2>4. CASE ~(q.s = s /\ q.year = y)
    <3> HIDE DEF q
    <3>1. demand'[s][y] = demand[s][y]
      BY <2>1, <2>2, <2>4 DEF IInv, TypeOK
    <3> QED
      BY <3>1 DEF RowMoved
  <2> QED
    BY <2>3, <2>4
<1>3. ASSUME NEW r \in Surveys, NEW x \in Years, NEW a \in PayAmounts, Pay(r, x, a)
      PROVE  RowMoved(s, y)
  <2> DEFINE row == demand[r][x]
             new == [row EXCEPT !.paid = row.paid + a,
                                !.outstanding = Outstanding(row.total, row.paid + a)]
  <2>1. row \in DemandRow
    BY DEF IInv, TypeOK
  <2>2. CASE row.status = "PUBLISHED"
    <3>1. demand' = [demand EXCEPT ![r][x] = new]
      BY <1>3, <2>2 DEF Pay, IInv, TypeOK, DemandRow
    <3>2. r = s /\ x = y => demand'[s][y] = new
      BY <3>1 DEF IInv, TypeOK
    <3>3. ~(r = s /\ x = y) => demand'[s][y] = demand[s][y]
      BY <3>1 DEF IInv, TypeOK
    <3> QED
      BY <1>3, <2>2, <3>2, <3>3 DEF RowMoved, PaidRow
  <2>3. CASE row.status # "PUBLISHED"
    BY <1>3, <2>3 DEF Pay, RowMoved
  <2> QED
    BY <2>2, <2>3
<1>4. ASSUME NEW t \in Tasks, Publishing(t), ~PublishWrite(t)
      PROVE  demand' = demand
  BY <1>4 DEF Publishing, PublishOne, PublishWard, PublishRead, PublishFailed, dbVars
<1>5. ASSUME NEW t \in Tasks, Closing(t), ~CloseCommit(t)
      PROVE  demand' = demand
  BY <1>5 DEF Closing, CloseStart, CarryRead, CarrySkip, CarryWrite, CloseAborted, dbVars
<1>6. CASE UNCHANGED vars
  BY <1>6 DEF vars, dbVars, RowMoved
<1>7. demand' = demand => RowMoved(s, y)
  BY DEF RowMoved
<1> QED
  BY <1>1, <1>2, <1>3, <1>4, <1>5, <1>6, <1>7 DEF Next

(* The task that a step moves is the one whose action it is. *)
LEMMA TaskMoves ==
    ASSUME IInv, [Next]_vars, NEW t \in Tasks, task'[t] # task[t]
    PROVE  Publishing(t) \/ Closing(t)
<1>1. PICK u \in Tasks : Publishing(u) \/ Closing(u)
  BY DEF Next, Pay, vars
<1>2. Publishing(u) => \E q : Become(u, q)
  BY DEF Publishing, PublishOne, PublishWard, PublishRead, PublishWrite, PublishFailed, Done
<1>3. Closing(u) => \E q : Become(u, q)
  BY DEF Closing, CloseStart, CarryRead, CarrySkip, CarryWrite, NextRow, CloseCommit,
         CloseAborted, Done
<1>4. PICK q : Become(u, q)
  BY <1>1, <1>2, <1>3
<1>5. u = t
  BY <1>4 DEF Become, IInv, TypeOK
<1> QED
  BY <1>1, <1>5

(* A task that has just read a demand's row, and a step that changes none. *)
LEMMA JustRead ==
    ASSUME IInv, [Next]_vars, NEW t \in Tasks, task'[t].op = "publishing", task'[t] # task[t]
    PROVE  \E s \in Surveys, c \in Currents : PublishRead(t, s, c)
<1>1. \A q : Become(t, q) => task'[t] = q
  BY DEF IInv, TypeOK, Become
<1>2. Publishing(t) \/ Closing(t)
  BY TaskMoves
<1>3. Done(t) => FALSE
  BY <1>1 DEF Done
<1>4. \A W : NextRow(t, W) => FALSE
  BY <1>1 DEF NextRow
<1>5. ~CarrySkip(t) /\ ~CarryWrite(t) /\ ~CloseCommit(t) /\ ~CloseAborted(t) /\ ~PublishFailed(t)
  BY <1>3, <1>4 DEF CarrySkip, CarryWrite, CloseCommit, CloseAborted, PublishFailed
<1>6. ASSUME NEW from \in Years, NEW to \in Years, CloseStart(t, from, to) PROVE FALSE
  <2>1. \E q : Become(t, q) /\ q.op = "closing"
    BY <1>6 DEF CloseStart
  <2> QED
    BY <1>1, <2>1
<1>7. ASSUME NEW s \in Surveys, CarryRead(t, s) PROVE FALSE
  <2>1. \E q : Become(t, q) /\ q.op = "carrying"
    BY <1>7 DEF CarryRead
  <2> QED
    BY <1>1, <2>1
<1>8. ASSUME NEW s \in Surveys, NEW y \in Years, PublishOne(t, s, y) PROVE FALSE
  <2>1. \E q : Become(t, q) /\ q.op = "publish"
    BY <1>8 DEF PublishOne
  <2> QED
    BY <1>1, <2>1
<1>9. ASSUME NEW y \in Years, PublishWard(t, y) PROVE FALSE
  <2>1. \E q : Become(t, q) /\ q.op = "publish"
    BY <1>9 DEF PublishWard
  <2> QED
    BY <1>1, <2>1
<1>10. ~PublishWrite(t)
  BY <1>1, <1>3 DEF PublishWrite
<1> QED
  BY <1>2, <1>5, <1>6, <1>7, <1>8, <1>9, <1>10 DEF Publishing, Closing

-----------------------------------------------------------------------------
(* While a ward publish has a survey's row in hand, nothing else is about  *)
(* to write that row and no closing of its year is under way.              *)
WardAlone ==
    \A t, u \in Tasks :
        t # u /\ task[t].op = "publishing" /\ task[t].keep =>
            /\ ~(/\ task[u].op = "publishing"
                 /\ task[u].s = task[t].s /\ task[u].year = task[t].year)
            /\ ~(InClosing(u) /\ task[u].to = task[t].year)

(* What it is about to write has the arrears that are there. *)
WardKnows(q) ==
    q.op = "publishing" /\ q.keep => q.row.arrears = demand[q.s][q.year].arrears

WardInv == \A t \in Tasks : WardKnows(task[t])

(* The fields of a publish that has read its row. *)
LEMMA Fields ==
    ASSUME NEW y, NEW k, NEW d, NEW s, NEW e, NEW r,
           NEW z, z = [op |-> "publishing", year |-> y, keep |-> k, todo |-> d, s |-> s,
                       existed |-> e, row |-> r]
    PROVE  z.year = y /\ z.keep = k /\ z.s = s /\ z.row = r
OBVIOUS

LEMMA NextWardInv == IInv /\ WardAlone /\ WardInv /\ [Next]_vars => WardInv'
<1> SUFFICES ASSUME IInv, WardAlone, WardInv, [Next]_vars,
                    NEW t \in Tasks, task'[t].op = "publishing", task'[t].keep
             PROVE  task'[t].row.arrears = demand'[task'[t].s][task'[t].year].arrears
  BY DEF WardInv, WardKnows
<1>1. CASE task'[t] # task[t]
  <2>1. PICK s \in Surveys, c \in Currents : PublishRead(t, s, c)
    BY <1>1, JustRead
  <2> DEFINE q == task[t]
             ex  == demand[s][q.year].status # "ABSENT"
             row == Assessed(c, IF q.keep THEN demand[s][q.year].arrears ELSE 0, succ[s][q.year])
  <2>2. task'[t] = [op |-> "publishing", year |-> q.year, keep |-> q.keep,
                    todo |-> q.todo \ {s}, s |-> s,
                    existed |-> ex, row |-> row]
    BY <2>1 DEF PublishRead, Become, IInv, TypeOK
  <2> HIDE DEF row
  <2>3. demand' = demand
    BY <2>1 DEF PublishRead, dbVars
  <2>4. /\ task'[t].s = s /\ task'[t].year = q.year /\ task'[t].keep = q.keep
        /\ task'[t].row = row
    <3> HIDE DEF q, ex
    <3> DEFINE k == q.keep
               d == q.todo \ {s}
               n == q.year
               z == task'[t]
    <3>1. z = [op |-> "publishing", year |-> n, keep |-> k, todo |-> d, s |-> s,
               existed |-> ex, row |-> row]
      BY <2>2
    <3> HIDE DEF k, d, n, z
    <3>2. z.year = n /\ z.keep = k /\ z.s = s /\ z.row = row
      BY <3>1, Fields
    <3> QED
      BY <3>2 DEF k, n, z
  <2>5. row.arrears = IF q.keep THEN demand[s][q.year].arrears ELSE 0
    BY DEF Assessed, row
  <2> HIDE DEF q
  <2> QED
    BY <2>3, <2>4, <2>5
<1>2. CASE task'[t] = task[t]
  <2>1. task[t] \in Task /\ task[t].op = "publishing" /\ WardKnows(task[t])
    BY <1>2 DEF IInv, TypeOK, WardInv
  <2>2. PICK s \in Surveys, y \in Years : s = task[t].s /\ y = task[t].year
    BY <2>1 DEF Task
  <2>3. ASSUME NEW u \in Tasks, PublishedRow(u, s, y) PROVE FALSE
    <3>1. task[u].op = "publishing" /\ task[u].s = s /\ task[u].year = y
      BY <2>3 DEF PublishedRow, PublishWrite
    <3>2. u = t
      BY <1>2, <2>1, <2>2, <3>1 DEF WardAlone
    <3>3. \E q : Become(t, q) /\ q.op # "publishing"
      BY <2>3, <3>2 DEF PublishedRow, PublishWrite, Done
    <3>4. task'[t].op # "publishing"
      BY <3>3 DEF Become, IInv, TypeOK
    <3> QED
      BY <3>4
  <2>4. ASSUME NEW u \in Tasks, CarriedInto(u, s, y) PROVE FALSE
    <3>1. InClosing(u) /\ task[u].to = y
      BY <2>4 DEF CarriedInto, CloseCommit, InClosing
    <3>2. u # t
      BY <2>1, <3>1 DEF InClosing
    <3> QED
      BY <1>2, <2>1, <2>2, <3>1, <3>2 DEF WardAlone
  <2>5. demand'[s][y].arrears = demand[s][y].arrears
    <3>1. \A a \in PayAmounts : PaidRow(s, y, a) => demand'[s][y].arrears = demand[s][y].arrears
      BY DEF PaidRow, IInv, TypeOK, DemandRow
    <3> QED
      BY <2>3, <2>4, <3>1, RowMoves DEF RowMoved
  <2> QED
    BY <1>2, <2>1, <2>2, <2>5 DEF WardKnows
<1> QED
  BY <1>1, <1>2

LEMMA WardStep ==
    ASSUME IInv, WardInv, [Next]_vars, NEW t \in Tasks,
           task[t].op = "publishing", task'[t] # task[t], task[t].keep
    PROVE  demand'[task[t].s][task[t].year].arrears >= demand[task[t].s][task[t].year].arrears
<1>1. task[t] \in Task /\ WardKnows(task[t])
  BY DEF IInv, TypeOK, WardInv
<1>2. PICK s \in Surveys, y \in Years : s = task[t].s /\ y = task[t].year
  BY <1>1 DEF Task
<1>3. demand[s][y].arrears \in Nat
  BY DEF IInv, TypeOK, DemandRow
<1>4. Publishing(t) \/ Closing(t)
  BY TaskMoves
<1>5. ~Idle(t) /\ ~Closing(t)
  <2>1. ~(\E from, to \in Years : CloseStart(t, from, to)) /\ ~(\E r \in Surveys : CarryRead(t, r))
    BY DEF CloseStart, CarryRead, Idle
  <2>2. ~CarrySkip(t) /\ ~CarryWrite(t)
    BY DEF CarrySkip, CarryWrite
  <2>3. ~CloseCommit(t) /\ ~CloseAborted(t)
    BY DEF CloseCommit, CloseAborted, InClosing
  <2>4. ~Idle(t)
    BY DEF Idle
  <2> QED
    BY <2>1, <2>2, <2>3, <2>4 DEF Closing
<1>6. ~(\E r \in Surveys, x \in Years : PublishOne(t, r, x)) /\ ~(\E x \in Years : PublishWard(t, x))
  BY <1>5 DEF PublishOne, PublishWard
<1>7. PublishWrite(t) \/ PublishFailed(t)
  <2>1. ~(\E r \in Surveys, c \in Currents : PublishRead(t, r, c))
    BY DEF PublishRead
  <2> QED
    BY <1>4, <1>5, <1>6, <2>1 DEF Publishing
<1>8. demand'[s][y].arrears = demand[s][y].arrears
  <2>1. CASE PublishFailed(t)
    BY <2>1 DEF PublishFailed, dbVars
  <2>2. CASE PublishWrite(t)
    <3>1. demand'[s][y] = task[t].row
      BY <1>2, <2>2 DEF PublishWrite, IInv, TypeOK
    <3> QED
      BY <1>1, <1>2, <3>1 DEF WardKnows
  <2> QED
    BY <1>7, <2>1, <2>2
<1> QED
  BY <1>2, <1>3, <1>8

(* A ward publish keeps the arrears of a demand as long as no other publish*)
(* of that demand and no closing into its year is under way between its    *)
(* read of the row and its write: the doc comment of publishForWard holds  *)
(* but for that overlap.                                                   *)
THEOREM ArrearsKeptUnlessOverlapping == Spec /\ []WardAlone => WardKeepsArrears
<1>1. Init => WardInv
  BY DEF Init, WardInv, WardKnows
<1>2. IInv /\ WardAlone /\ WardInv /\ [Next]_vars => WardInv'
  BY NextWardInv
<1>3. IInv /\ WardInv /\ [Next]_vars
        => [\A t \in Tasks :
              LET q == task[t]
              IN  q.op = "publishing" /\ task'[t] # q /\ q.keep
                  => demand'[q.s][q.year].arrears >= demand[q.s][q.year].arrears]_vars
  BY WardStep
<1> QED
  BY <1>1, <1>2, <1>3, Invariance, PTL DEF Spec, WardKeepsArrears

-----------------------------------------------------------------------------
(* A preview has room for every survey. *)
PreviewFits == IsFiniteSet(Surveys) /\ Cardinality(Surveys) <= PreviewLimit

(* No demand of a year moves while a closing of that year is under way. *)
YearLeftAlone ==
    \A t \in Tasks : InClosing(t) =>
        \A s \in Surveys : demand'[s][task[t].from] = demand[s][task[t].from]

(* What a closing is carrying is what is unpaid. *)
ClosesWith(q) ==
    q.op \in ClosingOps => \A s \in Surveys : q.proposed[s] = Unpaid(s, q.from)

CloseInv == \A t \in Tasks : ClosesWith(task[t])

LEMMA LeastOfTwo ==
    ASSUME NEW a \in Int, NEW b \in Int, b <= a
    PROVE  Min({a, b}) = b
<1>1. \A x \in {a, b} : (\A y \in {a, b} : x <= y) <=> x = b
  OBVIOUS
<1>2. Min({a, b}) = CHOOSE x \in {a, b} : x = b
  BY <1>1, Zenon DEF Min
<1> QED
  BY <1>2

(* A preview with room for all is the set of surveys that owe something. *)
LEMMA AllPreviewed ==
    ASSUME PreviewFits, NEW y \in Years, NEW P \in SUBSET Surveys, Previewed(y, P),
           NEW s \in Surveys, Unpaid(s, y) > 0
    PROVE  s \in P
<1> DEFINE unpaid == {r \in Surveys : Unpaid(r, y) > 0}
<1>1. P \subseteq unpaid /\ Cardinality(P) = Min({PreviewLimit, Cardinality(unpaid)})
  BY DEF Previewed
<1>2. unpaid \in SUBSET Surveys /\ s \in unpaid
  OBVIOUS
<1> HIDE DEF unpaid
<1>3. IsFiniteSet(unpaid) /\ Cardinality(unpaid) <= Cardinality(Surveys)
  BY <1>2, FS_Subset DEF PreviewFits
<1>4. Cardinality(unpaid) \in Nat /\ Cardinality(Surveys) \in Nat /\ PreviewLimit \in Nat
  BY <1>3, FS_CardinalityType, ClosingAssumption DEF PreviewFits
<1>5. Cardinality(unpaid) <= PreviewLimit
  BY <1>3, <1>4 DEF PreviewFits
<1>6. Cardinality(P) = Cardinality(unpaid)
  BY <1>1, <1>4, <1>5, LeastOfTwo
<1>7. P = unpaid
  BY <1>1, <1>3, <1>6, FS_Subset
<1> QED
  BY <1>2, <1>7

(* A closing under way after a step started by it, or goes on with its list. *)
LEMMA ClosingMoves ==
    ASSUME IInv, [Next]_vars, NEW t \in Tasks, task'[t].op \in ClosingOps
    PROVE  \/ /\ InClosing(t) /\ task'[t].from = task[t].from
              /\ task'[t].proposed = task[t].proposed
           \/ \E from, to \in Years : CloseStart(t, from, to)
<1>1. CASE task'[t] = task[t]
  BY <1>1 DEF InClosing, ClosingOps
<1>2. CASE task'[t] # task[t]
  <2>1. Publishing(t) \/ Closing(t)
    BY <1>2, TaskMoves
  <2>2. \A q : Become(t, q) => task'[t] = q
    BY DEF IInv, TypeOK, Become
  <2>3. ASSUME NEW q, Become(t, q), q.op \notin ClosingOps PROVE FALSE
    BY <2>2, <2>3
  <2>4. ~Done(t)
    <3>1. Done(t) => \E q : Become(t, q) /\ q.op \notin ClosingOps
      BY DEF Done, ClosingOps
    <3> QED
      BY <2>3, <3>1
  <2>5. ASSUME NEW s \in Surveys, NEW y \in Years, PublishOne(t, s, y) PROVE FALSE
    <3>1. \E q : Become(t, q) /\ q.op \notin ClosingOps
      BY <2>5 DEF PublishOne, ClosingOps
    <3> QED
      BY <2>3, <3>1
  <2>6. ASSUME NEW y \in Years, PublishWard(t, y) PROVE FALSE
    <3>1. \E q : Become(t, q) /\ q.op \notin ClosingOps
      BY <2>6 DEF PublishWard, ClosingOps
    <3> QED
      BY <2>3, <3>1
  <2>7. ASSUME NEW s \in Surveys, NEW c \in Currents, PublishRead(t, s, c) PROVE FALSE
    <3>1. \E q : Become(t, q) /\ q.op \notin ClosingOps
      BY <2>7 DEF PublishRead, ClosingOps
    <3> QED
      BY <2>3, <3>1
  <2>8. ~PublishWrite(t) /\ ~PublishFailed(t) /\ ~CloseCommit(t) /\ ~CloseAborted(t)
    <3>1. PublishWrite(t) => Done(t) \/ \E q : Become(t, q) /\ q.op \notin ClosingOps
      BY DEF PublishWrite, ClosingOps
    <3> QED
      BY <2>3, <2>4, <3>1 DEF PublishFailed, CloseCommit, CloseAborted
  <2>9. ASSUME NEW s \in Surveys, CarryRead(t, s)
        PROVE  /\ InClosing(t) /\ task'[t].from = task[t].from
               /\ task'[t].proposed = task[t].proposed
    <3>1. InClosing(t)
      BY <2>9 DEF CarryRead, InClosing
    <3>2. \E q : Become(t, q) /\ q.from = task[t].from /\ q.proposed = task[t].proposed
      BY <2>9 DEF CarryRead
    <3> QED
      BY <2>2, <3>1, <3>2
  <2>10. ASSUME CarrySkip(t) \/ CarryWrite(t)
         PROVE  /\ InClosing(t) /\ task'[t].from = task[t].from
                /\ task'[t].proposed = task[t].proposed
    <3>1. InClosing(t)
      BY <2>10 DEF CarrySkip, CarryWrite, InClosing
    <3>2. \E W : NextRow(t, W)
      BY <2>10 DEF CarrySkip, CarryWrite
    <3>3. \E q : Become(t, q) /\ q.from = task[t].from /\ q.proposed = task[t].proposed
      BY <3>2 DEF NextRow
    <3> QED
      BY <2>2, <3>1, <3>3
  <2> QED
    BY <2>1, <2>5, <2>6, <2>7, <2>8, <2>9, <2>10 DEF Publishing, Closing
<1> QED
  BY <1>1, <1>2

(* What a closing took from its preview stays what is unpaid. *)
LEMMA NextCloseInv == PreviewFits /\ IInv /\ CloseInv /\ YearLeftAlone /\ [Next]_vars => CloseInv'
<1> SUFFICES ASSUME PreviewFits, IInv, CloseInv, YearLeftAlone, [Next]_vars,
                    NEW t \in Tasks, task'[t].op \in ClosingOps, NEW s \in Surveys
             PROVE  task'[t].proposed[s] = Unpaid(s, task[t].from)'
  BY DEF CloseInv, ClosesWith
<1>1. CASE /\ InClosing(t) /\ task'[t].from = task[t].from
           /\ task'[t].proposed = task[t].proposed
  <2>1. task[t].proposed[s] = Unpaid(s, task[t].from)
    BY <1>1 DEF CloseInv, ClosesWith, InClosing, ClosingOps
  <2>2. demand'[s][task[t].from] = demand[s][task[t].from]
    BY <1>1 DEF YearLeftAlone
  <2> QED
    BY <1>1, <2>1, <2>2 DEF Unpaid
<1>2. ASSUME NEW from \in Years, NEW to \in Years, CloseStart(t, from, to)
      PROVE  task'[t].proposed[s] = Unpaid(s, task[t].from)'
  <2>1. PICK P \in SUBSET Surveys :
           /\ Previewed(from, P)
           /\ Become(t, [op |-> "closing", from |-> from, to |-> to,
                         proposed |-> [r \in Surveys |-> IF r \in P THEN Unpaid(r, from) ELSE 0],
                         todo |-> P, writes |-> {}])
    BY <1>2 DEF CloseStart
  <2> DEFINE amounts == [r \in Surveys |-> IF r \in P THEN Unpaid(r, from) ELSE 0]
  <2>2. \E q : Become(t, q) /\ q.from = from /\ q.proposed = amounts
    BY <2>1
  <2>3. task'[t].from = from /\ task'[t].proposed = amounts
    BY <2>2 DEF Become, IInv, TypeOK
  <2>4. demand' = demand
    BY <1>2 DEF CloseStart, dbVars
  <2>5. Unpaid(s, from) \in Nat
    BY UnpaidNat DEF IInv
  <2>6. s \notin P => Unpaid(s, from) = 0
    BY <2>1, <2>5, AllPreviewed
  <2>7. amounts[s] = Unpaid(s, from)
    BY <2>6
  <2> HIDE DEF amounts
  <2> QED
    BY <2>3, <2>4, <2>7 DEF Unpaid
<1> QED
  BY <1>1, <1>2, ClosingMoves

(* The closing that sets a run is the one of its years. *)
LEMMA RunMoves ==
    ASSUME IInv, [Next]_vars, NEW f \in Years, NEW y \in Years, ~run[f][y], run'[f][y]
    PROVE  \E t \in Tasks : CloseCommit(t) /\ task[t].from = f /\ task[t].to = y
<1>1. run' # run
  OBVIOUS
<1>2. PICK t \in Tasks : CloseCommit(t)
  <2>1. ASSUME NEW u \in Tasks, Publishing(u)
        PROVE  run' = run
    BY <2>1 DEF Publishing, PublishOne, PublishWard, PublishRead, PublishWrite, PublishFailed, dbVars
  <2>2. ASSUME NEW u \in Tasks, Closing(u), ~CloseCommit(u)
        PROVE  run' = run
    BY <2>2 DEF Closing, CloseStart, CarryRead, CarrySkip, CarryWrite, CloseAborted, dbVars
  <2>3. ASSUME NEW r \in Surveys, NEW x \in Years, NEW a \in PayAmounts, Pay(r, x, a)
        PROVE  run' = run
    BY <2>3 DEF Pay
  <2>4. CASE UNCHANGED vars
    BY <1>1, <2>4 DEF vars, dbVars
  <2> QED
    BY <1>1, <2>1, <2>2, <2>3, <2>4 DEF Next
<1>3. /\ task[t] \in Task /\ task[t].op = "closing"
      /\ run' = [run EXCEPT ![task[t].from][task[t].to] = TRUE]
  BY <1>2, CommitRows
<1>4. task[t].from = f /\ task[t].to = y
  BY <1>3 DEF IInv, TypeOK, Task
<1> QED
  BY <1>2, <1>4

LEMMA CommitCarries ==
    ASSUME IInv, CloseInv, NEW t \in Tasks, CloseCommit(t), NEW s \in Surveys,
           Unpaid(s, task[t].from) > 0
    PROVE  arrear'[s][task[t].to][task[t].from] = Unpaid(s, task[t].from)
<1> DEFINE q == task[t]
<1>1. q \in Task /\ TaskOK(q) /\ q.op = "closing" /\ q.todo = {} /\ ~run[q.from][q.to]
  BY CommitRows
<1>2. q.from \in Years /\ q.to \in Years /\ q.writes \in SUBSET Carry
  BY <1>1 DEF Task
<1>3. q.proposed[s] = Unpaid(s, q.from)
  BY <1>1 DEF CloseInv, ClosesWith, ClosingOps
<1>4. arrear[s][q.to][q.from] = 0
  BY <1>1, <1>2 DEF IInv, TypeOK, ArrearsByCommittedRun
<1>5. Written(t, s) # {}
  BY <1>1, <1>3, <1>4 DEF TaskOK, ClosingOps, Written
<1>6. \A r \in Surveys, x, f \in Years :
         IF x = q.to /\ f = q.from /\ Written(t, r) # {}
         THEN \E w \in Written(t, r) : arrear'[r][x][f] = w.amount
         ELSE arrear'[r][x][f] = arrear[r][x][f]
  BY CommitRows
<1>7. PICK w \in Written(t, s) : arrear'[s][q.to][q.from] = w.amount
  BY <1>2, <1>5, <1>6
<1>8. w.amount = q.proposed[s]
  BY <1>1, <1>7 DEF TaskOK, ClosingOps, Written
<1> QED
  BY <1>3, <1>7, <1>8

(* A closing that commits carries, for every survey, what is unpaid then,  *)
(* as long as the preview's limit is no less than the number of surveys and*)
(* no demand of the year moves while it is being closed.                   *)
THEOREM CarriedUnlessMoving ==
    PreviewFits => (Spec /\ [][YearLeftAlone]_vars => UnpaidIsCarried)
<1> SUFFICES ASSUME PreviewFits PROVE Spec /\ [][YearLeftAlone]_vars => UnpaidIsCarried
  OBVIOUS
<1>1. Init => CloseInv
  BY DEF Init, CloseInv, ClosesWith, ClosingOps
<1>2. IInv /\ CloseInv /\ [Next]_vars /\ [YearLeftAlone]_vars => CloseInv'
  <2>1. CASE UNCHANGED vars
    BY <2>1 DEF vars, dbVars, CloseInv, ClosesWith, Unpaid
  <2>2. CASE YearLeftAlone
    BY <2>2, NextCloseInv
  <2> QED
    BY <2>1, <2>2
<1>3. ASSUME IInv, CloseInv, [Next]_vars, NEW f \in Years, NEW y \in Years, ~run[f][y], run'[f][y],
             NEW s \in Surveys, Unpaid(s, f) > 0
      PROVE  arrear'[s][y][f] = Unpaid(s, f)
  BY <1>3, RunMoves, CommitCarries
<1>4. IInv /\ CloseInv /\ [Next]_vars
      => [\A f, y \in Years :
            ~run[f][y] /\ run'[f][y]
            => \A s \in Surveys : Unpaid(s, f) > 0 => arrear'[s][y][f] = Unpaid(s, f)]_vars
  BY <1>3
<1> QED
  BY <1>1, <1>2, <1>4, Invariance, PTL DEF Spec, UnpaidIsCarried

-----------------------------------------------------------------------------
(* A row's sums: what is due in all, and what of it is still owed. *)
RowSound(r) ==
    /\ r.total = r.current + r.arrears
    /\ r.outstanding = Outstanding(r.total, r.paid)

RowsAddUp == \A s \in Surveys, y \in Years : RowSound(demand[s][y])

(* No row moves between its closing's read of it and the write of its sums. *)
ReadRowStays ==
    \A t \in Tasks : task[t].op = "carrying" =>
        demand'[task[t].s][task[t].to] = demand[task[t].s][task[t].to]

(* What a closing has written goes with the row that it will change. *)
WriteSound(w, row) ==
    /\ w.fresh => w.total = w.arrears /\ w.outstanding = Outstanding(w.total, 0)
    /\ ~w.fresh => /\ row.status # "ABSENT"
                   /\ w.total = row.current + w.arrears
                   /\ w.outstanding = Outstanding(w.total, row.paid)

SumsKnown(q) ==
    /\ q.op = "publishing" => RowSound(q.row)
    /\ q.op = "carrying" => q.saw = demand[q.s][q.to]
    /\ q.op \in ClosingOps => \A w \in q.writes : WriteSound(w, demand[w.s][q.to])

AbsentIsEmpty ==
    \A s \in Surveys, y \in Years : demand[s][y].status = "ABSENT" => demand[s][y] = Absent

SumsInv == RowsAddUp /\ AbsentIsEmpty /\ \A t \in Tasks : SumsKnown(task[t])

LEMMA InitSumsInv == Init => SumsInv
<1> SUFFICES ASSUME Init PROVE SumsInv
  OBVIOUS
<1>1. RowSound(Absent)
  BY DEF RowSound, Absent, Outstanding
<1>2. \A s \in Surveys, y \in Years : demand[s][y] = Absent
  BY DEF Init
<1>3. RowsAddUp /\ AbsentIsEmpty
  BY <1>1, <1>2, Zenon DEF RowsAddUp, AbsentIsEmpty
<1>4. \A t \in Tasks : SumsKnown(task[t])
  BY DEF Init, SumsKnown, ClosingOps
<1> QED
  BY <1>3, <1>4 DEF SumsInv

(* A row that an open closing has written is locked until it commits. *)
LEMMA WrittenStays ==
    ASSUME IInv, [Next]_vars, NEW t \in Tasks, InClosing(t), ~CloseCommit(t),
           NEW w \in task[t].writes
    PROVE  demand'[w.s][task[t].to] = demand[w.s][task[t].to]
<1>1. task[t] \in Task
  BY DEF IInv, TypeOK
<1>2. task[t].to \in Years /\ task[t].writes \in SUBSET Carry
  BY <1>1 DEF Task, InClosing
<1>3. PICK s \in Surveys, y \in Years : s = w.s /\ y = task[t].to
  BY <1>2 DEF Carry
<1>4. LockedBy(Tasks, s, y)
  BY <1>3 DEF LockedBy
<1>5. ASSUME NEW u \in Tasks, PublishedRow(u, s, y) PROVE FALSE
  BY <1>4, <1>5 DEF PublishedRow, PublishWrite
<1>6. ASSUME NEW u \in Tasks, CarriedInto(u, s, y) PROVE FALSE
  <2>1. CloseCommit(u) /\ task[u].to = y /\ Written(u, s) # {}
    BY <1>6 DEF CarriedInto
  <2>2. u # t /\ InClosing(u)
    BY <2>1 DEF CloseCommit, InClosing
  <2>3. PICK v \in task[u].writes : v.s = s
    BY <2>1 DEF Written
  <2> QED
    BY <1>3, <2>1, <2>2, <2>3 DEF IInv, Exclusive
<1>7. ASSUME NEW a \in PayAmounts, PaidRow(s, y, a) PROVE FALSE
  BY <1>4, <1>7 DEF PaidRow, Pay
<1> QED
  BY <1>3, <1>5, <1>6, <1>7, RowMoves DEF RowMoved

LEMMA NextRowsAddUp == IInv /\ SumsInv /\ [Next]_vars => RowsAddUp' /\ AbsentIsEmpty'
<1> SUFFICES ASSUME IInv, SumsInv, [Next]_vars, NEW s \in Surveys, NEW y \in Years
             PROVE  /\ RowSound(demand'[s][y])
                    /\ demand'[s][y].status = "ABSENT" => demand'[s][y] = Absent
  BY DEF RowsAddUp, AbsentIsEmpty
<1> DEFINE row == demand[s][y]
<1>1. row \in DemandRow /\ RowSound(row) /\ (row.status = "ABSENT" => row = Absent)
  BY DEF IInv, TypeOK, SumsInv, RowsAddUp, AbsentIsEmpty
<1>2. ASSUME NEW t \in Tasks, PublishedRow(t, s, y)
      PROVE  RowSound(demand'[s][y]) /\ demand'[s][y].status # "ABSENT"
  <2>1. task[t].op = "publishing" /\ demand'[s][y] = task[t].row
    BY <1>2 DEF PublishedRow, PublishWrite
  <2>2. RowSound(task[t].row)
    BY <2>1 DEF SumsInv, SumsKnown
  <2>3. task[t].row.status = "PUBLISHED"
    BY <2>1 DEF IInv, TasksOK, TaskOK
  <2> QED
    BY <2>1, <2>2, <2>3
<1>3. ASSUME NEW t \in Tasks, CarriedInto(t, s, y)
      PROVE  RowSound(demand'[s][y]) /\ demand'[s][y].status # "ABSENT"
  <2>1. PICK w \in Written(t, s) : demand'[s][y] = CarriedRow(row, w)
    BY <1>3 DEF CarriedInto
  <2>2. task[t] \in Task /\ task[t].op = "closing" /\ task[t].to = y
    BY <1>3 DEF CarriedInto, CloseCommit, IInv, TypeOK
  <2>3. w \in task[t].writes /\ w.s = s
    BY DEF Written
  <2>4. w \in Carry
    BY <2>2, <2>3 DEF Task
  <2>5. WriteSound(w, row)
    BY <2>2, <2>3 DEF SumsInv, SumsKnown, ClosingOps
  <2>6. CASE w.fresh
    <3>1. CarriedRow(row, w) = [status |-> "DRAFT", current |-> 0, arrears |-> w.arrears,
                                total |-> w.total, paid |-> 0, outstanding |-> w.outstanding]
      BY <2>6 DEF CarriedRow
    <3>2. w.arrears \in Nat /\ w.total = w.arrears /\ w.outstanding = Outstanding(w.total, 0)
      BY <2>4, <2>5, <2>6 DEF WriteSound, Carry
    <3> QED
      BY <2>1, <3>1, <3>2 DEF RowSound
  <2>7. CASE ~w.fresh
    <3>1. CarriedRow(row, w) = [row EXCEPT !.arrears = w.arrears, !.total = w.total,
                                           !.outstanding = w.outstanding]
      BY <2>7 DEF CarriedRow
    <3>2. /\ row.status # "ABSENT" /\ w.total = row.current + w.arrears
          /\ w.outstanding = Outstanding(w.total, row.paid)
      BY <2>5, <2>7 DEF WriteSound
    <3> HIDE DEF row
    <3>3. /\ CarriedRow(row, w).status = row.status /\ CarriedRow(row, w).current = row.current
          /\ CarriedRow(row, w).arrears = w.arrears /\ CarriedRow(row, w).total = w.total
          /\ CarriedRow(row, w).paid = row.paid
          /\ CarriedRow(row, w).outstanding = w.outstanding
      BY <1>1, <3>1 DEF DemandRow
    <3> QED
      BY <2>1, <3>2, <3>3 DEF RowSound
  <2> QED
    BY <2>6, <2>7
<1>4. ASSUME NEW a \in PayAmounts, PaidRow(s, y, a)
      PROVE  RowSound(demand'[s][y]) /\ demand'[s][y].status # "ABSENT"
  <2> DEFINE new == demand'[s][y]
  <2>1. /\ new = [row EXCEPT !.paid = row.paid + a,
                             !.outstanding = Outstanding(row.total, row.paid + a)]
        /\ row.status = "PUBLISHED"
    BY <1>4 DEF PaidRow
  <2> HIDE DEF row, new
  <2>2. /\ new.status = "PUBLISHED" /\ new.current = row.current /\ new.arrears = row.arrears
        /\ new.total = row.total /\ new.paid = row.paid + a
        /\ new.outstanding = Outstanding(row.total, row.paid + a)
    BY <1>1, <2>1 DEF DemandRow
  <2>3. RowSound(new) /\ new.status # "ABSENT"
    BY <1>1, <2>2 DEF RowSound
  <2> QED
    BY <2>3 DEF new
<1> QED
  BY <1>1, <1>2, <1>3, <1>4, RowMoves DEF RowMoved

LEMMA AssessedSound ==
    ASSUME NEW c, NEW a, NEW paid
    PROVE  RowSound(Assessed(c, a, paid))
BY DEF RowSound, Assessed

(* What a closing writes for a survey goes with the row that it saw. *)
LEMMA CarriedSound ==
    ASSUME NEW q \in Task, q.op = "carrying", q.saw.status = "ABSENT" => q.saw = Absent
    PROVE  Carried(q).s = q.s /\ WriteSound(Carried(q), q.saw)
<1> DEFINE arrears == MapThenSumSet(LAMBDA f : q.sawArrears[f], Years) + q.proposed[q.s]
           fresh   == (q.saw.status = "ABSENT")
           current == q.saw.current
           paid    == q.saw.paid
           c       == Carried(q)
<1>1. c = [s |-> q.s, amount |-> q.proposed[q.s], arrears |-> arrears,
           total |-> current + arrears,
           outstanding |-> Outstanding(current + arrears, paid), fresh |-> fresh]
  BY DEF Carried
<1>2. c \in Carry /\ c.s = q.s /\ (c.fresh <=> fresh)
  BY CarriedCarry
<1>3. fresh => current = 0 /\ paid = 0
  BY DEF Absent
<1> HIDE DEF arrears, current, paid, fresh, c
<1>4. /\ c.arrears = arrears /\ c.total = current + arrears
      /\ c.outstanding = Outstanding(current + arrears, paid)
  BY <1>1
<1>5. arrears \in Nat
  BY <1>2, <1>4 DEF Carry
<1>6. CASE fresh
  <2>1. current + arrears = arrears
    BY <1>3, <1>5, <1>6
  <2> QED
    BY <1>2, <1>3, <1>4, <1>6, <2>1 DEF WriteSound, c
<1>7. CASE ~fresh
  <2>1. q.saw.status # "ABSENT"
    BY <1>7 DEF fresh
  <2> QED
    BY <1>2, <1>4, <1>7, <2>1 DEF WriteSound, c, current, paid
<1> QED
  BY <1>6, <1>7

(* A step of a task that leaves the rows alone, and what the task is then. *)
LEMMA TaskKnows ==
    ASSUME IInv, SumsInv, [Next]_vars, NEW t \in Tasks, task'[t] # task[t]
    PROVE  \E q : /\ Become(t, q)
                  /\ \/ q.op \in {"idle", "publish"}
                     \/ demand' = demand /\ SumsKnown(q)
<1> DEFINE p == task[t]
<1>1. p \in Task /\ SumsKnown(p)
  BY DEF IInv, TypeOK, SumsInv
<1>2. Publishing(t) \/ Closing(t)
  BY TaskMoves
<1>3. ASSUME NEW s \in Surveys, NEW y \in Years, PublishOne(t, s, y)
      PROVE  \E q : Become(t, q) /\ q.op \in {"idle", "publish"}
  BY <1>3 DEF PublishOne
<1>4. ASSUME NEW y \in Years, PublishWard(t, y)
      PROVE  \E q : Become(t, q) /\ q.op \in {"idle", "publish"}
  BY <1>4 DEF PublishWard
<1>5. Done(t) => \E q : Become(t, q) /\ q.op \in {"idle", "publish"}
  BY DEF Done
<1>6. PublishWrite(t) => \E q : Become(t, q) /\ q.op \in {"idle", "publish"}
  BY <1>5 DEF PublishWrite
<1>7. PublishFailed(t) \/ CloseCommit(t) \/ CloseAborted(t)
      => \E q : Become(t, q) /\ q.op \in {"idle", "publish"}
  BY <1>5 DEF PublishFailed, CloseCommit, CloseAborted
<1>8. ASSUME NEW s \in Surveys, NEW c \in Currents, PublishRead(t, s, c)
      PROVE  demand' = demand /\ \E q : Become(t, q) /\ SumsKnown(q)
  <2>1. demand' = demand
    BY <1>8 DEF PublishRead, dbVars
  <2>2. \E q : Become(t, q) /\ q.op = "publishing" /\ \E a, paid : q.row = Assessed(c, a, paid)
    BY <1>8 DEF PublishRead
  <2>3. PICK q : Become(t, q) /\ q.op = "publishing" /\ \E a, paid : q.row = Assessed(c, a, paid)
    BY <2>2
  <2>4. SumsKnown(q)
    BY <2>3, AssessedSound DEF SumsKnown, ClosingOps
  <2> QED
    BY <2>1, <2>3, <2>4
<1>9. ASSUME NEW from \in Years, NEW to \in Years, CloseStart(t, from, to)
      PROVE  demand' = demand /\ \E q : Become(t, q) /\ SumsKnown(q)
  <2>1. demand' = demand
    BY <1>9 DEF CloseStart, dbVars
  <2>2. \E q : Become(t, q) /\ q.op = "closing" /\ q.writes = {}
    BY <1>9 DEF CloseStart
  <2> QED
    BY <2>1, <2>2 DEF SumsKnown
<1>10. ASSUME NEW s \in Surveys, CarryRead(t, s)
       PROVE  demand' = demand /\ \E q : Become(t, q) /\ SumsKnown(q)
  <2>1. demand' = demand /\ p.op = "closing"
    BY <1>10 DEF CarryRead, dbVars
  <2>2. \E q : /\ Become(t, q) /\ q.op = "carrying" /\ q.saw = demand[q.s][q.to]
               /\ q.writes = p.writes /\ q.to = p.to
    BY <1>10 DEF CarryRead
  <2>3. \A w \in p.writes : WriteSound(w, demand[w.s][p.to])
    BY <1>1, <2>1 DEF SumsKnown, ClosingOps
  <2> QED
    BY <2>1, <2>2, <2>3 DEF SumsKnown
<1>11. ASSUME NEW W, NextRow(t, W), UNCHANGED dbVars,
              \A w \in W : WriteSound(w, demand[w.s][p.to])
       PROVE  demand' = demand /\ \E q : Become(t, q) /\ SumsKnown(q)
  <2>1. demand' = demand
    BY <1>11 DEF dbVars
  <2>2. \E q : Become(t, q) /\ q.op = "closing" /\ q.writes = W /\ q.to = p.to
    BY <1>11 DEF NextRow
  <2> QED
    BY <1>11, <2>1, <2>2 DEF SumsKnown
<1>12. p.op = "carrying" => /\ p.saw = demand[p.s][p.to]
                            /\ \A w \in p.writes : WriteSound(w, demand[w.s][p.to])
  BY <1>1 DEF SumsKnown, ClosingOps
<1>13. ASSUME CarrySkip(t)
       PROVE  demand' = demand /\ \E q : Become(t, q) /\ SumsKnown(q)
  BY <1>11, <1>12, <1>13 DEF CarrySkip
<1>14. ASSUME CarryWrite(t)
       PROVE  demand' = demand /\ \E q : Become(t, q) /\ SumsKnown(q)
  <2> DEFINE c == Carried(p)
  <2>1. p.op = "carrying" /\ NextRow(t, p.writes \cup {c}) /\ UNCHANGED dbVars
    BY <1>14 DEF CarryWrite
  <2>2. p.s \in Surveys /\ p.to \in Years
    BY <1>1, <2>1 DEF Task
  <2>3. p.saw.status = "ABSENT" => p.saw = Absent
    BY <1>12, <2>1, <2>2 DEF SumsInv, AbsentIsEmpty
  <2>4. c.s = p.s /\ WriteSound(c, p.saw)
    BY <1>1, <2>1, <2>3, CarriedSound
  <2> HIDE DEF c
  <2>5. \A w \in p.writes \cup {c} : WriteSound(w, demand[w.s][p.to])
    BY <1>12, <2>1, <2>4
  <2> QED
    BY <1>11, <2>1, <2>5
<1> HIDE DEF p
<1> QED
  BY <1>2, <1>3, <1>4, <1>6, <1>7, <1>8, <1>9, <1>10, <1>13, <1>14 DEF Publishing, Closing

LEMMA NextSumsInv == IInv /\ SumsInv /\ ReadRowStays /\ [Next]_vars => SumsInv'
<1> SUFFICES ASSUME IInv, SumsInv, ReadRowStays, [Next]_vars
             PROVE  SumsInv'
  OBVIOUS
<1>1. ASSUME NEW t \in Tasks PROVE SumsKnown(task[t])'
  <2>1. CASE task'[t] # task[t]
    <3>1. PICK q : /\ Become(t, q)
                   /\ \/ q.op \in {"idle", "publish"}
                      \/ demand' = demand /\ SumsKnown(q)
      BY <2>1, TaskKnows
    <3>2. task'[t] = q
      BY <3>1 DEF Become, IInv, TypeOK
    <3>3. CASE q.op \in {"idle", "publish"}
      BY <3>2, <3>3 DEF SumsKnown, ClosingOps
    <3>4. CASE demand' = demand /\ SumsKnown(q)
      BY <3>2, <3>4 DEF SumsKnown
    <3> QED
      BY <3>1, <3>3, <3>4
  <2>2. CASE task'[t] = task[t]
    <3> DEFINE q == task[t]
    <3>1. SumsKnown(q)
      BY DEF SumsInv
    <3>2. q.op = "carrying" => q.saw = demand'[q.s][q.to]
      BY <3>1 DEF SumsKnown, ReadRowStays
    <3>3. ASSUME q.op \in ClosingOps, NEW w \in q.writes
          PROVE  WriteSound(w, demand'[w.s][q.to])
      <4>1. ~CloseCommit(t)
        <5>1. CloseCommit(t) => task'[t].op = "idle" /\ q.op = "closing"
          BY DEF CloseCommit, Done, Become, IInv, TypeOK
        <5> QED
          BY <2>2, <5>1
      <4>2. demand'[w.s][q.to] = demand[w.s][q.to]
        BY <3>3, <4>1, WrittenStays DEF InClosing, ClosingOps
      <4>3. WriteSound(w, demand[w.s][q.to])
        BY <3>1, <3>3 DEF SumsKnown
      <4> QED
        BY <4>2, <4>3
    <3> QED
      BY <2>2, <3>1, <3>2, <3>3 DEF SumsKnown
  <2> QED
    BY <2>1, <2>2
<1> QED
  BY <1>1, NextRowsAddUp DEF SumsInv

(* Every demand adds up, total from current and arrears, outstanding from  *)
(* total and paid, as long as no row moves between a closing's read of it  *)
(* and the write of its sums: nothing after that write can disturb them,   *)
(* the row is locked until the closing commits.                            *)
THEOREM SumsStand == Spec /\ [][ReadRowStays]_vars => []RowsAddUp
<1>1. IInv /\ SumsInv /\ [Next]_vars /\ [ReadRowStays]_vars => SumsInv'
  <2>1. CASE UNCHANGED vars
    BY <2>1 DEF vars, dbVars, SumsInv, RowsAddUp, AbsentIsEmpty, SumsKnown
  <2>2. CASE ReadRowStays
    BY <2>2, NextSumsInv
  <2> QED
    BY <2>1, <2>2
<1>2. SumsInv => RowsAddUp
  BY DEF SumsInv
<1> QED
  BY <1>1, <1>2, InitSumsInv, Invariance, PTL DEF Spec

=============================================================================
