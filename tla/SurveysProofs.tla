--------------------------- MODULE SurveysProofs ---------------------------
(* Proofs about the survey registry: the number in a survey's id is its     *)
(* own, no two rows have one id, and the registry, whoever writes it and    *)
(* in whatever order, is a behaviour of Registry.  Executions of one job    *)
(* prune nothing of their file, and one that is alone with the table makes  *)
(* the ward what the file says.                                             *)
EXTENDS Surveys, FiniteSums, FiniteSetTheorems, TLAPS

-----------------------------------------------------------------------------
(* Tables as values.  Status(s, k) is what the registry s says of id k.    *)

UniqueIds(s) == \A r, n \in Rows : s[r].on /\ s[n].on /\ s[r].id = s[n].id => r = n

HeldBy(s, k) == {r \in Rows : s[r].on /\ s[r].id = k}
Word(v) == IF v.gone THEN "deleted" ELSE "live"
Status(s, k) == IF HeldBy(s, k) = {} THEN "absent"
                ELSE IF \A r \in HeldBy(s, k) : s[r].gone THEN "deleted" ELSE "live"

LEMMA SurveyFields ==
    ASSUME NEW v \in Survey
    PROVE  /\ v.on \in BOOLEAN /\ v.gone \in BOOLEAN /\ v.ward \in Wards /\ v.num \in Nums
           /\ v.id \in Ids /\ v.val \in Vals /\ v.x \in Others
BY DEF Survey

(* An id that a row has, and one that none has. *)
LEMMA HeldStatus ==
    ASSUME NEW s \in [Rows -> Survey], UniqueIds(s), NEW r \in Rows, s[r].on
    PROVE  Status(s, s[r].id) = Word(s[r])
<1>1. HeldBy(s, s[r].id) = {r}
  BY DEF HeldBy, UniqueIds
<1>2. s[r].gone \in BOOLEAN
  BY SurveyFields
<1> QED
  BY <1>1, <1>2 DEF Status, Word

LEMMA FreeStatus ==
    ASSUME NEW s, NEW k, \A r \in Rows : ~(s[r].on /\ s[r].id = k)
    PROVE  Status(s, k) = "absent"
BY DEF Status, HeldBy

LEMMA SomeStatus ==
    ASSUME NEW s \in [Rows -> Survey], UniqueIds(s), NEW k
    PROVE  \/ Status(s, k) = "absent" /\ \A r \in Rows : ~(s[r].on /\ s[r].id = k)
           \/ \E r \in Rows : s[r].on /\ s[r].id = k /\ Status(s, k) = Word(s[r])
BY HeldStatus, FreeStatus

-----------------------------------------------------------------------------
(* One row is written.                                                     *)

(* The unique index lets the row have an id that no other row has. *)
Written(s, t, r, v) ==
    /\ r \in Rows /\ v \in Survey /\ v.on
    /\ t = [s EXCEPT ![r] = v]
    /\ \A n \in Rows \ {r} : ~(s[n].on /\ s[n].id = v.id)

LEMMA WrittenKeeps ==
    ASSUME NEW s \in [Rows -> Survey], UniqueIds(s), NEW t, NEW r, NEW v, Written(s, t, r, v)
    PROVE  /\ t \in [Rows -> Survey] /\ UniqueIds(t)
           /\ t[r] = v /\ \A n \in Rows \ {r} : t[n] = s[n]
BY DEF Written, UniqueIds

(* The statuses after it. *)
LEMMA WrittenStatus ==
    ASSUME NEW s \in [Rows -> Survey], UniqueIds(s), NEW t, NEW r, NEW v, Written(s, t, r, v)
    PROVE  /\ Status(t, v.id) = Word(v)
           /\ s[r].on /\ s[r].id # v.id => Status(t, s[r].id) = "absent" /\ Status(s, v.id) = "absent"
           /\ s[r].on => Status(s, s[r].id) = Word(s[r])
           /\ ~s[r].on => Status(s, v.id) = "absent"
           /\ \A k : k # v.id /\ (s[r].on => k # s[r].id) => Status(t, k) = Status(s, k)
<1>1. /\ t \in [Rows -> Survey] /\ UniqueIds(t) /\ r \in Rows
      /\ t[r] = v /\ v.on /\ \A n \in Rows \ {r} : t[n] = s[n]
  BY WrittenKeeps, Zenon DEF Written
<1>2. Status(t, v.id) = Word(v)
  BY <1>1, HeldStatus
<1>3. s[r].on => Status(s, s[r].id) = Word(s[r])
  BY <1>1, HeldStatus
<1>4. ASSUME s[r].on, s[r].id # v.id
      PROVE  Status(t, s[r].id) = "absent" /\ Status(s, v.id) = "absent"
  <2>1. \A n \in Rows : ~(t[n].on /\ t[n].id = s[r].id)
    BY <1>1, <1>4 DEF UniqueIds
  <2>2. \A n \in Rows : ~(s[n].on /\ s[n].id = v.id)
    BY <1>4 DEF Written
  <2> QED
    BY <2>1, <2>2, FreeStatus
<1>5. ~s[r].on => Status(s, v.id) = "absent"
  BY FreeStatus DEF Written
<1>6. ASSUME NEW k, k # v.id, s[r].on => k # s[r].id
      PROVE  Status(t, k) = Status(s, k)
  <2>1. HeldBy(t, k) = HeldBy(s, k) /\ r \notin HeldBy(s, k)
    BY <1>1, <1>6 DEF HeldBy
  <2>2. \A n \in HeldBy(s, k) : t[n] = s[n]
    BY <1>1, <2>1 DEF HeldBy
  <2> QED
    BY <2>1, <2>2 DEF Status
<1> QED
  BY <1>2, <1>3, <1>4, <1>5, <1>6

-----------------------------------------------------------------------------
(* What the abstract registry sees.                                        *)

LEMMA RegistrationIs == Registration = [k \in Ids |-> Status(survey, k)]
BY DEF Registration, Status, HeldBy, Holder

LEMMA RegistrationNext == Registration' = [k \in Ids |-> Status(survey', k)]
BY DEF Registration, Status, HeldBy, Holder

LEMMA CapOfAll == PruneCap(Cardinality(Rows)) \in Nat /\ PruneCap(Cardinality(Rows)) >= 1
<1>1. Cardinality(Rows) \in Nat
  BY FS_CardinalityType, SurveyConstants
<1> QED
  BY <1>1, SurveyConstants DEF PruneCap

LEMMA SameCardinality == \A S : Registered!Cardinality(S) = Cardinality(S)
BY DEF Cardinality, Registered!Cardinality

(* One id changes its status, or two do. *)
LEMMA OneIdChanges ==
    ASSUME NEW k \in Ids, Registration' = [Registration EXCEPT ![k] = Status(survey', k)],
           Status(survey, k) # Status(survey', k),
           \/ Status(survey', k) = "live"
           \/ Status(survey', k) = "deleted" /\ Status(survey, k) = "live"
    PROVE  Registered!Change
<1>1. Registration = [n \in Ids |-> Status(survey, n)] /\ Registration[k] = Status(survey, k)
  BY RegistrationIs
<1>2. Registered!Changed = {k}
  BY <1>1 DEF Registered!Changed
<1>3. CASE Status(survey', k) = "live"
  <2>1. Status(survey, k) \in {"absent", "deleted"}
    BY <1>3 DEF Status
  <2>2. Registered!Register(k) \/ Registered!Revive(k)
    BY <1>1, <1>3, <2>1 DEF Registered!Register, Registered!Revive
  <2> QED
    BY <1>2, <2>2 DEF Registered!Change
<1>4. CASE Status(survey', k) = "deleted" /\ Status(survey, k) = "live"
  <2>1. Cardinality({k}) <= PruneCap(Cardinality(Rows))
    BY FS_Singleton, CapOfAll
  <2>2. Registration' = [n \in Ids |-> IF n \in {k} THEN "deleted" ELSE Registration[n]]
    BY <1>1, <1>4
  <2>3. Registered!Retire({k})
    BY <1>1, <1>4, <2>1, <2>2, SameCardinality DEF Registered!Retire
  <2> QED
    BY <1>2, <2>3 DEF Registered!Change
<1> QED
  BY <1>3, <1>4

LEMMA TwoIdsChange ==
    ASSUME NEW k \in Ids, NEW l \in Ids, k # l, Status(survey, l) = "absent",
           Status(survey, k) \in {"live", "deleted"},
           NEW st \in {Status(survey, k), "live"},
           Registration' = [Registration EXCEPT ![k] = "absent", ![l] = st]
    PROVE  Registered!Change
<1>1. /\ Registration = [n \in Ids |-> Status(survey, n)]
      /\ Registration[k] = Status(survey, k) /\ Registration[l] = "absent"
  BY RegistrationIs
<1>2. Registered!Changed = {k, l} /\ st \in {"live", "deleted"}
  BY <1>1 DEF Registered!Changed
<1>3. Registered!Move(k, l, st)
  BY <1>1 DEF Registered!Move
<1> QED
  BY <1>2, <1>3 DEF Registered!Change

(* Writing one row changes the registry as it may, if a new survey and one *)
(* that moves are not deleted on the way.                                  *)
LEMMA WrittenIsChange ==
    ASSUME survey \in [Rows -> Survey], UniqueIds(survey), NEW r, NEW v, Written(survey, survey', r, v),
           \/ ~v.gone
           \/ survey[r].on /\ (survey[r].id = v.id \/ v.gone = survey[r].gone)
    PROVE  Registered!Change \/ UNCHANGED Registration
<1> DEFINE l == v.id
           k == survey[r].id
           S(n) == Status(survey, n)
           T(n) == Status(survey', n)
<1>1. r \in Rows /\ l \in Ids /\ k \in Ids /\ v.gone \in BOOLEAN /\ survey[r].gone \in BOOLEAN
      /\ survey[r].on \in BOOLEAN
  BY SurveyFields DEF Written
<1>2. /\ T(l) = Word(v)
      /\ survey[r].on /\ k # l => T(k) = "absent" /\ S(l) = "absent"
      /\ survey[r].on => S(k) = Word(survey[r])
      /\ ~survey[r].on => S(l) = "absent"
      /\ \A n : n # l /\ (survey[r].on => n # k) => T(n) = S(n)
  BY WrittenStatus
<1>3. Registration = [n \in Ids |-> S(n)] /\ Registration' = [n \in Ids |-> T(n)]
  BY RegistrationIs, RegistrationNext
<1> HIDE DEF S, T
<1>4. CASE survey[r].on /\ k # l
  <2>1. Registration' = [Registration EXCEPT ![k] = "absent", ![l] = T(l)]
    BY <1>1, <1>2, <1>3, <1>4
  <2>2. T(l) \in {S(k), "live"} /\ S(k) \in {"live", "deleted"}
    BY <1>1, <1>2, <1>4 DEF Word
  <2> QED
    BY <1>1, <1>2, <1>4, <2>1, <2>2, TwoIdsChange DEF S, T
<1>5. CASE ~(survey[r].on /\ k # l)
  <2>1. Registration' = [Registration EXCEPT ![l] = T(l)]
    BY <1>1, <1>2, <1>3, <1>5
  <2>2. CASE S(l) = T(l)
    BY <1>1, <1>3, <2>1, <2>2
  <2>3. CASE S(l) # T(l)
    <3>1. T(l) = "live" \/ (T(l) = "deleted" /\ S(l) = "live")
      BY <1>1, <1>2, <1>5, <2>3 DEF Word
    <3> QED
      BY <1>1, <2>1, <2>3, <3>1, OneIdChanges DEF S, T
  <2> QED
    BY <2>2, <2>3
<1> QED
  BY <1>4, <1>5

-----------------------------------------------------------------------------
(* Several rows are deleted at once.                                       *)

Pruned(s, t, O) ==
    t = [r \in Rows |-> IF r \in O THEN [s[r] EXCEPT !.gone = TRUE, !.status = "DELETED"] ELSE s[r]]

LEMMA PrunedKeeps ==
    ASSUME NEW s \in [Rows -> Survey], UniqueIds(s), NEW t, NEW O \in SUBSET Rows, Pruned(s, t, O)
    PROVE  /\ t \in [Rows -> Survey] /\ UniqueIds(t)
           /\ \A r \in Rows : /\ t[r].on = s[r].on /\ t[r].id = s[r].id /\ t[r].num = s[r].num
                             /\ t[r].gone = (s[r].gone \/ r \in O)
<1>1. ASSUME NEW r \in Rows
      PROVE  /\ t[r] \in Survey /\ t[r].on = s[r].on /\ t[r].id = s[r].id /\ t[r].num = s[r].num
             /\ t[r].gone = (s[r].gone \/ r \in O)
  <2>1. s[r] \in Survey /\ s[r].gone \in BOOLEAN
    BY SurveyFields
  <2>2. CASE r \in O
    <3>1. t[r] = [s[r] EXCEPT !.gone = TRUE, !.status = "DELETED"]
      BY <2>2 DEF Pruned
    <3> QED
      BY <2>1, <2>2, <3>1 DEF Survey
  <2>3. CASE r \notin O
    BY <2>1, <2>3 DEF Pruned
  <2> QED
    BY <2>2, <2>3
<1>2. t \in [Rows -> Survey]
  <2>1. t = [r \in Rows |-> t[r]]
    BY DEF Pruned
  <2> QED
    BY <1>1, <2>1
<1> QED
  BY <1>1, <1>2 DEF UniqueIds

LEMMA PrunedIsChange ==
    ASSUME survey \in [Rows -> Survey], UniqueIds(survey), NEW O \in SUBSET Rows,
           \A r \in O : survey[r].on, Pruned(survey, survey', O),
           Cardinality(O) <= PruneCap(Cardinality(Rows))
    PROVE  Registered!Change
<1> DEFINE K == Registered!Changed
           S(n) == Status(survey, n)
           T(n) == Status(survey', n)
           M == {survey[r].id : r \in O}
<1>1. Registration = [n \in Ids |-> S(n)] /\ Registration' = [n \in Ids |-> T(n)]
  BY RegistrationIs, RegistrationNext
<1>2. /\ survey' \in [Rows -> Survey] /\ UniqueIds(survey')
      /\ \A r \in Rows : /\ survey'[r].on = survey[r].on /\ survey'[r].id = survey[r].id
                        /\ survey'[r].gone = (survey[r].gone \/ r \in O)
                        /\ survey[r].gone \in BOOLEAN
  BY PrunedKeeps, SurveyFields
<1>3. ASSUME NEW k \in Ids, S(k) # T(k)
      PROVE  k \in M /\ S(k) = "live" /\ T(k) = "deleted"
  <2>1. CASE S(k) = "absent" /\ \A r \in Rows : ~(survey[r].on /\ survey[r].id = k)
    <3>1. \A r \in Rows : ~(survey'[r].on /\ survey'[r].id = k)
      BY <1>2, <2>1
    <3>2. T(k) = "absent"
      BY <3>1, FreeStatus
    <3> QED
      BY <1>3, <2>1, <3>2
  <2>2. ASSUME NEW r \in Rows, survey[r].on, survey[r].id = k, S(k) = Word(survey[r])
        PROVE  k \in M /\ S(k) = "live" /\ T(k) = "deleted"
    <3>1. T(k) = Word(survey'[r])
      BY <1>2, <2>2, HeldStatus
    <3>2. survey[r].gone # survey'[r].gone
      BY <1>3, <2>2, <3>1 DEF Word
    <3>3. r \in O /\ ~survey[r].gone /\ survey'[r].gone
      BY <1>2, <3>2
    <3> QED
      BY <2>2, <3>1, <3>3 DEF Word
  <2> QED
    BY <2>1, <2>2, SomeStatus
<1>4. K = {k \in Ids : S(k) # T(k)}
  BY <1>1 DEF Registered!Changed
<1>5. K \subseteq M /\ \A k \in K : Registration[k] = "live" /\ Registration'[k] = "deleted"
  BY <1>1, <1>3, <1>4
<1>6. Cardinality(K) <= PruneCap(Cardinality(Rows))
  <2> DEFINE f == [r \in O |-> survey[r].id]
  <2>1. IsFiniteSet(O) /\ Cardinality(O) \in Nat
    BY FS_Subset, FS_CardinalityType, SurveyConstants
  <2>2. f \in Surjection(O, M)
    BY DEF Surjection
  <2>3. IsFiniteSet(M) /\ Cardinality(M) <= Cardinality(O)
    BY <2>1, <2>2, FS_Surjection
  <2>4. IsFiniteSet(K) /\ Cardinality(K) <= Cardinality(M)
    BY <1>5, <2>3, FS_Subset
  <2>5. Cardinality(K) \in Nat /\ Cardinality(M) \in Nat
    BY <2>3, <2>4, FS_CardinalityType
  <2> QED
    BY <2>1, <2>3, <2>4, <2>5, CapOfAll
<1>7. Registration' = [k \in Ids |-> IF k \in K THEN "deleted" ELSE Registration[k]]
  BY <1>1, <1>4, <1>5
<1>8. Registered!Retire(K)
  BY <1>5, <1>6, <1>7, SameCardinality DEF Registered!Retire
<1> QED
  BY <1>8 DEF Registered!Change

-----------------------------------------------------------------------------
(* The inductive invariant.  Rows are never taken away, so whatever a      *)
(* request or an execution once read of a row, the row is still there when *)
(* it writes; and what is pruned was counted against the cap.              *)

OpNames == Ops \cup {"none", "list", "open", "load", "edit", "create"}
Form    == [ward : Wards, num : Nums, use : Uses, val : Vals \cup {Blank}, x : Others]

Request == [op : OpNames, pc : {"idle", "find", "repair", "form", "insert"}, row : Rows \cup {NoReq.row},
            todo : SUBSET (Rows \X Survey), snap : SUBSET Survey, want : SUBSET Form]

Plans  == {"UPDATE", "SKIP", "CREATE"}
JobRow == [status : {"none", "READY", "PROCESSING"} \cup Terminal, strategy : Plans, good : Nat, bad : Nat]

Execution == [pc : {"idle", "enqueue", "begin", "row", "apply", "finish"}, job : Jobs \cup {NoExec.job},
              strategy : Plans, prune : BOOLEAN, stalls : Nat, queued : BOOLEAN, i : Nat \ {0},
              dup : SUBSET (Rows \X Survey), good : Nat, bad : Nat, touched : SUBSET Rows,
              wards : SUBSET Wards, orphans : SUBSET Rows, new : SUBSET Nat]

RegistryTypeOK ==
    /\ survey \in [Rows -> Survey]
    /\ req \in [Reqs -> Request]
    /\ exec \in [Execs -> Execution]
    /\ job \in [Jobs -> JobRow]
    /\ queue \subseteq Jobs \X BOOLEAN \X Nat \X Nat
    /\ starts \in Nat

(* What a request, and an execution, may count on in the table s. *)
ReqOK(k, s) ==
    /\ \A t \in k.todo : s[t[1]].on
    /\ k.op # "list" /\ k.pc \in {"find", "repair", "form"} => k.row \in Rows /\ s[k.row].on
    /\ k.op # "list" /\ k.pc \in {"repair", "form"} => k.snap # {}
    /\ k.op = "edit" => k.want # {}
    /\ k.pc = "form" => k.op = "load"
    /\ k.pc = "insert" => k.want # {} /\ \A f \in k.want : f.val \in Vals

ExecOK(x, s) ==
    /\ x.pc # "idle" => x.job \in Jobs
    /\ x.pc = "apply" => x.i <= Len(Files[x.job])
    /\ \A d \in x.dup : s[d[1]].on
    /\ \A r \in x.orphans : s[r].on
    /\ Cardinality(x.orphans) <= PruneCap(Cardinality(Rows))

RegistryInv ==
    /\ RegistryTypeOK
    /\ UniqueIds(survey)
    /\ \A q \in Reqs : ReqOK(req[q], survey)
    /\ \A e \in Execs : ExecOK(exec[e], survey)
    /\ IdCarriesNumber

(* Writing v to row r is within what the abstract registry allows. *)
Writes(r, v) ==
    /\ Written(survey, survey', r, v)
    /\ v.id[2] = v.num
    /\ \/ ~v.gone
       \/ survey[r].on /\ (survey[r].id = v.id \/ v.gone = survey[r].gone)

(* What a step of an operator's page does. *)
PageMoves(q) ==
    /\ \E k \in Request : ReqOK(k, survey) /\ req' = [req EXCEPT ![q] = k]
    /\ UNCHANGED survey \/ \E r, v : Writes(r, v)
    /\ UNCHANGED <<exec, queue, starts>>

LEMMA IdParts ==
    ASSUME NEW id \in Ids
    PROVE  id[1] \in Wards \cup {0} /\ id[2] \in Nums /\ id[3] \in Uses
BY DEF Ids

LEMMA IdMade ==
    ASSUME NEW w \in Wards, NEW n \in Nums, NEW u \in Uses
    PROVE  /\ GenerateSurveyId(w, n, u) \in Ids /\ GenerateSurveyId(w, n, u)[1] = w
           /\ GenerateSurveyId(w, n, u)[2] = n
BY DEF Ids, GenerateSurveyId

LEMMA ExpectedOK ==
    ASSUME NEW s \in Survey
    PROVE  Expected(s) \in Ids /\ Expected(s)[1] = s.ward /\ Expected(s)[2] = s.num
<1>1. s.ward \in Wards /\ s.num \in Nums /\ s.id[3] \in Uses
  BY SurveyFields, IdParts
<1> QED
  BY <1>1, IdMade DEF Expected

LEMMA NoReqOK == NoReq \in Request /\ \A s : ReqOK(NoReq, s)
BY DEF NoReq, Request, ReqOK, OpNames

(* A request that fails or ends. *)
LEMMA FailMoves ==
    ASSUME NEW q \in Reqs, Fail(q), UNCHANGED <<exec, queue, starts>>,
           UNCHANGED survey \/ \E r, v : Writes(r, v)
    PROVE  PageMoves(q)
BY NoReqOK DEF Fail, PageMoves

LEMMA AskMoves ==
    ASSUME RegistryInv, NEW q \in Reqs, NEW op \in {"list", "open", "load", "delete", "ACTIVE", "ARCHIVED"},
           NEW r \in Rows \cup {NoReq.row}, op # "list" => r \in Rows, Ask(q, op, r)
    PROVE  PageMoves(q)
<1> DEFINE k == [NoReq EXCEPT !.op = op, !.row = r, !.pc = "find"]
<1>1. k \in Request /\ ReqOK(k, survey)
  <2>1. op \in OpNames /\ (op # "list" => survey[r].on)
    BY DEF Ask, OpNames
  <2>2. /\ k.op = op /\ k.row = r /\ k.pc = "find" /\ k.todo = {} /\ k.snap = {} /\ k.want = {}
        /\ k \in Request
    BY <2>1 DEF NoReq, Request
  <2> HIDE DEF k
  <2> QED
    BY <2>1, <2>2 DEF ReqOK
<1>2. req' = [req EXCEPT ![q] = k] /\ UNCHANGED <<survey, exec, queue, starts>>
  BY DEF Ask, registry, jobs
<1> HIDE DEF k
<1> QED
  BY <1>1, <1>2 DEF PageMoves

LEMMA FindMoves ==
    ASSUME RegistryInv, NEW q \in Reqs, Find(q)
    PROVE  PageMoves(q)
<1> DEFINE k == req[q]
           found == {r \in Rows : Live(r) /\ (k.op = "list" \/ r = k.row)}
           todo == {<<r, survey[r]>> : r \in {f \in found : NeedsRepair(survey[f])}}
           snap == IF k.op = "list" THEN {} ELSE {survey[k.row]}
           n == [k EXCEPT !.pc = "repair", !.todo = todo, !.snap = snap]
<1>1. /\ k \in Request /\ ReqOK(k, survey) /\ k.pc = "find" /\ survey \in [Rows -> Survey]
      /\ req \in [Reqs -> Request] /\ UNCHANGED <<survey, exec, queue, starts>>
  BY DEF Find, RegistryInv, RegistryTypeOK, registry, jobs
<1>2. CASE found = {}
  BY <1>1, <1>2, FailMoves DEF Find
<1>3. CASE found # {}
  <2>1. req' = [req EXCEPT ![q] = n]
    BY <1>1, <1>3 DEF Find
  <2>2. todo \in SUBSET (Rows \X Survey) /\ \A t \in todo : survey[t[1]].on
    BY <1>1 DEF Live
  <2>3. k.op # "list" => k.row \in Rows /\ survey[k.row].on
    BY <1>1 DEF ReqOK
  <2>4. snap \in SUBSET Survey /\ (k.op # "list" => snap # {})
    BY <1>1, <2>3
  <2>5. k.op = "edit" => k.want # {}
    BY <1>1 DEF ReqOK
  <2> HIDE DEF k, todo, snap
  <2>6. /\ n \in Request /\ n.op = k.op /\ n.row = k.row /\ n.todo = todo /\ n.snap = snap
        /\ n.want = k.want /\ n.pc = "repair"
    BY <1>1, <2>2, <2>4 DEF Request
  <2> HIDE DEF n
  <2>7. ReqOK(n, survey)
    BY <2>2, <2>3, <2>4, <2>5, <2>6 DEF ReqOK
  <2> QED
    BY <1>1, <2>1, <2>6, <2>7 DEF PageMoves
<1> QED
  BY <1>2, <1>3

(* A read repair: the unique index left the id free for the row. *)
LEMMA RepairMoves ==
    ASSUME RegistryInv, NEW q \in Reqs, Repair(q)
    PROVE  PageMoves(q)
<1> DEFINE k == req[q]
<1>1. /\ k \in Request /\ ReqOK(k, survey) /\ k.pc = "repair" /\ survey \in [Rows -> Survey]
      /\ req \in [Reqs -> Request] /\ UNCHANGED <<exec, queue, starts>>
  BY DEF Repair, RegistryInv, RegistryTypeOK, jobs
<1>2. PICK t \in k.todo :
         LET r == t[1]  s == t[2]  fixed == [s EXCEPT !.id = Expected(s)] IN
         IF LiveTakenBy(Expected(s), r)
         THEN /\ req' = [req EXCEPT ![q].todo = @ \ {t}]
              /\ UNCHANGED registry
         ELSE IF TakenBy(Expected(s), r)
         THEN Fail(q) /\ UNCHANGED registry
         ELSE /\ survey' = [survey EXCEPT ![r].id = Expected(s), ![r].num = s.num]
              /\ req' = [req EXCEPT ![q].todo = @ \ {t},
                                    ![q].snap = IF @ = {s} THEN {fixed} ELSE @]
              /\ OperatorWrites
  BY DEF Repair
<1> DEFINE r == t[1]
           s == t[2]
           fixed == [s EXCEPT !.id = Expected(s)]
           left == k.todo \ {t}
           snap == IF k.snap = {s} THEN {fixed} ELSE k.snap
<1>3. r \in Rows /\ s \in Survey /\ survey[r].on /\ survey[r] \in Survey
  BY <1>1 DEF Request, ReqOK
<1>4. Expected(s) \in Ids /\ Expected(s)[2] = s.num /\ s.num \in Nums
  BY <1>3, ExpectedOK, SurveyFields
<1>5. fixed \in Survey
  BY <1>3, <1>4 DEF Survey
<1>6. /\ k.todo \subseteq Rows \X Survey /\ k.snap \subseteq Survey /\ left \subseteq k.todo
      /\ snap \subseteq Survey /\ (k.snap # {} => snap # {})
  BY <1>1, <1>5 DEF Request
<1>7. CASE LiveTakenBy(Expected(s), r)
  <2> DEFINE n == [k EXCEPT !.todo = left]
  <2>1. req' = [req EXCEPT ![q] = n] /\ UNCHANGED survey
    BY <1>1, <1>2, <1>7 DEF registry
  <2> HIDE DEF k, left
  <2>2. n \in Request /\ n.op = k.op /\ n.row = k.row /\ n.pc = k.pc /\ n.todo = left /\ n.snap = k.snap
        /\ n.want = k.want
    BY <1>1, <1>6 DEF Request
  <2> HIDE DEF n
  <2>3. ReqOK(n, survey)
    BY <1>1, <1>6, <2>2 DEF ReqOK
  <2> QED
    BY <1>1, <2>1, <2>2, <2>3 DEF PageMoves
<1>8. CASE ~LiveTakenBy(Expected(s), r) /\ TakenBy(Expected(s), r)
  <2>1. Fail(q) /\ UNCHANGED survey
    BY <1>2, <1>8 DEF registry
  <2> QED
    BY <1>1, <2>1, FailMoves
<1>9. CASE ~LiveTakenBy(Expected(s), r) /\ ~TakenBy(Expected(s), r)
  <2> DEFINE n == [k EXCEPT !.todo = left, !.snap = snap]
             v == [survey[r] EXCEPT !.id = Expected(s), !.num = s.num]
  <2>1. /\ survey' = [survey EXCEPT ![r].id = Expected(s), ![r].num = s.num]
        /\ req' = [req EXCEPT ![q].todo = @ \ {t}, ![q].snap = IF @ = {s} THEN {fixed} ELSE @]
    BY <1>2, <1>9
  <2>2. req' = [req EXCEPT ![q] = n]
    BY <1>1, <2>1
  <2>3. survey' = [survey EXCEPT ![r] = v]
    BY <1>1, <1>3, <2>1
  <2>4. /\ v \in Survey /\ v.on /\ v.id = Expected(s) /\ v.num = s.num /\ v.gone = survey[r].gone
    BY <1>3, <1>4 DEF Survey
  <2>5. \A m \in Rows \ {r} : ~(survey[m].on /\ survey[m].id = v.id)
    BY <1>9, <2>4 DEF TakenBy, Holder
  <2> HIDE DEF k, left, snap, v
  <2>6. Writes(r, v)
    BY <1>3, <1>4, <2>3, <2>4, <2>5 DEF Writes, Written
  <2>7. n \in Request /\ n.op = k.op /\ n.row = k.row /\ n.pc = k.pc /\ n.todo = left /\ n.snap = snap
        /\ n.want = k.want
    BY <1>1, <1>6 DEF Request
  <2> HIDE DEF n
  <2>8. ReqOK(n, survey)
    BY <1>1, <1>6, <2>7 DEF ReqOK
  <2> QED
    BY <1>1, <2>2, <2>6, <2>7, <2>8 DEF PageMoves
<1> QED
  BY <1>7, <1>8, <1>9

(* The steps of a page that only look, and the form. *)
LEMMA FormMoves ==
    ASSUME RegistryInv, NEW q \in Reqs, Show(q) \/ FillFromRecord(q) \/ Save(q) \/ Leave(q)
    PROVE  PageMoves(q)
<1> DEFINE k == req[q]
<1>1. /\ k \in Request /\ ReqOK(k, survey) /\ req \in [Reqs -> Request]
  BY DEF RegistryInv, RegistryTypeOK
<1>2. UNCHANGED <<survey, exec, queue, starts>>
  BY DEF Show, FillFromRecord, Save, Leave, registry, jobs
<1>3. CASE Show(q) \/ Leave(q)
  BY <1>2, <1>3, FailMoves DEF Show, Leave
<1>4. CASE FillFromRecord(q)
  <2> DEFINE n == [k EXCEPT !.pc = "form"]
  <2>1. k.pc = "repair" /\ k.op = "load" /\ req' = [req EXCEPT ![q] = n]
    BY <1>1, <1>4 DEF FillFromRecord, Ready
  <2> HIDE DEF k
  <2>2. /\ n \in Request /\ n.op = k.op /\ n.row = k.row /\ n.todo = k.todo /\ n.snap = k.snap
        /\ n.want = k.want /\ n.pc = "form"
    BY <1>1 DEF Request
  <2> HIDE DEF n
  <2>3. ReqOK(n, survey)
    BY <1>1, <2>1, <2>2 DEF ReqOK
  <2> QED
    BY <1>1, <1>2, <2>1, <2>2, <2>3 DEF PageMoves
<1>5. CASE Save(q)
  <2>1. PICK f \in FormValues(Snap(q)) :
           req' = [req EXCEPT ![q].op = "edit", ![q].pc = "find", ![q].want = {f}]
    BY <1>5 DEF Save
  <2>2. k.pc = "form" /\ f \in Form
    BY <1>5 DEF Save, FormValues, Form
  <2> DEFINE n == [k EXCEPT !.op = "edit", !.pc = "find", !.want = {f}]
  <2>3. req' = [req EXCEPT ![q] = n]
    BY <1>1, <2>1
  <2> HIDE DEF k
  <2>4. /\ n \in Request /\ n.op = "edit" /\ n.pc = "find" /\ n.row = k.row /\ n.todo = k.todo
        /\ n.want = {f}
    BY <1>1, <2>2 DEF Request, OpNames
  <2> HIDE DEF n
  <2>5. ReqOK(n, survey)
    BY <1>1, <2>2, <2>4 DEF ReqOK
  <2> QED
    BY <1>1, <1>2, <2>3, <2>4, <2>5 DEF PageMoves
<1> QED
  BY <1>3, <1>4, <1>5

(* Identity is an id, of the row as read or of the form. *)
LEMMA IdentityOK ==
    ASSUME RegistryInv, NEW q \in Reqs,
           Ready(q, "edit") \/ Ready(q, "ARCHIVED") \/ Ready(q, "ACTIVE")
    PROVE  Identity(q) \in Ids /\ Identity(q)[1] \in Wards /\ Identity(q)[2] \in Nums
<1> DEFINE k == req[q]
<1>1. /\ k \in Request /\ ReqOK(k, survey) /\ k.pc = "repair" /\ k.op # "list"
  BY DEF RegistryInv, RegistryTypeOK, Ready
<1>2. k.snap # {} /\ k.snap \subseteq Survey /\ k.want \subseteq Form /\ (k.op = "edit" => k.want # {})
  BY <1>1 DEF ReqOK, Request
<1>3. Snap(q) \in Survey
  BY <1>2 DEF Snap
<1>4. CASE k.op = "edit"
  <2> DEFINE w == CHOOSE f \in k.want : TRUE
  <2>1. w \in Form
    BY <1>2, <1>4
  <2>2. Identity(q) = GenerateSurveyId(w.ward, w.num, w.use)
    BY <1>4 DEF Identity
  <2> HIDE DEF w
  <2>3. w.ward \in Wards /\ w.num \in Nums /\ w.use \in Uses
    BY <2>1 DEF Form
  <2> QED
    BY <2>2, <2>3, IdMade
<1>5. CASE k.op # "edit"
  <2>1. Identity(q) = Expected(Snap(q))
    BY <1>5 DEF Identity
  <2> QED
    BY <1>3, <2>1, ExpectedOK, SurveyFields
<1> QED
  BY <1>4, <1>5

(* The row an update writes is a survey, in the state of deletion it had. *)
LEMMA PatchedRowOK ==
    ASSUME RegistryInv, NEW q \in Reqs, NEW s \in Survey,
           Ready(q, "edit") \/ Ready(q, "ARCHIVED") \/ Ready(q, "ACTIVE")
    PROVE  /\ PatchedRow(q, s) \in Survey /\ PatchedRow(q, s).id = Identity(q)
           /\ PatchedRow(q, s).num = Identity(q)[2]
           /\ PatchedRow(q, s).on = s.on /\ PatchedRow(q, s).gone = s.gone
<1> DEFINE k == req[q]
           id == Identity(q)
<1>1. id \in Ids /\ id[1] \in Wards /\ id[2] \in Nums
  BY IdentityOK
<1>2. /\ k \in Request /\ ReqOK(k, survey) /\ k.op \in {"edit", "ARCHIVED", "ACTIVE"}
  BY DEF RegistryInv, RegistryTypeOK, Ready
<1>3. CASE k.op = "edit"
  <2> DEFINE w == CHOOSE f \in k.want : TRUE
             val == Merge(s.val, w.val)
             x == Merge(s.x, w.x)
  <2>1. w \in Form
    BY <1>2, <1>3 DEF ReqOK, Request
  <2>2. PatchedRow(q, s) = [s EXCEPT !.id = id, !.num = id[2], !.ward = id[1], !.val = val, !.x = x]
    BY <1>3 DEF PatchedRow
  <2> HIDE DEF w
  <2>3. w.val \in Vals \cup {Blank} /\ w.x \in Others /\ s.val \in Vals /\ s.x \in Others
    BY <2>1, SurveyFields DEF Form
  <2>4. val \in Vals /\ x \in Others
    BY <2>3 DEF Merge
  <2> HIDE DEF val, x, id
  <2> QED
    BY <1>1, <2>2, <2>4 DEF Survey, id
<1>4. CASE k.op # "edit"
  <2>1. PatchedRow(q, s) = [s EXCEPT !.id = id, !.num = id[2], !.status = k.op]
    BY <1>4 DEF PatchedRow
  <2>2. k.op \in {"ACTIVE", "ARCHIVED", "DELETED"}
    BY <1>2, <1>4
  <2> HIDE DEF id, k
  <2> QED
    BY <1>1, <2>1, <2>2 DEF Survey, id
<1> QED
  BY <1>3, <1>4

LEMMA PatchMoves ==
    ASSUME RegistryInv, NEW q \in Reqs, Patch(q)
    PROVE  PageMoves(q)
<1> DEFINE k == req[q]
           id == Identity(q)
           v == PatchedRow(q, survey[k.row])
           n == IF k.op = "edit" THEN [NoReq EXCEPT !.op = "open", !.row = k.row, !.pc = "find"] ELSE NoReq
<1>1. /\ k \in Request /\ ReqOK(k, survey) /\ survey \in [Rows -> Survey] /\ req \in [Reqs -> Request]
      /\ UNCHANGED <<exec, queue, starts>>
      /\ Ready(q, "edit") \/ Ready(q, "ARCHIVED") \/ Ready(q, "ACTIVE")
  BY DEF RegistryInv, RegistryTypeOK, Patch, jobs
<1>2. k.row \in Rows /\ survey[k.row].on /\ survey[k.row] \in Survey
  BY <1>1 DEF ReqOK, Ready
<1>3. CASE (id # Snap(q).id /\ LiveTakenBy(id, k.row)) \/ TakenBy(id, k.row)
  <2>1. Fail(q) /\ UNCHANGED survey
    BY <1>3 DEF Patch, registry
  <2> QED
    BY <1>1, <2>1, FailMoves
<1>4. CASE ~((id # Snap(q).id /\ LiveTakenBy(id, k.row)) \/ TakenBy(id, k.row))
  <2>1. survey' = [survey EXCEPT ![k.row] = v] /\ req' = [req EXCEPT ![q] = n]
    BY <1>4 DEF Patch
  <2>2. v \in Survey /\ v.id = id /\ v.num = id[2] /\ v.on /\ v.gone = survey[k.row].gone
    BY <1>1, <1>2, PatchedRowOK
  <2>3. \A m \in Rows \ {k.row} : ~(survey[m].on /\ survey[m].id = v.id)
    BY <1>4, <2>2 DEF TakenBy, Holder
  <2>4. n \in Request /\ ReqOK(n, survey)
    BY <1>2, NoReqOK DEF NoReq, Request, ReqOK, OpNames
  <2> HIDE DEF n, v, id
  <2>5. Writes(k.row, v)
    BY <1>2, <2>1, <2>2, <2>3 DEF Writes, Written
  <2> QED
    BY <1>1, <2>1, <2>4, <2>5 DEF PageMoves
<1> QED
  BY <1>3, <1>4

LEMMA RemoveMoves ==
    ASSUME RegistryInv, NEW q \in Reqs, Remove(q)
    PROVE  PageMoves(q)
<1> DEFINE r == req[q].row
           v == [survey[r] EXCEPT !.gone = TRUE, !.status = "DELETED"]
<1>1. /\ ReqOK(req[q], survey) /\ req[q].pc = "repair" /\ req[q].op = "delete"
      /\ survey \in [Rows -> Survey] /\ UniqueIds(survey) /\ IdCarriesNumber
      /\ Fail(q) /\ UNCHANGED <<exec, queue, starts>>
      /\ survey' = [survey EXCEPT ![r].gone = TRUE, ![r].status = "DELETED"]
  BY DEF RegistryInv, RegistryTypeOK, Remove, Ready, jobs
<1>2. r \in Rows /\ survey[r].on /\ survey[r] \in Survey
  BY <1>1 DEF ReqOK
<1>3. survey' = [survey EXCEPT ![r] = v]
  BY <1>1, <1>2
<1>4. v \in Survey /\ v.on /\ v.id = survey[r].id /\ v.num = survey[r].num
  BY <1>2 DEF Survey
<1>5. \A m \in Rows \ {r} : ~(survey[m].on /\ survey[m].id = v.id)
  BY <1>1, <1>2, <1>4 DEF UniqueIds
<1>6. v.id[2] = v.num
  BY <1>1, <1>2, <1>4 DEF IdCarriesNumber
<1> HIDE DEF v, r
<1>7. Writes(r, v)
  BY <1>2, <1>3, <1>4, <1>5, <1>6 DEF Writes, Written
<1> QED
  BY <1>1, <1>7, FailMoves

LEMMA CreateCheckMoves ==
    ASSUME RegistryInv, NEW q \in Reqs, CreateCheck(q)
    PROVE  PageMoves(q)
<1>1. /\ req[q] \in Request /\ ReqOK(req[q], survey) /\ req \in [Reqs -> Request]
      /\ UNCHANGED <<survey, exec, queue, starts>>
  BY DEF RegistryInv, RegistryTypeOK, CreateCheck, registry, jobs
<1>2. CASE UNCHANGED req
  BY <1>1, <1>2 DEF PageMoves
<1>3. ASSUME NEW w \in Wards, NEW m \in Nums, NEW u \in Uses, NEW v \in Vals, NEW x \in Others,
             req' = [req EXCEPT ![q] = [NoReq EXCEPT !.op = "create", !.pc = "insert",
                        !.want = {[ward |-> w, num |-> m, use |-> u, val |-> v, x |-> x]}]]
      PROVE  PageMoves(q)
  <2> DEFINE f == [ward |-> w, num |-> m, use |-> u, val |-> v, x |-> x]
             n == [NoReq EXCEPT !.op = "create", !.pc = "insert", !.want = {f}]
  <2>1. f \in Form /\ f.val \in Vals
    BY DEF Form
  <2>2. req' = [req EXCEPT ![q] = n]
    BY <1>3
  <2> HIDE DEF f
  <2>3. n \in Request /\ ReqOK(n, survey)
    BY <2>1, NoReqOK DEF NoReq, Request, ReqOK, OpNames
  <2> HIDE DEF n
  <2> QED
    BY <1>1, <2>2, <2>3 DEF PageMoves
<1> QED
  BY <1>2, <1>3 DEF CreateCheck

(* A new row: its id was free, or the index refuses. *)
LEMMA NewRowOK ==
    ASSUME NEW id \in Ids, id[1] \in Wards, NEW v \in Vals, NEW x \in Others
    PROVE  /\ NewRow(id, v, x) \in Survey /\ NewRow(id, v, x).on /\ ~NewRow(id, v, x).gone
           /\ NewRow(id, v, x).id = id /\ NewRow(id, v, x).num = id[2]
BY IdParts DEF NewRow, Survey

LEMMA CreateInsertMoves ==
    ASSUME RegistryInv, NEW q \in Reqs, CreateInsert(q)
    PROVE  PageMoves(q)
<1> DEFINE w == CHOOSE f \in req[q].want : TRUE
           id == GenerateSurveyId(w.ward, w.num, w.use)
<1>1. Fail(q) /\ UNCHANGED <<exec, queue, starts>>
  BY DEF CreateInsert, jobs
<1>2. CASE Holder(id) # {} \/ Free = {}
  BY <1>1, <1>2, FailMoves DEF CreateInsert, registry
<1>3. CASE ~(Holder(id) # {} \/ Free = {})
  <2> DEFINE r == CHOOSE n \in Free : TRUE
             v == NewRow(id, w.val, w.x)
  <2>1. survey' = [survey EXCEPT ![r] = v]
    BY <1>3 DEF CreateInsert
  <2>2. r \in Rows
    BY <1>3 DEF Free
  <2>3. w \in Form /\ w.val \in Vals
    <3>1. req[q] \in Request /\ ReqOK(req[q], survey) /\ req[q].pc = "insert"
      BY DEF RegistryInv, RegistryTypeOK, CreateInsert
    <3> QED
      BY <3>1 DEF ReqOK, Request
  <2> HIDE DEF w, r
  <2>4. w.ward \in Wards /\ w.num \in Nums /\ w.use \in Uses /\ w.x \in Others
    BY <2>3 DEF Form
  <2>5. id \in Ids /\ id[1] \in Wards
    BY <2>4, IdMade
  <2>6. v \in Survey /\ v.on /\ ~v.gone /\ v.id = id /\ v.num = id[2]
    BY <2>3, <2>4, <2>5, NewRowOK
  <2>7. \A m \in Rows \ {r} : ~(survey[m].on /\ survey[m].id = v.id)
    BY <1>3, <2>6 DEF Holder
  <2> HIDE DEF v, id
  <2>8. Writes(r, v)
    BY <2>1, <2>2, <2>6, <2>7 DEF Writes, Written
  <2> QED
    BY <1>1, <2>8, FailMoves
<1> QED
  BY <1>2, <1>3

LEMMA OperatorMoves ==
    ASSUME RegistryInv, NEW q \in Reqs, Operator(q)
    PROVE  PageMoves(q)
BY AskMoves, FindMoves, RepairMoves, FormMoves, PatchMoves, RemoveMoves, CreateCheckMoves, CreateInsertMoves
   DEF Operator, ListSurveys, OpenSurvey, OpenForm, DeleteSurvey, ArchiveOrRestore

-----------------------------------------------------------------------------
(* Executions of imports.                                                  *)

(* What a step of an execution does. *)
JobMoves(e) ==
    /\ \E x \in Execution : ExecOK(x, survey) /\ exec' = [exec EXCEPT ![e] = x]
    /\ \/ UNCHANGED survey
       \/ \E r, v : Writes(r, v)
       \/ \E O \in SUBSET Rows : /\ \A r \in O : survey[r].on
                                /\ Cardinality(O) <= PruneCap(Cardinality(Rows))
                                /\ Pruned(survey, survey', O)
    /\ queue' \subseteq Jobs \X BOOLEAN \X Nat \X Nat /\ starts' \in Nat
    /\ UNCHANGED req

LEMMA NoOrphans == Cardinality({}) <= PruneCap(Cardinality(Rows))
BY CapOfAll, FS_EmptySet

LEMMA NoExecOK ==
    /\ NoExec \in Execution /\ ExecOK(NoExec, survey)
    /\ NoExec.dup = {} /\ NoExec.orphans = {}
BY NoOrphans DEF NoExec, Execution, Plans, ExecOK

(* An execution that has not read anything. *)
LEMMA FreshOK ==
    ASSUME NEW x \in Execution, x.dup = {}, x.orphans = {}, x.pc \in {"enqueue", "begin"}, x.job \in Jobs
    PROVE  ExecOK(x, survey)
BY NoOrphans DEF ExecOK

(* An execution begins, ends or is lost. *)
LEMMA EndMoves ==
    ASSUME RegistryInv, NEW e \in Execs, exec' = [exec EXCEPT ![e] = NoExec], UNCHANGED <<survey, req>>,
           queue' \subseteq Jobs \X BOOLEAN \X Nat \X Nat, starts' \in Nat
    PROVE  JobMoves(e)
BY NoExecOK DEF JobMoves

LEMMA StartMoves ==
    ASSUME RegistryInv, NEW t, NEW j \in Jobs, NEW e \in Execs, Start(t, j, e) \/ Reprocess(e, j)
    PROVE  JobMoves(e)
<1>1. starts \in Nat /\ queue \subseteq Jobs \X BOOLEAN \X Nat \X Nat
  BY DEF RegistryInv, RegistryTypeOK
<1>2. UNCHANGED <<survey, req, queue>> /\ starts' = starts + 1
  BY Zenon DEF Start, Reprocess, registry
<1>3. PICK x \in Execution : /\ exec' = [exec EXCEPT ![e] = x]
                            /\ x.dup = {} /\ x.orphans = {} /\ x.pc \in {"enqueue", "begin"} /\ x.job \in Jobs
  <2>1. CASE Start(t, j, e)
    <3>1. PICK p \in BOOLEAN :
             exec' = [exec EXCEPT ![e] = [NoExec EXCEPT !.pc = "enqueue", !.job = j, !.prune = p]]
      BY <2>1 DEF Start
    <3> DEFINE n == [NoExec EXCEPT !.pc = "enqueue", !.job = j, !.prune = p]
    <3>2. n \in Execution /\ n.dup = {} /\ n.orphans = {} /\ n.pc = "enqueue" /\ n.job = j
      BY NoExecOK DEF Execution
    <3> HIDE DEF n
    <3> QED
      BY <3>1, <3>2 DEF n
  <2>2. CASE Reprocess(e, j)
    <3> DEFINE n == [NoExec EXCEPT !.pc = "begin", !.job = j]
    <3>1. exec' = [exec EXCEPT ![e] = n]
      BY <2>2 DEF Reprocess
    <3>2. n \in Execution /\ n.dup = {} /\ n.orphans = {} /\ n.pc = "begin" /\ n.job = j
      BY NoExecOK DEF Execution
    <3> HIDE DEF n
    <3> QED
      BY <3>1, <3>2
  <2> QED
    BY <2>1, <2>2
<1>4. starts' \in Nat /\ queue' \subseteq Jobs \X BOOLEAN \X Nat \X Nat
  BY <1>1, <1>2
<1>5. ExecOK(x, survey)
  BY <1>3, FreshOK
<1> QED
  BY <1>2, <1>3, <1>4, <1>5 DEF JobMoves

LEMMA QueueMoves ==
    ASSUME RegistryInv, NEW e \in Execs,
           Enqueue(e) \/ Take(e) \/ Begin(e) \/ JobThrows(e) \/ Finish(e) \/ Crash(e)
    PROVE  JobMoves(e)
<1> DEFINE x == exec[e]
           Q == Jobs \X BOOLEAN \X Nat \X Nat
<1>1. /\ starts \in Nat /\ queue \subseteq Q /\ x \in Execution /\ ExecOK(x, survey)
      /\ exec \in [Execs -> Execution]
  BY DEF RegistryInv, RegistryTypeOK
<1>2. UNCHANGED <<survey, req, starts>>
  BY DEF Enqueue, Take, Begin, JobThrows, Finish, Crash, registry
<1>3. x.pc # "idle" => x.job \in Jobs
  BY <1>1 DEF ExecOK
<1>4. x.prune \in BOOLEAN /\ x.stalls \in Nat
  BY <1>1 DEF Execution
<1>5. CASE Enqueue(e)
  <2>1. CASE queueUp
    <3>1. exec' = [exec EXCEPT ![e] = NoExec] /\ queue' = queue \cup {<<x.job, x.prune, 0, starts>>} /\ x.pc # "idle"
      BY <1>5, <2>1 DEF Enqueue
    <3>2. <<x.job, x.prune, 0, starts>> \in Q
      BY <1>1, <1>3, <1>4, <3>1
    <3>3. queue' \subseteq Q
      BY <1>1, <3>1, <3>2
    <3> QED
      BY <1>1, <1>2, <3>1, <3>3, EndMoves
  <2>2. CASE ~queueUp
    <3> DEFINE n == [x EXCEPT !.pc = "begin"]
    <3>1. exec' = [exec EXCEPT ![e] = n] /\ queue' = queue /\ x.pc # "idle"
      BY <1>1, <1>5, <2>2 DEF Enqueue
    <3> HIDE DEF x
    <3>2. n \in Execution /\ ExecOK(n, survey)
      BY <1>1, <1>3, <3>1 DEF Execution, ExecOK
    <3> HIDE DEF n
    <3> QED
      BY <1>1, <1>2, <3>1, <3>2 DEF JobMoves
  <2> QED
    BY <2>1, <2>2
<1>6. CASE Take(e)
  <2>1. PICK m \in queue :
           /\ queue' = queue \ {m}
           /\ exec' = [exec EXCEPT ![e] = [NoExec EXCEPT !.pc = "begin", !.job = m[1], !.prune = m[2],
                                           !.stalls = m[3], !.queued = TRUE]]
    BY <1>6 DEF Take
  <2>2. m[1] \in Jobs /\ m[2] \in BOOLEAN /\ m[3] \in Nat
    BY <1>1
  <2> DEFINE n == [NoExec EXCEPT !.pc = "begin", !.job = m[1], !.prune = m[2], !.stalls = m[3],
                                 !.queued = TRUE]
  <2>3. n \in Execution /\ n.dup = {} /\ n.orphans = {} /\ n.pc = "begin" /\ n.job = m[1]
    BY <2>2, NoExecOK DEF Execution
  <2>4. exec' = [exec EXCEPT ![e] = n] /\ queue' \subseteq Q
    BY <1>1, <2>1
  <2> HIDE DEF n
  <2> QED
    BY <1>1, <1>2, <2>2, <2>3, <2>4, FreshOK DEF JobMoves
<1>7. CASE Begin(e)
  <2> DEFINE new == PreviewedNew(x.job)
             plan == job[x.job].strategy
             n == [x EXCEPT !.pc = "row", !.strategy = plan, !.new = new]
  <2>1. exec' = [exec EXCEPT ![e] = n] /\ queue' = queue /\ x.pc # "idle"
    BY <1>1, <1>7 DEF Begin
  <2>2. new \in SUBSET Nat
    BY DEF PreviewedNew
  <2>4. plan \in Plans
    BY <1>3, <2>1 DEF RegistryInv, RegistryTypeOK, JobRow
  <2> HIDE DEF x, new, plan
  <2>3. n \in Execution /\ ExecOK(n, survey)
    BY <1>1, <1>3, <2>1, <2>2, <2>4 DEF Execution, ExecOK
  <2> HIDE DEF n
  <2> QED
    BY <1>1, <1>2, <2>1, <2>3 DEF JobMoves
<1>8. CASE JobThrows(e) \/ Finish(e)
  <2>1. exec' = [exec EXCEPT ![e] = NoExec] /\ queue' = queue
    BY <1>8 DEF JobThrows, Finish
  <2> QED
    BY <1>1, <1>2, <2>1, EndMoves
<1>9. CASE Crash(e)
  <2>1. exec' = [exec EXCEPT ![e] = NoExec] /\ x.pc # "idle"
        /\ (queue' = queue \/ queue' = queue \cup {<<x.job, x.prune, 1, 0>>})
    BY <1>9 DEF Crash
  <2>2. <<x.job, x.prune, 1, 0>> \in Q
    BY <1>3, <1>4, <2>1
  <2>3. queue' \subseteq Q
    BY <1>1, <2>1, <2>2
  <2> QED
    BY <1>1, <1>2, <2>1, <2>3, EndMoves
<1> QED
  BY <1>5, <1>6, <1>7, <1>8, <1>9

(* The row of the workbook an execution is at. *)
LEMMA FileRowOK ==
    ASSUME RegistryInv, NEW e \in Execs, exec[e].pc \in {"row", "apply"},
           exec[e].i <= Len(Files[exec[e].job])
    PROVE  Files[exec[e].job][exec[e].i] \in FileRow
<1>1. exec[e] \in Execution /\ ExecOK(exec[e], survey)
  BY DEF RegistryInv, RegistryTypeOK
<1>2. exec[e].job \in Jobs /\ exec[e].i \in Nat \ {0}
  BY <1>1 DEF Execution, ExecOK
<1>3. Files[exec[e].job] \in Seq(FileRow)
  BY <1>2, SurveyConstants
<1> QED
  BY <1>2, <1>3

(* The id of a row of the sheet, and the survey it makes. *)
LEMMA RewrittenOK ==
    ASSUME NEW f \in FileRow
    PROVE  LET id == ResolveImportSurveyId(f)  v == Rewritten(f) IN
           /\ id \in Ids /\ v \in Survey /\ v.on /\ ~v.gone /\ v.id = id /\ v.id[2] = v.num
           /\ f.ward \in Wards
<1>1. f.ward \in Wards /\ f.num \in Nums /\ f.raw[3] \in Uses /\ f.val \in Vals /\ f.x \in Others
  BY IdParts DEF FileRow
<1>2. /\ ResolveImportSurveyId(f) \in Ids /\ ResolveImportSurveyId(f)[1] = f.ward
      /\ ResolveImportSurveyId(f)[2] = f.num
  BY <1>1, IdMade DEF ResolveImportSurveyId
<1> QED
  BY <1>1, <1>2, NewRowOK DEF Rewritten

LEMMA DuplicateOK ==
    ASSUME survey \in [Rows -> Survey], NEW f
    PROVE  \A r \in FindImportDuplicate(f) : r \in Rows /\ survey[r].on
<1> DEFINE same == {r \in Rows : Live(r) /\ survey[r].ward = f.ward /\ survey[r].num = f.num}
<1>1. \A k : \A r \in Holder(k) : r \in Rows /\ survey[r].on
  BY DEF Holder
<1>2. \A r \in same : r \in Rows /\ survey[r].on
  BY DEF Live
<1>3. FindImportDuplicate(f) \in {Holder(ResolveImportSurveyId(f)), Holder(f.raw), {}}
         \/ (same # {} /\ FindImportDuplicate(f) = {CHOOSE r \in same : TRUE})
  BY DEF FindImportDuplicate
<1> HIDE DEF same
<1> QED
  BY <1>1, <1>2, <1>3

LEMMA ReadRowMoves ==
    ASSUME RegistryInv, NEW e \in Execs, ReadRow(e)
    PROVE  JobMoves(e)
<1> DEFINE x == exec[e]
           f == Files[x.job][x.i]
           dup == {<<r, survey[r]>> : r \in FindImportDuplicate(f)}
<1>1. /\ starts \in Nat /\ queue \subseteq Jobs \X BOOLEAN \X Nat \X Nat
      /\ x \in Execution /\ ExecOK(x, survey) /\ survey \in [Rows -> Survey]
      /\ exec \in [Execs -> Execution]
  BY DEF RegistryInv, RegistryTypeOK
<1>2. UNCHANGED <<survey, req, starts, queue>> /\ x.pc = "row" /\ x.i <= Len(Files[x.job])
  BY DEF ReadRow, registry
<1>3. x.i \in Nat \ {0} /\ x.bad \in Nat
  BY <1>1 DEF Execution
<1>4. CASE f.ok
  <2> DEFINE n == [x EXCEPT !.pc = "apply", !.dup = dup]
  <2>1. exec' = [exec EXCEPT ![e] = n]
    BY <1>1, <1>4 DEF ReadRow
  <2>2. dup \in SUBSET (Rows \X Survey) /\ \A d \in dup : survey[d[1]].on
    BY <1>1, DuplicateOK
  <2> HIDE DEF x, dup
  <2>3. /\ n \in Execution /\ n.pc = "apply" /\ n.dup = dup /\ n.job = x.job /\ n.i = x.i
        /\ n.orphans = x.orphans
    BY <1>1, <2>2 DEF Execution
  <2> HIDE DEF n
  <2>4. ExecOK(n, survey)
    BY <1>1, <1>2, <2>2, <2>3 DEF ExecOK
  <2> QED
    BY <1>1, <1>2, <2>1, <2>3, <2>4 DEF JobMoves
<1>5. CASE ~f.ok
  <2> DEFINE n == [x EXCEPT !.i = x.i + 1, !.bad = x.bad + 1]
  <2>1. exec' = [exec EXCEPT ![e] = n]
    BY <1>1, <1>5 DEF ReadRow
  <2> HIDE DEF x
  <2>2. x.i + 1 \in Nat \ {0} /\ x.bad + 1 \in Nat
    BY <1>3
  <2>3. /\ n \in Execution /\ n.pc = x.pc /\ n.dup = x.dup /\ n.job = x.job /\ n.orphans = x.orphans
    BY <1>1, <2>2 DEF Execution
  <2> HIDE DEF n
  <2>4. ExecOK(n, survey)
    BY <1>1, <1>2, <2>3 DEF ExecOK
  <2> QED
    BY <1>1, <1>2, <2>1, <2>3, <2>4 DEF JobMoves
<1> QED
  BY <1>4, <1>5

(* What becomes of an execution when a row of the sheet is over. *)
LEMMA RowOver ==
    ASSUME RegistryInv, NEW e \in Execs, exec[e].pc = "apply",
           RowFails(e) \/ \E r \in Rows : Done(e, r)
    PROVE  \E x \in Execution : ExecOK(x, survey) /\ exec' = [exec EXCEPT ![e] = x]
<1> DEFINE x == exec[e]
           f == Files[x.job][x.i]
<1>1. x \in Execution /\ ExecOK(x, survey) /\ exec \in [Execs -> Execution]
  BY DEF RegistryInv, RegistryTypeOK
<1>2. f \in FileRow
  BY <1>1, FileRowOK DEF ExecOK
<1>3. f.ward \in Wards
  BY <1>2 DEF FileRow
<1>4. /\ x.i \in Nat \ {0} /\ x.bad \in Nat /\ x.good \in Nat /\ x.touched \in SUBSET Rows
      /\ x.wards \in SUBSET Wards
  BY <1>1 DEF Execution
<1>5. x.i + 1 \in Nat \ {0} /\ x.bad + 1 \in Nat /\ x.good + 1 \in Nat
  BY <1>4
<1>6. CASE RowFails(e)
  <2> DEFINE n == [x EXCEPT !.pc = "row", !.i = x.i + 1, !.dup = {}, !.bad = x.bad + 1]
  <2>1. exec' = [exec EXCEPT ![e] = n]
    BY <1>1, <1>6 DEF RowFails
  <2> HIDE DEF x
  <2>2. n \in Execution /\ n.pc = "row" /\ n.dup = {} /\ n.job = x.job /\ n.orphans = x.orphans
    BY <1>1, <1>5 DEF Execution
  <2> HIDE DEF n
  <2>3. ExecOK(n, survey)
    BY <1>1, <2>2 DEF ExecOK, x
  <2> QED
    BY <2>1, <2>2, <2>3
<1>7. ASSUME NEW r \in Rows, Done(e, r)
      PROVE  \E y \in Execution : ExecOK(y, survey) /\ exec' = [exec EXCEPT ![e] = y]
  <2> DEFINE touched == x.touched \cup {r}
             wards == x.wards \cup {f.ward}
             n == [x EXCEPT !.pc = "row", !.i = x.i + 1, !.dup = {}, !.good = x.good + 1,
                            !.touched = touched, !.wards = wards]
  <2>1. exec' = [exec EXCEPT ![e] = n]
    BY <1>1, <1>7 DEF Done
  <2>2. touched \in SUBSET Rows /\ wards \in SUBSET Wards
    BY <1>3, <1>4
  <2> HIDE DEF x, touched, wards
  <2>3. n \in Execution /\ n.pc = "row" /\ n.dup = {} /\ n.job = x.job /\ n.orphans = x.orphans
    BY <1>1, <1>5, <2>2 DEF Execution
  <2> HIDE DEF n
  <2>4. ExecOK(n, survey)
    BY <1>1, <2>3 DEF ExecOK, x
  <2> QED
    BY <2>1, <2>3, <2>4
<1> QED
  BY <1>6, <1>7

LEMMA KeepMoves ==
    ASSUME RegistryInv, NEW e \in Execs, Keep(e)
    PROVE  JobMoves(e)
<1>1. PICK d \in exec[e].dup : Done(e, d[1])
  BY DEF Keep
<1>2. /\ starts \in Nat /\ queue \subseteq Jobs \X BOOLEAN \X Nat \X Nat /\ exec[e] \in Execution
  BY DEF RegistryInv, RegistryTypeOK
<1>3. UNCHANGED <<survey, req, starts, queue>> /\ exec[e].pc = "apply"
  BY DEF Keep, registry
<1>4. d[1] \in Rows
  BY <1>2 DEF Execution
<1>5. \E x \in Execution : ExecOK(x, survey) /\ exec' = [exec EXCEPT ![e] = x]
  BY <1>1, <1>3, <1>4, RowOver
<1> QED
  BY <1>2, <1>3, <1>5 DEF JobMoves

(* The file's row goes into a row of the table that may have its id. *)
LEMMA RewriteWrites ==
    ASSUME RegistryInv, NEW f \in FileRow, NEW r \in Rows,
           \A n \in Rows \ {r} : ~(survey[n].on /\ survey[n].id = ResolveImportSurveyId(f)),
           survey' = [survey EXCEPT ![r] = Rewritten(f)]
    PROVE  \E n, v : Writes(n, v)
<1> DEFINE v == Rewritten(f)
<1>1. v \in Survey /\ v.on /\ ~v.gone /\ v.id = ResolveImportSurveyId(f) /\ v.id[2] = v.num
  BY RewrittenOK
<1>2. survey' = [survey EXCEPT ![r] = v]
  OBVIOUS
<1> HIDE DEF v
<1>3. Writes(r, v)
  BY <1>1, <1>2 DEF Writes, Written
<1> QED
  BY <1>3

LEMMA UpdateMoves ==
    ASSUME RegistryInv, NEW e \in Execs, Update(e)
    PROVE  JobMoves(e)
<1> DEFINE x == exec[e]
           f == Files[x.job][x.i]
<1>1. /\ starts \in Nat /\ queue \subseteq Jobs \X BOOLEAN \X Nat \X Nat /\ x \in Execution
      /\ ExecOK(x, survey)
  BY DEF RegistryInv, RegistryTypeOK
<1>2. UNCHANGED <<req, starts, queue>> /\ x.pc = "apply"
  BY DEF Update
<1>3. f \in FileRow
  BY <1>1, <1>2, FileRowOK DEF ExecOK
<1>4. PICK d \in x.dup :
         IF TakenBy(ResolveImportSurveyId(f), d[1])
         THEN RowFails(e) /\ UNCHANGED registry
         ELSE /\ survey' = [survey EXCEPT ![d[1]] = Rewritten(f)]
              /\ Done(e, d[1])
  BY DEF Update
<1>5. d[1] \in Rows
  BY <1>1 DEF Execution
<1>6. RowFails(e) \/ \E r \in Rows : Done(e, r)
  BY <1>4, <1>5
<1>7. \E y \in Execution : ExecOK(y, survey) /\ exec' = [exec EXCEPT ![e] = y]
  BY <1>2, <1>6, RowOver
<1>8. UNCHANGED survey \/ \E n, v : Writes(n, v)
  <2>1. CASE TakenBy(ResolveImportSurveyId(f), d[1])
    BY <1>4, <2>1 DEF registry
  <2>2. CASE ~TakenBy(ResolveImportSurveyId(f), d[1])
    <3>1. \A n \in Rows \ {d[1]} : ~(survey[n].on /\ survey[n].id = ResolveImportSurveyId(f))
      BY <2>2 DEF TakenBy, Holder
    <3>2. survey' = [survey EXCEPT ![d[1]] = Rewritten(f)]
      BY <1>4, <2>2
    <3> QED
      BY <1>3, <1>5, <3>1, <3>2, RewriteWrites
  <2> QED
    BY <2>1, <2>2
<1> QED
  BY <1>1, <1>2, <1>7, <1>8 DEF JobMoves

LEMMA InsertMoves ==
    ASSUME RegistryInv, NEW e \in Execs, Insert(e)
    PROVE  JobMoves(e)
<1> DEFINE x == exec[e]
           f == Files[x.job][x.i]
           id == ResolveImportSurveyId(f)
<1>1. /\ starts \in Nat /\ queue \subseteq Jobs \X BOOLEAN \X Nat \X Nat /\ x \in Execution
      /\ ExecOK(x, survey) /\ UniqueIds(survey)
  BY DEF RegistryInv, RegistryTypeOK
<1>2. UNCHANGED <<req, starts, queue>> /\ x.pc = "apply" /\ (Holder(id) # {} \/ Free # {})
  BY DEF Insert
<1>3. f \in FileRow
  BY <1>1, <1>2, FileRowOK DEF ExecOK
<1>4. PICK r \in IF Holder(id) = {} THEN {CHOOSE n \in Free : TRUE} ELSE Holder(id) :
         survey' = [survey EXCEPT ![r] = Rewritten(f)] /\ Done(e, r)
  BY DEF Insert
<1> HIDE DEF f
<1>5. r \in Rows /\ \A n \in Rows \ {r} : ~(survey[n].on /\ survey[n].id = id)
  <2>1. CASE Holder(id) = {}
    <3>1. Free # {} /\ r = CHOOSE n \in Free : TRUE
      BY <1>2, <1>4, <2>1
    <3>2. r \in Free
      BY <3>1
    <3>3. r \in Rows
      BY <3>2 DEF Free
    <3>4. \A n \in Rows : ~(survey[n].on /\ survey[n].id = id)
      BY <2>1 DEF Holder
    <3> QED
      BY <3>3, <3>4
  <2>2. CASE Holder(id) # {}
    <3>1. r \in Holder(id)
      BY <1>4, <2>2
    <3> QED
      BY <1>1, <3>1 DEF Holder, UniqueIds
  <2> QED
    BY <2>1, <2>2
<1>6. \E y \in Execution : ExecOK(y, survey) /\ exec' = [exec EXCEPT ![e] = y]
  BY <1>2, <1>4, <1>5, RowOver
<1>7. \E n, v : Writes(n, v)
  BY <1>3, <1>4, <1>5, RewriteWrites
<1> QED
  BY <1>1, <1>2, <1>6, <1>7 DEF JobMoves

(* What is pruned was counted against a cap of a part of the table. *)
LEMMA CapGrows ==
    ASSUME NEW S \in SUBSET Rows, NEW n \in Nat, n <= PruneCap(Cardinality(S))
    PROVE  n <= PruneCap(Cardinality(Rows))
<1>1. /\ Cardinality(S) \in Nat /\ Cardinality(Rows) \in Nat
      /\ Cardinality(S) <= Cardinality(Rows)
  BY FS_Subset, FS_CardinalityType, SurveyConstants
<1>2. /\ (Cardinality(S) * 2 + 99) \div 100 \in Nat /\ (Cardinality(Rows) * 2 + 99) \div 100 \in Nat
      /\ (Cardinality(S) * 2 + 99) \div 100 <= (Cardinality(Rows) * 2 + 99) \div 100
  BY <1>1
<1> QED
  BY <1>2, SurveyConstants DEF PruneCap

LEMMA ListOrphansMoves ==
    ASSUME RegistryInv, NEW e \in Execs, ListOrphans(e)
    PROVE  JobMoves(e)
<1> DEFINE x == exec[e]
           orphans == IF MayPrune(Cardinality(Orphans(x)), Cardinality(x.touched)) THEN Orphans(x) ELSE {}
           n == [x EXCEPT !.pc = "finish", !.orphans = orphans]
<1>1. /\ starts \in Nat /\ queue \subseteq Jobs \X BOOLEAN \X Nat \X Nat /\ x \in Execution
      /\ ExecOK(x, survey) /\ exec \in [Execs -> Execution]
  BY DEF RegistryInv, RegistryTypeOK
<1>2. UNCHANGED <<survey, req, starts, queue>> /\ x.pc = "row" /\ exec' = [exec EXCEPT ![e] = n]
  BY <1>1 DEF ListOrphans, registry
<1>3. Orphans(x) \in SUBSET Rows /\ \A r \in Orphans(x) : survey[r].on
  BY DEF Orphans, Live
<1>4. x.touched \in SUBSET Rows
  BY <1>1 DEF Execution
<1>5. Cardinality(orphans) <= PruneCap(Cardinality(Rows))
  <2>1. CASE MayPrune(Cardinality(Orphans(x)), Cardinality(x.touched))
    <3>1. Cardinality(Orphans(x)) \in Nat
      BY <1>3, FS_Subset, FS_CardinalityType, SurveyConstants
    <3>2. Cardinality(Orphans(x)) <= PruneCap(Cardinality(x.touched))
      BY <2>1 DEF MayPrune
    <3> QED
      BY <1>4, <2>1, <3>1, <3>2, CapGrows
  <2>2. CASE ~MayPrune(Cardinality(Orphans(x)), Cardinality(x.touched))
    BY <2>2, NoOrphans
  <2> QED
    BY <2>1, <2>2
<1>6. orphans \in SUBSET Rows /\ \A r \in orphans : survey[r].on
  BY <1>3
<1>7. x.job \in Jobs /\ \A d \in x.dup : survey[d[1]].on
  BY <1>1, <1>2 DEF ExecOK
<1> HIDE DEF x, orphans
<1>8. n \in Execution /\ n.pc = "finish" /\ n.dup = x.dup /\ n.job = x.job /\ n.orphans = orphans
  BY <1>1, <1>6 DEF Execution
<1> HIDE DEF n
<1>9. ExecOK(n, survey)
  BY <1>5, <1>6, <1>7, <1>8 DEF ExecOK
<1> QED
  BY <1>1, <1>2, <1>8, <1>9 DEF JobMoves

LEMMA PruneOrphansMoves ==
    ASSUME RegistryInv, NEW e \in Execs, PruneOrphans(e)
    PROVE  JobMoves(e)
<1> DEFINE x == exec[e]
           n == [x EXCEPT !.orphans = {}]
<1>1. /\ starts \in Nat /\ queue \subseteq Jobs \X BOOLEAN \X Nat \X Nat /\ x \in Execution
      /\ ExecOK(x, survey) /\ exec \in [Execs -> Execution]
  BY DEF RegistryInv, RegistryTypeOK
<1>2. UNCHANGED <<req, starts, queue>> /\ exec' = [exec EXCEPT ![e] = n] /\ Pruned(survey, survey', x.orphans)
  BY <1>1 DEF PruneOrphans, Pruned
<1>3. x.orphans \in SUBSET Rows
  BY <1>1 DEF Execution
<1>4. (\A r \in x.orphans : survey[r].on) /\ Cardinality(x.orphans) <= PruneCap(Cardinality(Rows))
  BY <1>1 DEF ExecOK
<1> HIDE DEF x
<1>5. n \in Execution /\ n.pc = x.pc /\ n.dup = x.dup /\ n.job = x.job /\ n.orphans = {} /\ n.i = x.i
  BY <1>1 DEF Execution
<1> HIDE DEF n
<1>6. ExecOK(n, survey)
  BY <1>1, <1>5, NoOrphans DEF ExecOK
<1> QED
  BY <1>1, <1>2, <1>3, <1>4, <1>5, <1>6 DEF JobMoves

LEMMA ProcessMoves ==
    ASSUME RegistryInv, NEW e \in Execs, Process(e) \/ JobThrows(e) \/ Crash(e)
    PROVE  JobMoves(e)
BY QueueMoves, ReadRowMoves, KeepMoves, UpdateMoves, InsertMoves, ListOrphansMoves, PruneOrphansMoves
   DEF Process

-----------------------------------------------------------------------------
(* The invariant is inductive.                                             *)

(* What was read of a row stays true of it when the table's rows stay. *)
RowsStay == \A r \in Rows : survey[r].on => survey'[r].on

LEMMA Stays ==
    ASSUME RowsStay
    PROVE  /\ \A k \in Request : ReqOK(k, survey) => ReqOK(k, survey')
           /\ \A x \in Execution : ExecOK(x, survey) => ExecOK(x, survey')
<1>1. ASSUME NEW k \in Request, ReqOK(k, survey)
      PROVE  ReqOK(k, survey')
  <2>1. k.todo \subseteq Rows \X Survey
    BY DEF Request
  <2>2. \A t \in k.todo : t[1] \in Rows
    BY <2>1
  <2> QED
    BY <1>1, <2>2 DEF RowsStay, ReqOK
<1>2. ASSUME NEW x \in Execution, ExecOK(x, survey)
      PROVE  ExecOK(x, survey')
  <2>1. x.dup \subseteq Rows \X Survey /\ x.orphans \subseteq Rows
    BY DEF Execution
  <2>2. \A d \in x.dup : d[1] \in Rows
    BY <2>1
  <2> QED
    BY <1>2, <2>1, <2>2 DEF RowsStay, ExecOK
<1> QED
  BY <1>1, <1>2

(* The three things that happen to the table, and what they are to the     *)
(* abstract registry.                                                      *)
Table == /\ survey' \in [Rows -> Survey] /\ UniqueIds(survey') /\ RowsStay /\ IdCarriesNumber'
         /\ Registered!Change \/ UNCHANGED Registration

LEMMA SameTable ==
    ASSUME RegistryInv, UNCHANGED survey
    PROVE  Table
<1>1. Registration' = Registration
  BY RegistrationIs, RegistrationNext
<1> QED
  BY <1>1 DEF Table, RowsStay, RegistryInv, RegistryTypeOK, IdCarriesNumber

LEMMA WrittenTable ==
    ASSUME RegistryInv, NEW r, NEW v, Writes(r, v)
    PROVE  Table
<1>1. /\ survey \in [Rows -> Survey] /\ UniqueIds(survey) /\ IdCarriesNumber
      /\ Written(survey, survey', r, v)
  BY DEF RegistryInv, RegistryTypeOK, Writes
<1>2. /\ survey' \in [Rows -> Survey] /\ UniqueIds(survey')
      /\ survey'[r] = v /\ \A n \in Rows \ {r} : survey'[n] = survey[n]
  BY <1>1, WrittenKeeps
<1>3. v.on /\ v.id[2] = v.num
  BY DEF Writes, Written
<1>4. RowsStay /\ IdCarriesNumber'
  BY <1>1, <1>2, <1>3 DEF RowsStay, IdCarriesNumber
<1>5. Registered!Change \/ UNCHANGED Registration
  BY <1>1, WrittenIsChange DEF Writes
<1> QED
  BY <1>2, <1>4, <1>5 DEF Table

LEMMA PrunedTable ==
    ASSUME RegistryInv, NEW O \in SUBSET Rows, \A r \in O : survey[r].on,
           Cardinality(O) <= PruneCap(Cardinality(Rows)), Pruned(survey, survey', O)
    PROVE  Table
<1>1. survey \in [Rows -> Survey] /\ UniqueIds(survey) /\ IdCarriesNumber
  BY DEF RegistryInv, RegistryTypeOK
<1>2. /\ survey' \in [Rows -> Survey] /\ UniqueIds(survey')
      /\ \A r \in Rows : /\ survey'[r].on = survey[r].on /\ survey'[r].id = survey[r].id
                        /\ survey'[r].num = survey[r].num
  BY <1>1, PrunedKeeps
<1>3. RowsStay /\ IdCarriesNumber'
  BY <1>1, <1>2 DEF RowsStay, IdCarriesNumber
<1>4. Registered!Change
  BY <1>1, PrunedIsChange
<1> QED
  BY <1>2, <1>3, <1>4 DEF Table

LEMMA NextMoves ==
    ASSUME RegistryInv, Next
    PROVE  \/ \E q \in Reqs : PageMoves(q)
           \/ \E e \in Execs : JobMoves(e)
           \/ UNCHANGED <<survey, req, exec, queue, starts>>
<1>1. CASE \E q \in Reqs : Operator(q)
  BY <1>1, OperatorMoves
<1>2. CASE \E e \in Execs : Process(e) \/ JobThrows(e) \/ Crash(e)
  BY <1>2, ProcessMoves
<1>3. CASE \E e \in Execs, j \in Jobs : Reprocess(e, j)
  BY <1>3, StartMoves
<1>4. ASSUME NEW t \in Tabs, NEW j \in Jobs, Upload(t, j) \/ Poll(t, j) \/ \E e \in Execs : Start(t, j, e)
      PROVE  \/ \E e \in Execs : JobMoves(e)
             \/ UNCHANGED <<survey, req, exec, queue, starts>>
  BY <1>4, StartMoves DEF Upload, Poll, registry
<1> QED
  BY <1>1, <1>2, <1>3, <1>4 DEF Next

(* The import jobs keep their types. *)
LEMMA JobsKept ==
    ASSUME RegistryInv, [Next]_vars
    PROVE  job' \in [Jobs -> JobRow]
<1>1. job \in [Jobs -> JobRow] /\ exec \in [Execs -> Execution] /\ \A e \in Execs : ExecOK(exec[e], survey)
  BY DEF RegistryInv, RegistryTypeOK
<1>2. ASSUME NEW j \in Jobs, NEW st \in {"READY", "PROCESSING"}, job' = [job EXCEPT ![j].status = st]
      PROVE  job' \in [Jobs -> JobRow]
  BY <1>1, <1>2 DEF JobRow
<1>3. ASSUME NEW e \in Execs, NEW j \in Jobs, Reprocess(e, j)
      PROVE  job' \in [Jobs -> JobRow]
  <2>1. job' = [job EXCEPT ![j] = [status |-> "PROCESSING", strategy |-> "UPDATE", good |-> 0, bad |-> 0]]
    BY <1>3 DEF Reprocess
  <2> QED
    BY <1>1, <2>1 DEF JobRow, Plans
<1>4. ASSUME NEW e \in Execs, Finish(e)
      PROVE  job' \in [Jobs -> JobRow]
  <2> DEFINE x == exec[e]
             st == IF x.bad = 0 THEN "COMPLETED" ELSE IF x.good > 0 THEN "PARTIAL" ELSE "FAILED"
  <2>1. /\ job' = [job EXCEPT ![x.job].status = st, ![x.job].good = x.good, ![x.job].bad = x.bad]
        /\ x.pc = "finish"
    BY <1>4 DEF Finish
  <2>2. x.job \in Jobs /\ x.good \in Nat /\ x.bad \in Nat
    BY <1>1, <2>1 DEF ExecOK, Execution
  <2>3. st \in Terminal
    BY DEF Terminal
  <2> HIDE DEF x, st
  <2> QED
    BY <1>1, <2>1, <2>2, <2>3 DEF JobRow
<1>5. ASSUME NEW q \in Reqs, Operator(q)
      PROVE  UNCHANGED job
  BY <1>5 DEF Operator, ListSurveys, OpenSurvey, OpenForm, DeleteSurvey, ArchiveOrRestore, Ask, Find, Repair,
     Show, FillFromRecord, Save, Leave, Patch, Remove, CreateCheck, CreateInsert, jobs
<1>6. ASSUME NEW e \in Execs, Process(e) \/ JobThrows(e) \/ Crash(e), ~Finish(e)
      PROVE  UNCHANGED job
  BY <1>6 DEF Process, JobThrows, Crash, Enqueue, Take, Begin, ReadRow, Keep, Update, Insert, ListOrphans,
     PruneOrphans
<1>7. ASSUME NEW t \in Tabs, NEW j \in Jobs, Upload(t, j) \/ Poll(t, j) \/ \E e \in Execs : Start(t, j, e)
      PROVE  job' \in [Jobs -> JobRow]
  <2>1. CASE Upload(t, j)
    BY <1>2, <2>1 DEF Upload
  <2>2. CASE Poll(t, j)
    BY <1>1, <2>2 DEF Poll
  <2>3. CASE \E e \in Execs : Start(t, j, e)
    BY <1>2, <2>3 DEF Start
  <2> QED
    BY <1>7, <2>1, <2>2, <2>3
<1> QED
  BY <1>1, <1>3, <1>4, <1>5, <1>6, <1>7 DEF Next, vars

LEMMA StepKeeps ==
    ASSUME RegistryInv, [Next]_vars
    PROVE  RegistryInv' /\ (Registered!Change \/ UNCHANGED Registration)
<1>1. /\ req \in [Reqs -> Request] /\ exec \in [Execs -> Execution]
      /\ \A q \in Reqs : ReqOK(req[q], survey)
      /\ \A e \in Execs : ExecOK(exec[e], survey)
      /\ queue \subseteq Jobs \X BOOLEAN \X Nat \X Nat /\ starts \in Nat
  BY DEF RegistryInv, RegistryTypeOK
<1>2. SUFFICES ASSUME Table
               PROVE  /\ req' \in [Reqs -> Request] /\ exec' \in [Execs -> Execution]
                      /\ \A q \in Reqs : ReqOK(req'[q], survey')
                      /\ \A e \in Execs : ExecOK(exec'[e], survey')
                      /\ queue' \subseteq Jobs \X BOOLEAN \X Nat \X Nat /\ starts' \in Nat
  <2>1. Table
    BY NextMoves, SameTable, WrittenTable, PrunedTable DEF PageMoves, JobMoves, vars
  <2> QED
    BY <2>1, JobsKept DEF RegistryInv, RegistryTypeOK, Table, ReqOK, ExecOK
<1>3. /\ \A k \in Request : ReqOK(k, survey) => ReqOK(k, survey')
      /\ \A x \in Execution : ExecOK(x, survey) => ExecOK(x, survey')
  BY <1>2, Stays DEF Table
<1>4. CASE \E q \in Reqs : PageMoves(q)
  <2>1. PICK q \in Reqs, k \in Request : ReqOK(k, survey) /\ req' = [req EXCEPT ![q] = k]
    BY <1>4 DEF PageMoves
  <2>2. UNCHANGED <<exec, queue, starts>>
    BY <1>4 DEF PageMoves
  <2>3. req' \in [Reqs -> Request] /\ \A p \in Reqs : req'[p] = IF p = q THEN k ELSE req[p]
    BY <1>1, <2>1
  <2> QED
    BY <1>1, <1>3, <2>1, <2>2, <2>3
<1>5. CASE \E e \in Execs : JobMoves(e)
  <2>1. PICK e \in Execs, x \in Execution : ExecOK(x, survey) /\ exec' = [exec EXCEPT ![e] = x]
    BY <1>5 DEF JobMoves
  <2>2. /\ UNCHANGED req /\ queue' \subseteq Jobs \X BOOLEAN \X Nat \X Nat /\ starts' \in Nat
    BY <1>5 DEF JobMoves
  <2>3. exec' \in [Execs -> Execution] /\ \A p \in Execs : exec'[p] = IF p = e THEN x ELSE exec[p]
    BY <1>1, <2>1
  <2> QED
    BY <1>1, <1>3, <2>1, <2>2, <2>3
<1>6. CASE UNCHANGED <<survey, req, exec, queue, starts>>
  BY <1>1, <1>6
<1> QED
  BY <1>4, <1>5, <1>6, NextMoves DEF vars

-----------------------------------------------------------------------------
(* The theorems.                                                           *)

(* The registry a run starts from: the rows there before, nobody at work.  *)
LEMMA InitInv ==
    ASSUME Init
    PROVE  RegistryInv
<1>1. survey \in [Rows -> Survey] /\ UniqueIds(survey) /\ IdCarriesNumber
  BY LegacyConstants DEF Init, UniqueIds, IdCarriesNumber
<1>2. req = [q \in Reqs |-> NoReq] /\ exec = [e \in Execs |-> NoExec] /\ queue = {}
  BY DEF Init
<1>3. starts \in Nat
  BY SurveyConstants DEF Init
<1>4. req \in [Reqs -> Request] /\ \A q \in Reqs : ReqOK(req[q], survey)
  BY <1>2, NoReqOK
<1>6. job \in [Jobs -> JobRow]
  BY SurveyConstants DEF Init, JobRow, Plans
<1>5. exec \in [Execs -> Execution] /\ \A e \in Execs : ExecOK(exec[e], survey)
  BY <1>2, NoExecOK
<1> QED
  BY <1>1, <1>2, <1>3, <1>4, <1>5, <1>6 DEF RegistryInv, RegistryTypeOK

(* Rows, requests, executions and queue entries have their types; no two   *)
(* rows have one id; what was read of a row, the row is still there; what   *)
(* is being pruned was counted against the cap.                            *)
THEOREM RegistryInvariance == Spec => []RegistryInv
<1>1. Init => RegistryInv
  BY InitInv
<1>2. RegistryInv /\ [Next]_vars => RegistryInv'
  BY StepKeeps
<1> QED
  BY <1>1, <1>2, PTL DEF Spec

(* Whatever edits, status changes, read repairs and imports write of rows  *)
(* they read earlier, the number in a survey's id stays the survey's own.  *)
THEOREM NumbersAgree == Spec => []IdCarriesNumber
<1>1. RegistryInv => IdCarriesNumber
  BY DEF RegistryInv
<1> QED
  BY <1>1, RegistryInvariance, PTL

(* Every interleaving of operators' pages, read repairs and imports is a   *)
(* behaviour of the abstract registry.                                     *)
THEOREM RegistryRefined == Spec => RegistryImplemented
<1>1. Registration \in [Ids -> {"absent", "live", "deleted"}]
  BY DEF Registration
<1>2. RegistryInv /\ [Next]_vars => [Registered!Change]_Registration
  BY StepKeeps
<1> QED
  BY <1>1, <1>2, RegistryInvariance, PTL DEF Spec, RegistryImplemented, Registered!Spec

-----------------------------------------------------------------------------
(* Executions of one job that write the table between them.  With one ward *)
(* and one use letter for a parcel, the file has one id for each number.    *)

ImportId(j, n) == ResolveImportSurveyId(Files[j][n])
OneWard(j) == \A n, m \in 1..Len(Files[j]) : Files[j][n].ward = Files[j][m].ward
Plain(j) == OwnIds(j) /\ OneUse(j) /\ OneWard(j)
IsAt(s, r, k) == s[r].on /\ ~s[r].gone /\ s[r].id = k

(* From table s to table t the rows keep their numbers, and those that are *)
(* live under an id of the file stay so.                                   *)
Stand(j, s, t) ==
    Plain(j) => \A r \in Rows : s[r].on =>
        /\ t[r].num = s[r].num
        /\ \A n \in 1..Len(Files[j]) : IsAt(s, r, ImportId(j, n)) => IsAt(t, r, ImportId(j, n))

(* What a calm execution x can count on in the table s: where it is, what  *)
(* its lookup found, what the rows it is through with have become, and what *)
(* it is about to prune.                                                   *)
AtWork(x) ==
    /\ x.job \in Jobs /\ x.pc \in {"row", "apply", "finish"}
    /\ x.i <= Len(Files[x.job]) + 1
    /\ x.pc = "apply" => x.i <= Len(Files[x.job]) /\ Files[x.job][x.i].ok
    /\ x.pc = "finish" => x.i > Len(Files[x.job])
    /\ x.dup # {} => x.pc = "apply"
    /\ IsFiniteSet(x.wards)
LookupHolds(x, s) ==
    Plain(x.job) => \A d \in x.dup :
        /\ s[d[1]].num = Files[x.job][x.i].num
        /\ ~d[2].gone /\ d[2].id = ImportId(x.job, x.i) => IsAt(s, d[1], ImportId(x.job, x.i))
Covered(x, s) ==
    x.bad = 0 /\ x.strategy = "UPDATE" =>
        \A k \in 1..(x.i - 1) :
            /\ Files[x.job][k].ward \in x.wards
            /\ Plain(x.job) => \E r \in x.touched : IsAt(s, r, ImportId(x.job, k))
Surplus(x) ==
    x.orphans # {} =>
        /\ x.pc = "finish" /\ x.bad = 0 /\ x.strategy = "UPDATE" /\ OneWard(x.job)
        /\ x.orphans \cap x.touched = {}
CalmOK(x, s) == AtWork(x) /\ LookupHolds(x, s) /\ Covered(x, s) /\ Surplus(x)

(* An execution that has not read the workbook yet. *)
Fresh(x) ==
    x.pc \notin {"row", "apply", "finish"} =>
        x.i = 1 /\ x.bad = 0 /\ x.dup = {} /\ x.touched = {} /\ x.wards = {} /\ x.orphans = {}

ImportInv ==
    /\ RegistryInv
    /\ calm \subseteq Execs
    /\ \A e \in calm : CalmOK(exec[e], survey)
    /\ \A e \in Execs : Fresh(exec[e])

LEMMA FileRows ==
    ASSUME NEW j \in Jobs
    PROVE  /\ Len(Files[j]) \in Nat
           /\ \A n \in 1..Len(Files[j]) : /\ Files[j][n] \in FileRow
                                         /\ ImportId(j, n)[2] = Files[j][n].num
<1>1. Files[j] \in Seq(FileRow)
  BY SurveyConstants
<1> QED
  BY <1>1 DEF ImportId, ResolveImportSurveyId, GenerateSurveyId

(* A plain file has one id for a number. *)
LEMMA SameParcel ==
    ASSUME NEW j \in Jobs, Plain(j), NEW n \in 1..Len(Files[j]), NEW m \in 1..Len(Files[j]),
           Files[j][n].num = Files[j][m].num
    PROVE  ImportId(j, n) = ImportId(j, m)
BY DEF Plain, OneWard, OneUse, ImportId, ResolveImportSurveyId

(* What an execution could count on, it still can. *)
LEMMA CalmStays ==
    ASSUME NEW x \in Execution, NEW s, NEW t, CalmOK(x, s), Stand(x.job, s, t),
           \A d \in x.dup : s[d[1]].on
    PROVE  CalmOK(x, t)
<1>1. x.dup \subseteq Rows \X Survey /\ x.touched \subseteq Rows /\ x.i \in Nat \ {0} /\ AtWork(x)
  BY DEF Execution, CalmOK
<1>2. \A d \in x.dup : d[1] \in Rows
  BY <1>1
<1>3. ASSUME Plain(x.job), x.dup # {}
      PROVE  x.i \in 1..Len(Files[x.job])
  BY <1>1, <1>3, FileRows DEF AtWork
<1>4. LookupHolds(x, t)
  <2> SUFFICES ASSUME Plain(x.job), NEW d \in x.dup
               PROVE  /\ t[d[1]].num = Files[x.job][x.i].num
                      /\ ~d[2].gone /\ d[2].id = ImportId(x.job, x.i) => IsAt(t, d[1], ImportId(x.job, x.i))
    BY DEF LookupHolds
  <2>1. /\ s[d[1]].num = Files[x.job][x.i].num
        /\ ~d[2].gone /\ d[2].id = ImportId(x.job, x.i) => IsAt(s, d[1], ImportId(x.job, x.i))
    BY DEF CalmOK, LookupHolds
  <2>2. d[1] \in Rows /\ s[d[1]].on /\ x.i \in 1..Len(Files[x.job])
    BY <1>2, <1>3
  <2>3. /\ t[d[1]].num = s[d[1]].num
        /\ IsAt(s, d[1], ImportId(x.job, x.i)) => IsAt(t, d[1], ImportId(x.job, x.i))
    BY <2>2, Zenon DEF Stand
  <2> QED
    BY <2>1, <2>3
<1>5. Covered(x, t)
  <2> SUFFICES ASSUME x.bad = 0, x.strategy = "UPDATE", NEW k \in 1..(x.i - 1)
               PROVE  /\ Files[x.job][k].ward \in x.wards
                      /\ Plain(x.job) => \E r \in x.touched : IsAt(t, r, ImportId(x.job, k))
    BY DEF Covered
  <2>1. /\ Files[x.job][k].ward \in x.wards
        /\ Plain(x.job) => \E r \in x.touched : IsAt(s, r, ImportId(x.job, k))
    BY DEF CalmOK, Covered
  <2>2. k \in 1..Len(Files[x.job])
    BY <1>1, FileRows DEF AtWork
  <2>3. ASSUME Plain(x.job)
        PROVE  \E r \in x.touched : IsAt(t, r, ImportId(x.job, k))
    <3>1. PICK r \in x.touched : IsAt(s, r, ImportId(x.job, k))
      BY <2>1, <2>3
    <3>2. r \in Rows /\ s[r].on
      BY <1>1, <3>1 DEF IsAt
    <3>3. IsAt(t, r, ImportId(x.job, k))
      BY <2>2, <2>3, <3>1, <3>2, Zenon DEF Stand
    <3> QED
      BY <3>3
  <2> QED
    BY <2>1, <2>3
<1> QED
  BY <1>4, <1>5 DEF CalmOK

(* A row is rewritten from the file by an execution that found it, or that *)
(* found no row with its id.                                               *)
LEMMA RewriteStands ==
    ASSUME RegistryInv, NEW j \in Jobs, NEW m \in 1..Len(Files[j]), NEW r \in Rows,
           survey' = [survey EXCEPT ![r] = Rewritten(Files[j][m])],
           Plain(j) /\ survey[r].on => survey[r].num = Files[j][m].num
    PROVE  Stand(j, survey, survey')
<1> DEFINE f == Files[j][m]
           v == Rewritten(f)
<1>1. f \in FileRow
  BY FileRows
<1>2. v.on /\ ~v.gone /\ v.id = ImportId(j, m) /\ v.num = f.num
  BY <1>1, RewrittenOK, FileRows DEF ImportId
<1>3. survey \in [Rows -> Survey] /\ IdCarriesNumber
  BY DEF RegistryInv, RegistryTypeOK
<1>4. survey'[r] = v /\ \A n \in Rows \ {r} : survey'[n] = survey[n]
  BY <1>3
<1> HIDE DEF f, v
<1> SUFFICES ASSUME Plain(j), NEW q \in Rows, survey[q].on
             PROVE  /\ survey'[q].num = survey[q].num
                    /\ \A n \in 1..Len(Files[j]) : IsAt(survey, q, ImportId(j, n)) => IsAt(survey', q, ImportId(j, n))
  BY DEF Stand
<1>5. CASE q # r
  BY <1>4, <1>5 DEF IsAt
<1>6. CASE q = r
  <2>1. survey'[r].num = survey[r].num
    BY <1>2, <1>4, <1>6 DEF f
  <2>2. ASSUME NEW n \in 1..Len(Files[j]), IsAt(survey, r, ImportId(j, n))
        PROVE  IsAt(survey', r, ImportId(j, n))
    <3>1. Files[j][n].num = Files[j][m].num
      BY <1>3, <1>6, <2>2, FileRows DEF IsAt, IdCarriesNumber
    <3>2. ImportId(j, n) = ImportId(j, m)
      BY <3>1, SameParcel
    <3> QED
      BY <1>2, <1>4, <3>2 DEF IsAt
  <2> QED
    BY <1>6, <2>1, <2>2
<1> QED
  BY <1>5, <1>6

LEMMA StandsStill ==
    ASSUME NEW j, UNCHANGED survey
    PROVE  Stand(j, survey, survey')
BY DEF Stand

(* What a lookup finds has the number of the file's row. *)
LEMMA FoundNumber ==
    ASSUME RegistryInv, NEW j \in Jobs, OwnIds(j), NEW n \in 1..Len(Files[j])
    PROVE  \A r \in FindImportDuplicate(Files[j][n]) : survey[r].num = Files[j][n].num
<1> DEFINE f == Files[j][n]
           same == {r \in Rows : Live(r) /\ survey[r].ward = f.ward /\ survey[r].num = f.num}
<1>1. IdCarriesNumber /\ ImportId(j, n)[2] = f.num /\ f.raw[2] = f.num
  BY FileRows DEF RegistryInv, OwnIds
<1>2. \A k : k[2] = f.num => \A r \in Holder(k) : survey[r].num = f.num
  BY <1>1 DEF Holder, IdCarriesNumber
<1>3. \A r \in same : survey[r].num = f.num
  OBVIOUS
<1>4. FindImportDuplicate(f) \in {Holder(ImportId(j, n)), Holder(f.raw), {}}
         \/ (same # {} /\ FindImportDuplicate(f) = {CHOOSE r \in same : TRUE})
  BY DEF FindImportDuplicate, ImportId
<1> HIDE DEF same, f
<1>5. \A r \in FindImportDuplicate(f) : survey[r].num = f.num
  BY <1>1, <1>2, <1>3, <1>4
<1> QED
  BY <1>5 DEF f

(* What a step of execution e does to the calm executions. *)
ImportMoves(e) ==
    /\ \E n \in Execution :
          /\ exec' = [exec EXCEPT ![e] = n] /\ Fresh(n)
          /\ e \in calm' => CalmOK(n, survey')
    /\ calm' \subseteq calm \cup {e}
    /\ \A o \in calm' \ {e} : Stand(exec[o].job, survey, survey')

(* What is known of the execution that takes the step. *)
LEMMA AtHand ==
    ASSUME ImportInv, NEW e \in Execs
    PROVE  /\ RegistryInv /\ exec \in [Execs -> Execution] /\ exec[e] \in Execution
           /\ ExecOK(exec[e], survey) /\ Fresh(exec[e])
           /\ e \in calm => CalmOK(exec[e], survey)
           /\ exec[e].pc \notin {"row", "apply", "finish"} => e \notin calm
           /\ calm \subseteq Execs
BY DEF ImportInv, RegistryInv, RegistryTypeOK, CalmOK, AtWork

(* An execution begins or ends, or waits for the workbook. *)
LEMMA IdleMoves ==
    ASSUME ImportInv, NEW e \in Execs, UNCHANGED survey, e \notin calm', calm' \subseteq calm,
           NEW n \in Execution, exec' = [exec EXCEPT ![e] = n],
           n.i = 1 /\ n.bad = 0 /\ n.dup = {} /\ n.touched = {} /\ n.wards = {} /\ n.orphans = {}
    PROVE  ImportMoves(e)
BY StandsStill DEF ImportMoves, Fresh

LEMMA NoExecFresh ==
    /\ NoExec \in Execution /\ NoExec.i = 1 /\ NoExec.bad = 0 /\ NoExec.dup = {}
    /\ NoExec.touched = {} /\ NoExec.wards = {} /\ NoExec.orphans = {}
BY NoExecOK DEF NoExec

LEMMA StartImport ==
    ASSUME ImportInv, NEW t, NEW j \in Jobs, NEW e \in Execs, Start(t, j, e) \/ Reprocess(e, j)
    PROVE  ImportMoves(e)
<1>1. UNCHANGED <<survey, calm>> /\ exec[e].pc = "idle"
  BY DEF Start, Reprocess, registry
<1>2. e \notin calm'
  BY <1>1, AtHand
<1>3. CASE Start(t, j, e)
  <2>1. PICK p \in BOOLEAN :
           exec' = [exec EXCEPT ![e] = [NoExec EXCEPT !.pc = "enqueue", !.job = j, !.prune = p]]
    BY <1>3 DEF Start
  <2> DEFINE n == [NoExec EXCEPT !.pc = "enqueue", !.job = j, !.prune = p]
  <2>2. n \in Execution /\ n.i = 1 /\ n.bad = 0 /\ n.dup = {} /\ n.touched = {} /\ n.wards = {} /\ n.orphans = {}
    BY NoExecFresh DEF Execution
  <2>3. exec' = [exec EXCEPT ![e] = n]
    BY <2>1
  <2> HIDE DEF n
  <2> QED
    BY <1>1, <1>2, <2>2, <2>3, IdleMoves
<1>4. CASE Reprocess(e, j)
  <2> DEFINE n == [NoExec EXCEPT !.pc = "begin", !.job = j]
  <2>1. exec' = [exec EXCEPT ![e] = n]
    BY <1>4 DEF Reprocess
  <2>2. n \in Execution /\ n.i = 1 /\ n.bad = 0 /\ n.dup = {} /\ n.touched = {} /\ n.wards = {} /\ n.orphans = {}
    BY NoExecFresh DEF Execution
  <2> HIDE DEF n
  <2> QED
    BY <1>1, <1>2, <2>1, <2>2, IdleMoves
<1> QED
  BY <1>3, <1>4

LEMMA QueueImport ==
    ASSUME ImportInv, NEW e \in Execs, Enqueue(e) \/ Take(e) \/ JobThrows(e) \/ Finish(e) \/ Crash(e)
    PROVE  ImportMoves(e)
<1> DEFINE x == exec[e]
<1>1. /\ x \in Execution /\ ExecOK(x, survey) /\ Fresh(x) /\ exec \in [Execs -> Execution]
      /\ x.pc \notin {"row", "apply", "finish"} => e \notin calm
      /\ queue \subseteq Jobs \X BOOLEAN \X Nat \X Nat
  BY AtHand DEF RegistryInv, RegistryTypeOK
<1>2. UNCHANGED survey
  BY DEF Enqueue, Take, JobThrows, Finish, Crash, registry
<1>3. calm' \subseteq calm /\ e \notin calm'
  BY <1>1 DEF Enqueue, Take, JobThrows, Finish, Crash, registry
<1>4. CASE exec' = [exec EXCEPT ![e] = NoExec]
  BY <1>2, <1>3, <1>4, NoExecFresh, IdleMoves
<1>5. CASE Enqueue(e) /\ ~queueUp
  <2> DEFINE n == [x EXCEPT !.pc = "begin"]
  <2>1. exec' = [exec EXCEPT ![e] = n] /\ x.pc = "enqueue"
    BY <1>1, <1>5 DEF Enqueue
  <2> HIDE DEF x
  <2>2. n \in Execution /\ n.i = 1 /\ n.bad = 0 /\ n.dup = {} /\ n.touched = {} /\ n.wards = {} /\ n.orphans = {}
    BY <1>1, <2>1 DEF Execution, Fresh
  <2> HIDE DEF n
  <2> QED
    BY <1>2, <1>3, <2>1, <2>2, IdleMoves
<1>6. CASE Take(e)
  <2>1. PICK m \in queue :
           exec' = [exec EXCEPT ![e] = [NoExec EXCEPT !.pc = "begin", !.job = m[1], !.prune = m[2],
                                        !.stalls = m[3], !.queued = TRUE]]
    BY <1>6 DEF Take
  <2>2. m[1] \in Jobs /\ m[2] \in BOOLEAN /\ m[3] \in Nat
    BY <1>1
  <2> DEFINE n == [NoExec EXCEPT !.pc = "begin", !.job = m[1], !.prune = m[2], !.stalls = m[3],
                                 !.queued = TRUE]
  <2>3. n \in Execution /\ n.i = 1 /\ n.bad = 0 /\ n.dup = {} /\ n.touched = {} /\ n.wards = {} /\ n.orphans = {}
    BY <2>2, NoExecFresh DEF Execution
  <2>4. exec' = [exec EXCEPT ![e] = n]
    BY <2>1
  <2> HIDE DEF n
  <2> QED
    BY <1>2, <1>3, <2>3, <2>4, IdleMoves
<1> QED
  BY <1>4, <1>5, <1>6 DEF Enqueue, JobThrows, Finish, Crash

(* It reads the job and the workbook. *)
LEMMA BeginImport ==
    ASSUME ImportInv, NEW e \in Execs, Begin(e)
    PROVE  ImportMoves(e)
<1> DEFINE x == exec[e]
           new == PreviewedNew(x.job)
           plan == job[x.job].strategy
           n == [x EXCEPT !.pc = "row", !.strategy = plan, !.new = new]
<1>1. /\ x \in Execution /\ ExecOK(x, survey) /\ Fresh(x) /\ exec \in [Execs -> Execution]
      /\ job \in [Jobs -> JobRow]
  BY AtHand DEF RegistryInv, RegistryTypeOK
<1>2. /\ exec' = [exec EXCEPT ![e] = n] /\ x.pc = "begin" /\ UNCHANGED survey
      /\ calm' = calm \cup {e}
  BY <1>1 DEF Begin
<1>3. x.job \in Jobs
  BY <1>1, <1>2 DEF ExecOK
<1>4. plan \in Plans /\ new \in SUBSET Nat
  BY <1>1, <1>3 DEF JobRow, PreviewedNew
<1> HIDE DEF x, new, plan
<1>5. n \in Execution /\ n.pc = "row" /\ n.job = x.job /\ n.i = 1 /\ n.dup = {} /\ n.orphans = {}
      /\ n.wards = {}
  BY <1>1, <1>2, <1>4 DEF Execution, Fresh
<1> HIDE DEF n
<1>6. CalmOK(n, survey') /\ Fresh(n)
  BY <1>3, <1>5, FileRows, FS_EmptySet DEF CalmOK, AtWork, LookupHolds, Covered, Surplus, Fresh
<1> QED
  BY <1>2, <1>5, <1>6, StandsStill DEF ImportMoves

LEMMA ReadRowImport ==
    ASSUME ImportInv, NEW e \in Execs, ReadRow(e)
    PROVE  ImportMoves(e)
<1> DEFINE x == exec[e]
           f == Files[x.job][x.i]
           dup == {<<r, survey[r]>> : r \in FindImportDuplicate(f)}
<1>1. /\ RegistryInv /\ x \in Execution /\ ExecOK(x, survey) /\ survey \in [Rows -> Survey]
      /\ exec \in [Execs -> Execution]
      /\ e \in calm => CalmOK(x, survey)
  BY AtHand DEF RegistryInv, RegistryTypeOK
<1>2. UNCHANGED <<survey, calm>> /\ x.pc = "row" /\ x.i <= Len(Files[x.job])
  BY DEF ReadRow, registry
<1>3. x.i \in Nat \ {0} /\ x.bad \in Nat /\ x.job \in Jobs
  BY <1>1, <1>2 DEF Execution, ExecOK
<1>4. x.i \in 1..Len(Files[x.job])
  BY <1>2, <1>3, FileRows
<1>5. CASE f.ok
  <2> DEFINE n == [x EXCEPT !.pc = "apply", !.dup = dup]
  <2>1. exec' = [exec EXCEPT ![e] = n]
    BY <1>1, <1>5 DEF ReadRow
  <2>2. dup \in SUBSET (Rows \X Survey)
    BY <1>1, DuplicateOK
  <2>3. ASSUME Plain(x.job), NEW d \in dup
        PROVE  /\ survey[d[1]].num = f.num
               /\ ~d[2].gone /\ d[2].id = ImportId(x.job, x.i) => IsAt(survey, d[1], ImportId(x.job, x.i))
    <3>1. PICK r \in FindImportDuplicate(f) : d = <<r, survey[r]>>
      OBVIOUS
    <3>2. survey[r].on /\ d[1] = r /\ d[2] = survey[r]
      BY <1>1, <3>1, DuplicateOK
    <3>3. survey[r].num = f.num
      BY <1>1, <1>3, <1>4, <2>3, FoundNumber DEF Plain
    <3> QED
      BY <3>2, <3>3 DEF IsAt
  <2> HIDE DEF dup
  <2>4. LookupHolds([x EXCEPT !.pc = "apply", !.dup = dup], survey)
    <3>1. n.dup = dup /\ n.job = x.job /\ n.i = x.i
      BY <1>1 DEF Execution
    <3> HIDE DEF n, x
    <3>2. LookupHolds(n, survey)
      BY <2>3, <3>1 DEF LookupHolds, f
    <3> QED
      BY <3>2 DEF n
  <2> HIDE DEF x
  <2>5. /\ n \in Execution /\ n.pc = "apply" /\ n.job = x.job /\ n.i = x.i /\ n.bad = x.bad
        /\ n.strategy = x.strategy /\ n.touched = x.touched /\ n.wards = x.wards /\ n.orphans = x.orphans
    BY <1>1, <2>2 DEF Execution
  <2>6. LookupHolds(n, survey)
    BY <2>4
  <2> HIDE DEF n
  <2>7. ASSUME e \in calm
        PROVE  CalmOK(n, survey)
    <3>1. AtWork(x) /\ Covered(x, survey) /\ Surplus(x)
      BY <1>1, <2>7 DEF CalmOK
    <3>2. AtWork(n)
      BY <1>2, <1>5, <2>5, <3>1 DEF AtWork
    <3>3. Covered(n, survey)
      BY <2>5, <3>1 DEF Covered
    <3>4. Surplus(n)
      BY <1>2, <2>5, <3>1 DEF Surplus
    <3> QED
      BY <2>6, <3>2, <3>3, <3>4 DEF CalmOK
  <2> QED
    BY <1>2, <2>1, <2>5, <2>7, StandsStill DEF ImportMoves, Fresh
<1>6. CASE ~f.ok
  <2> DEFINE n == [x EXCEPT !.i = x.i + 1, !.bad = x.bad + 1]
  <2>1. exec' = [exec EXCEPT ![e] = n]
    BY <1>1, <1>6 DEF ReadRow
  <2> HIDE DEF x
  <2>2. x.i + 1 \in Nat \ {0} /\ x.bad + 1 \in Nat
    BY <1>3
  <2>3. /\ n \in Execution /\ n.pc = "row" /\ n.dup = x.dup /\ n.job = x.job /\ n.orphans = x.orphans
        /\ n.i = x.i + 1 /\ n.bad = x.bad + 1 /\ n.wards = x.wards
    BY <1>1, <1>2, <2>2 DEF Execution
  <2> HIDE DEF n
  <2>4. x.i + 1 <= Len(Files[x.job]) + 1 /\ n.bad # 0
    BY <1>2, <1>3, <2>3, FileRows
  <2>5. ASSUME e \in calm
        PROVE  CalmOK(n, survey)
    <3>1. AtWork(x) /\ Surplus(x) /\ x.dup = {}
      BY <1>1, <1>2, <2>5 DEF CalmOK, AtWork
    <3>2. AtWork(n)
      BY <1>2, <2>3, <2>4, <3>1 DEF AtWork
    <3>3. LookupHolds(n, survey) /\ Covered(n, survey) /\ Surplus(n)
      BY <1>2, <2>3, <2>4, <3>1 DEF LookupHolds, Covered, Surplus
    <3> QED
      BY <3>2, <3>3 DEF CalmOK
  <2> QED
    BY <1>2, <2>1, <2>3, <2>5, StandsStill DEF ImportMoves, Fresh
<1> QED
  BY <1>5, <1>6

(* A row of the sheet is over: it failed, or its survey is in place. *)
LEMMA RowFailed ==
    ASSUME ImportInv, NEW e \in Execs, exec[e].pc = "apply", RowFails(e), UNCHANGED registry
    PROVE  ImportMoves(e)
<1> DEFINE x == exec[e]
           n == [x EXCEPT !.pc = "row", !.i = x.i + 1, !.dup = {}, !.bad = x.bad + 1]
<1>1. /\ x \in Execution /\ ExecOK(x, survey) /\ exec \in [Execs -> Execution]
      /\ e \in calm => CalmOK(x, survey)
  BY AtHand
<1>2. exec' = [exec EXCEPT ![e] = n] /\ UNCHANGED <<survey, calm>> /\ x.pc = "apply"
  BY <1>1 DEF RowFails, registry
<1> HIDE DEF x
<1>3. x.i \in Nat \ {0} /\ x.bad \in Nat /\ x.job \in Jobs /\ x.i <= Len(Files[x.job])
  BY <1>1, <1>2 DEF Execution, ExecOK
<1>4. x.i + 1 \in Nat \ {0} /\ x.bad + 1 \in Nat \ {0} /\ x.i + 1 <= Len(Files[x.job]) + 1
  BY <1>3, FileRows
<1>5. /\ n \in Execution /\ n.pc = "row" /\ n.dup = {} /\ n.job = x.job /\ n.orphans = x.orphans
      /\ n.i = x.i + 1 /\ n.bad = x.bad + 1 /\ n.wards = x.wards
  BY <1>1, <1>4 DEF Execution
<1> HIDE DEF n
<1>6. e \in calm' => CalmOK(n, survey')
  BY <1>1, <1>2, <1>3, <1>4, <1>5 DEF CalmOK, AtWork, LookupHolds, Covered, Surplus
<1> QED
  BY <1>2, <1>5, <1>6, StandsStill DEF ImportMoves, Fresh

LEMMA RowDone ==
    ASSUME ImportInv, NEW e \in Execs, exec[e].pc = "apply", NEW r \in Rows, Done(e, r),
           calm' \subseteq calm,
           e \in calm => Stand(exec[e].job, survey, survey'),
           \A o \in calm' \ {e} : Stand(exec[o].job, survey, survey'),
           e \in calm /\ exec[e].strategy = "UPDATE" /\ Plain(exec[e].job)
               => IsAt(survey', r, ImportId(exec[e].job, exec[e].i))
    PROVE  ImportMoves(e)
<1> DEFINE x == exec[e]
           f == Files[x.job][x.i]
           touched == x.touched \cup {r}
           wards == x.wards \cup {f.ward}
           n == [x EXCEPT !.pc = "row", !.i = x.i + 1, !.dup = {}, !.good = x.good + 1,
                          !.touched = touched, !.wards = wards]
<1>1. /\ RegistryInv /\ x \in Execution /\ ExecOK(x, survey) /\ exec \in [Execs -> Execution]
      /\ e \in calm => CalmOK(x, survey)
  BY AtHand
<1>2. exec' = [exec EXCEPT ![e] = n] /\ x.pc = "apply"
  BY <1>1 DEF Done
<1>3. f \in FileRow
  BY <1>1, <1>2, FileRowOK DEF ExecOK
<1>4. e \in calm => CalmOK(x, survey')
  BY <1>1, CalmStays DEF ExecOK
<1> HIDE DEF x, f
<1>5. /\ x.i \in Nat \ {0} /\ x.good \in Nat /\ x.job \in Jobs /\ x.i <= Len(Files[x.job])
      /\ x.touched \in SUBSET Rows /\ x.wards \in SUBSET Wards
  BY <1>1, <1>2 DEF Execution, ExecOK
<1>6. /\ x.i + 1 \in Nat \ {0} /\ x.good + 1 \in Nat /\ x.i + 1 <= Len(Files[x.job]) + 1
      /\ (x.i + 1) - 1 = x.i
  BY <1>5, FileRows
<1>7. touched \in SUBSET Rows /\ wards \in SUBSET Wards
  BY <1>3, <1>5 DEF FileRow
<1>12. f.ward \in wards /\ x.wards \subseteq wards /\ r \in touched /\ x.touched \subseteq touched
  OBVIOUS
<1>13. ASSUME e \in calm
       PROVE  IsFiniteSet(wards)
  BY <1>4, <1>13, FS_AddElement DEF CalmOK, AtWork
<1> HIDE DEF touched, wards
<1>8. /\ n \in Execution /\ n.pc = "row" /\ n.dup = {} /\ n.job = x.job /\ n.orphans = x.orphans
      /\ n.i = x.i + 1 /\ n.bad = x.bad /\ n.strategy = x.strategy /\ n.touched = touched /\ n.wards = wards
  BY <1>1, <1>6, <1>7 DEF Execution
<1> HIDE DEF n
<1>9. ASSUME e \in calm
      PROVE  CalmOK(n, survey')
  <2>1. AtWork(n) /\ LookupHolds(n, survey') /\ Surplus(n)
    BY <1>2, <1>4, <1>5, <1>6, <1>8, <1>9, <1>13 DEF CalmOK, AtWork, LookupHolds, Surplus
  <2>2. Covered(n, survey')
    <3> SUFFICES ASSUME x.bad = 0, x.strategy = "UPDATE", NEW k \in 1..x.i
                 PROVE  /\ Files[x.job][k].ward \in wards
                        /\ Plain(x.job) => \E q \in touched : IsAt(survey', q, ImportId(x.job, k))
      BY <1>6, <1>8 DEF Covered
    <3>1. CASE k = x.i
      BY <1>9, <1>12, <3>1 DEF x, f
    <3>2. CASE k # x.i
      <4>1. k \in 1..(x.i - 1)
        BY <1>5, <3>2
      <4>2. /\ Files[x.job][k].ward \in x.wards
            /\ Plain(x.job) => \E q \in x.touched : IsAt(survey', q, ImportId(x.job, k))
        BY <1>4, <1>9, <4>1 DEF CalmOK, Covered
      <4> QED
        BY <1>12, <4>2
    <3> QED
      BY <3>1, <3>2
  <2> QED
    BY <2>1, <2>2 DEF CalmOK
<1>10. Fresh(n)
  BY <1>8 DEF Fresh
<1> QED
  BY <1>2, <1>8, <1>9, <1>10 DEF ImportMoves

(* A write by a calm execution reaches the calm executions of its job. *)
LEMMA CalmWrite ==
    ASSUME NEW e \in Execs, ExecutorWrites(e), e \in calm => Stand(exec[e].job, survey, survey')
    PROVE  /\ calm' \subseteq calm
           /\ \A o \in calm' \ {e} : Stand(exec[o].job, survey, survey')
BY DEF ExecutorWrites

LEMMA KeepImport ==
    ASSUME ImportInv, NEW e \in Execs, Keep(e)
    PROVE  ImportMoves(e)
<1> DEFINE x == exec[e]
           f == Files[x.job][x.i]
<1>1. /\ x \in Execution /\ exec \in [Execs -> Execution]
      /\ e \in calm => CalmOK(x, survey)
  BY AtHand
<1>2. PICK d \in x.dup :
         /\ ~d[2].gone /\ Done(e, d[1])
         /\ x.strategy = "SKIP" \/ (x.strategy = "UPDATE" /\ NoDiff(d[2], f))
  BY DEF Keep
<1>3. UNCHANGED <<survey, calm>> /\ x.pc = "apply" /\ d[1] \in Rows
  BY <1>1 DEF Keep, registry, Execution
<1>4. ASSUME e \in calm, x.strategy = "UPDATE", Plain(x.job)
      PROVE  IsAt(survey, d[1], ImportId(x.job, x.i))
  <2>1. d[2].id = ImportId(x.job, x.i)
    BY <1>2, <1>4 DEF NoDiff, ImportId
  <2> QED
    BY <1>1, <1>2, <1>4, <2>1 DEF CalmOK, LookupHolds
<1>5. IsAt(survey, d[1], ImportId(x.job, x.i)) => IsAt(survey', d[1], ImportId(x.job, x.i))
  BY <1>3
<1> QED
  BY <1>2, <1>3, <1>4, <1>5, StandsStill, RowDone

LEMMA UpdateImport ==
    ASSUME ImportInv, NEW e \in Execs, Update(e)
    PROVE  ImportMoves(e)
<1> DEFINE x == exec[e]
           f == Files[x.job][x.i]
           id == ResolveImportSurveyId(f)
<1>1. /\ RegistryInv /\ x \in Execution /\ ExecOK(x, survey) /\ survey \in [Rows -> Survey]
      /\ e \in calm => CalmOK(x, survey)
  BY AtHand DEF RegistryInv, RegistryTypeOK
<1>2. x.pc = "apply"
  BY DEF Update
<1>3. PICK d \in x.dup :
         IF TakenBy(id, d[1])
         THEN RowFails(e) /\ UNCHANGED registry
         ELSE /\ survey' = [survey EXCEPT ![d[1]] = Rewritten(f)]
              /\ ExecutorWrites(e) /\ Done(e, d[1])
  BY DEF Update
<1>4. CASE TakenBy(id, d[1])
  BY <1>2, <1>3, <1>4, RowFailed
<1>5. CASE ~TakenBy(id, d[1])
  <2>1. /\ survey' = [survey EXCEPT ![d[1]] = Rewritten(f)]
        /\ ExecutorWrites(e) /\ Done(e, d[1])
    BY <1>3, <1>5
  <2>2. d[1] \in Rows /\ x.job \in Jobs /\ x.i \in Nat \ {0} /\ x.i <= Len(Files[x.job])
    BY <1>1, <1>2 DEF Execution, ExecOK
  <2>3. x.i \in 1..Len(Files[x.job])
    BY <2>2, FileRows
  <2>4. ASSUME e \in calm
        PROVE  Stand(x.job, survey, survey')
    <3>1. Plain(x.job) => survey[d[1]].num = f.num
      BY <1>1, <2>4 DEF CalmOK, LookupHolds
    <3> QED
      BY <1>1, <2>1, <2>2, <2>3, <3>1, RewriteStands
  <2>5. IsAt(survey', d[1], ImportId(x.job, x.i))
    <3>1. f \in FileRow
      BY <2>2, <2>3, FileRows
    <3>2. survey'[d[1]] = Rewritten(f)
      BY <1>1, <2>1, <2>2
    <3> QED
      BY <3>1, <3>2, RewrittenOK DEF IsAt, ImportId
  <2>6. calm' \subseteq calm /\ \A o \in calm' \ {e} : Stand(exec[o].job, survey, survey')
    BY <2>1, <2>4, CalmWrite
  <2> QED
    BY <1>2, <2>1, <2>2, <2>4, <2>5, <2>6, RowDone
<1> QED
  BY <1>4, <1>5

LEMMA InsertImport ==
    ASSUME ImportInv, NEW e \in Execs, Insert(e)
    PROVE  ImportMoves(e)
<1> DEFINE x == exec[e]
           f == Files[x.job][x.i]
           id == ResolveImportSurveyId(f)
<1>1. /\ RegistryInv /\ x \in Execution /\ ExecOK(x, survey) /\ survey \in [Rows -> Survey]
      /\ IdCarriesNumber
  BY AtHand DEF RegistryInv, RegistryTypeOK
<1>2. x.pc = "apply" /\ (Holder(id) # {} \/ Free # {})
  BY DEF Insert
<1>3. PICK r \in IF Holder(id) = {} THEN {CHOOSE n \in Free : TRUE} ELSE Holder(id) :
         survey' = [survey EXCEPT ![r] = Rewritten(f)] /\ ExecutorWrites(e) /\ Done(e, r)
  BY DEF Insert
<1>4. x.job \in Jobs /\ x.i \in Nat \ {0} /\ x.i <= Len(Files[x.job])
  BY <1>1, <1>2 DEF Execution, ExecOK
<1>5. x.i \in 1..Len(Files[x.job])
  BY <1>4, FileRows
<1>6. f \in FileRow /\ id = ImportId(x.job, x.i) /\ id[2] = f.num
  BY <1>4, <1>5, FileRows DEF ImportId
<1> HIDE DEF f, id
<1>7. r \in Rows /\ (survey[r].on => survey[r].num = f.num)
  <2>1. CASE Holder(id) = {}
    <3>1. r \in Free
      BY <1>2, <1>3, <2>1
    <3> QED
      BY <3>1 DEF Free
  <2>2. CASE Holder(id) # {}
    <3>1. r \in Holder(id)
      BY <1>3, <2>2
    <3> QED
      BY <1>1, <1>6, <3>1 DEF Holder, IdCarriesNumber
  <2> QED
    BY <2>1, <2>2
<1>8. Stand(x.job, survey, survey')
  BY <1>1, <1>3, <1>4, <1>5, <1>7, RewriteStands DEF f
<1>9. IsAt(survey', r, ImportId(x.job, x.i))
  <2>1. survey'[r] = Rewritten(f)
    BY <1>1, <1>3, <1>7
  <2> QED
    BY <1>6, <2>1, RewrittenOK DEF IsAt, id
<1>10. calm' \subseteq calm /\ \A o \in calm' \ {e} : Stand(exec[o].job, survey, survey')
  BY <1>3, <1>8, CalmWrite
<1> QED
  BY <1>2, <1>3, <1>7, <1>8, <1>9, <1>10, RowDone

(* The orphans are listed: a file that is through without an error and    *)
(* whose rows have one ward.                                              *)
LEMMA ListOrphansImport ==
    ASSUME ImportInv, NEW e \in Execs, ListOrphans(e)
    PROVE  ImportMoves(e)
<1> DEFINE x == exec[e]
           orphans == IF MayPrune(Cardinality(Orphans(x)), Cardinality(x.touched)) THEN Orphans(x) ELSE {}
           n == [x EXCEPT !.pc = "finish", !.orphans = orphans]
<1>1. /\ x \in Execution /\ ExecOK(x, survey) /\ exec \in [Execs -> Execution]
      /\ e \in calm => CalmOK(x, survey)
  BY AtHand
<1>2. /\ UNCHANGED <<survey, calm>> /\ x.pc = "row" /\ x.i > Len(Files[x.job])
      /\ exec' = [exec EXCEPT ![e] = n]
  BY <1>1 DEF ListOrphans, registry
<1>3. /\ orphans \in SUBSET Rows /\ orphans \cap x.touched = {}
      /\ \A r \in orphans : survey[r].ward \in ReconcileWard(x)
  BY DEF Orphans
<1> HIDE DEF x, orphans
<1>4. x.job \in Jobs /\ x.i \in Nat \ {0} /\ x.wards \in SUBSET Wards
  BY <1>1, <1>2 DEF Execution, ExecOK
<1>5. /\ n \in Execution /\ n.pc = "finish" /\ n.dup = x.dup /\ n.job = x.job /\ n.orphans = orphans
      /\ n.i = x.i /\ n.bad = x.bad /\ n.strategy = x.strategy /\ n.touched = x.touched /\ n.wards = x.wards
  BY <1>1, <1>3 DEF Execution
<1> HIDE DEF n
<1>6. ASSUME e \in calm
      PROVE  CalmOK(n, survey)
  <2>1. AtWork(x) /\ Covered(x, survey) /\ x.dup = {}
    BY <1>1, <1>2, <1>6 DEF CalmOK, AtWork
  <2>2. AtWork(n) /\ LookupHolds(n, survey)
    BY <1>2, <1>5, <2>1 DEF AtWork, LookupHolds
  <2>3. Covered(n, survey)
    BY <1>5, <2>1 DEF Covered
  <2>4. ASSUME orphans # {}
        PROVE  x.bad = 0 /\ x.strategy = "UPDATE" /\ OneWard(x.job)
    <3>1. ReconcileWard(x) # {}
      BY <1>3, <2>4
    <3>2. x.bad = 0 /\ x.strategy = "UPDATE" /\ Cardinality(x.wards) = 1
      BY <3>1 DEF ReconcileWard
    <3>3. PICK w : x.wards = {w}
      <4>1. IsFiniteSet(x.wards)
        BY <2>1 DEF AtWork
      <4> QED
        BY <3>2, <4>1, FS_Singleton
    <3>4. \A k \in 1..Len(Files[x.job]) : Files[x.job][k].ward = w
      BY <1>2, <1>4, <2>1, <3>2, <3>3, FileRows DEF Covered
    <3> QED
      BY <3>2, <3>4 DEF OneWard
  <2>5. Surplus(n)
    BY <1>3, <1>5, <2>4 DEF Surplus
  <2> QED
    BY <2>2, <2>3, <2>5 DEF CalmOK
<1> QED
  BY <1>2, <1>5, <1>6, StandsStill DEF ImportMoves, Fresh

(* A calm execution prunes nothing that is live under an id of its file:  *)
(* the row it touched for that id is live under it, and ids are unique.    *)
LEMMA PruneStands ==
    ASSUME RegistryInv, NEW x \in Execution, CalmOK(x, survey), x.pc = "finish", Plain(x.job),
           Pruned(survey, survey', x.orphans), NEW r \in Rows, NEW k \in 1..Len(Files[x.job]),
           x.orphans # {}
    PROVE  /\ \E q \in x.touched : IsAt(survey, q, ImportId(x.job, k)) /\ survey'[q] = survey[q]
           /\ IsAt(survey, r, ImportId(x.job, k)) => survey'[r] = survey[r]
<1>1. /\ survey \in [Rows -> Survey] /\ UniqueIds(survey) /\ x.i \in Nat \ {0}
      /\ x.touched \in SUBSET Rows
  BY DEF RegistryInv, RegistryTypeOK, Execution
<1>2. /\ x.bad = 0 /\ x.strategy = "UPDATE" /\ x.orphans \cap x.touched = {} /\ Covered(x, survey)
      /\ x.i > Len(Files[x.job]) /\ x.job \in Jobs
  BY DEF CalmOK, Surplus, AtWork
<1>3. k \in 1..(x.i - 1)
  BY <1>1, <1>2, FileRows
<1>4. PICK q \in x.touched : IsAt(survey, q, ImportId(x.job, k))
  BY <1>2, <1>3 DEF Covered
<1>5. q \in Rows /\ q \notin x.orphans
  BY <1>1, <1>2, <1>4
<1>6. \A n \in Rows : n \notin x.orphans => survey'[n] = survey[n]
  BY DEF Pruned
<1>7. IsAt(survey, r, ImportId(x.job, k)) => r = q
  BY <1>1, <1>4, <1>5 DEF IsAt, UniqueIds
<1> QED
  BY <1>4, <1>5, <1>6, <1>7

LEMMA PruneOrphansImport ==
    ASSUME ImportInv, NEW e \in Execs, PruneOrphans(e)
    PROVE  ImportMoves(e)
<1> DEFINE x == exec[e]
           n == [x EXCEPT !.orphans = {}]
<1>1. /\ RegistryInv /\ x \in Execution /\ ExecOK(x, survey) /\ exec \in [Execs -> Execution]
      /\ e \in calm => CalmOK(x, survey)
  BY AtHand
<1>2. /\ x.pc = "finish" /\ x.orphans # {} /\ exec' = [exec EXCEPT ![e] = n]
      /\ Pruned(survey, survey', x.orphans) /\ ExecutorWrites(e)
  BY <1>1 DEF PruneOrphans, Pruned
<1>3. x.orphans \in SUBSET Rows /\ \A d \in x.dup : survey[d[1]].on
  BY <1>1 DEF Execution, ExecOK
<1>4. ASSUME e \in calm
      PROVE  Stand(x.job, survey, survey')
  <2> SUFFICES ASSUME Plain(x.job), NEW r \in Rows, survey[r].on
               PROVE  /\ survey'[r].num = survey[r].num
                      /\ \A k \in 1..Len(Files[x.job]) :
                            IsAt(survey, r, ImportId(x.job, k)) => IsAt(survey', r, ImportId(x.job, k))
    BY DEF Stand
  <2>1. survey'[r].num = survey[r].num
    BY <1>1, <1>2, <1>3, PrunedKeeps DEF RegistryInv, RegistryTypeOK
  <2>2. ASSUME NEW k \in 1..Len(Files[x.job]), IsAt(survey, r, ImportId(x.job, k))
        PROVE  IsAt(survey', r, ImportId(x.job, k))
    <3>1. survey'[r] = survey[r]
      BY <1>1, <1>2, <1>4, <2>2, PruneStands
    <3> QED
      BY <2>2, <3>1 DEF IsAt
  <2> QED
    BY <2>1, <2>2
<1>5. calm' \subseteq calm /\ \A o \in calm' \ {e} : Stand(exec[o].job, survey, survey')
  BY <1>2, <1>4, CalmWrite
<1>6. e \in calm => CalmOK(x, survey')
  BY <1>1, <1>3, <1>4, CalmStays
<1> HIDE DEF x
<1>7. /\ n \in Execution /\ n.pc = x.pc /\ n.dup = x.dup /\ n.job = x.job /\ n.orphans = {}
      /\ n.i = x.i /\ n.bad = x.bad /\ n.strategy = x.strategy /\ n.touched = x.touched /\ n.wards = x.wards
  BY <1>1 DEF Execution
<1> HIDE DEF n
<1>8. ASSUME e \in calm
      PROVE  CalmOK(n, survey')
  <2>1. AtWork(x) /\ LookupHolds(x, survey') /\ Covered(x, survey')
    BY <1>6, <1>8 DEF CalmOK
  <2>2. AtWork(n)
    BY <1>7, <2>1 DEF AtWork
  <2>3. LookupHolds(n, survey')
    BY <1>7, <2>1 DEF LookupHolds
  <2>4. Covered(n, survey')
    BY <1>7, <2>1 DEF Covered
  <2>5. Surplus(n)
    BY <1>7 DEF Surplus
  <2> QED
    BY <2>2, <2>3, <2>4, <2>5 DEF CalmOK
<1>9. Fresh(n)
  BY <1>2, <1>7 DEF Fresh
<1> QED
  BY <1>2, <1>5, <1>7, <1>8, <1>9 DEF ImportMoves

LEMMA ExecutionImport ==
    ASSUME ImportInv, NEW e \in Execs, Process(e) \/ JobThrows(e) \/ Crash(e)
    PROVE  ImportMoves(e)
BY QueueImport, BeginImport, ReadRowImport, KeepImport, UpdateImport, InsertImport, ListOrphansImport,
   PruneOrphansImport DEF Process

(* A write by an operator leaves nobody calm. *)
LEMMA OperatorCalm ==
    ASSUME NEW q \in Reqs, Operator(q)
    PROVE  UNCHANGED exec /\ (calm' = {} \/ UNCHANGED <<survey, calm>>)
<1>1. CASE \/ ListSurveys(q) \/ \E r \in Rows : \/ OpenSurvey(q, r) \/ OpenForm(q, r) \/ DeleteSurvey(q, r)
                                               \/ \E st \in {"ACTIVE", "ARCHIVED"} : ArchiveOrRestore(q, r, st)
  BY <1>1 DEF ListSurveys, OpenSurvey, OpenForm, DeleteSurvey, ArchiveOrRestore, Ask, registry, jobs
<1>2. CASE Find(q) \/ Show(q) \/ FillFromRecord(q) \/ Save(q) \/ Leave(q) \/ CreateCheck(q)
  BY <1>2 DEF Find, Show, FillFromRecord, Save, Leave, CreateCheck, registry, jobs
<1>3. CASE Repair(q)
  <2>1. UNCHANGED registry \/ OperatorWrites
    BY <1>3 DEF Repair
  <2> QED
    BY <1>3, <2>1 DEF Repair, OperatorWrites, registry, jobs
<1>4. CASE Patch(q)
  <2>1. UNCHANGED registry \/ OperatorWrites
    BY <1>4 DEF Patch
  <2> QED
    BY <1>4, <2>1 DEF Patch, OperatorWrites, registry, jobs
<1>5. CASE Remove(q)
  BY <1>5 DEF Remove, OperatorWrites, jobs
<1>6. CASE CreateInsert(q)
  <2>1. UNCHANGED registry \/ OperatorWrites
    BY <1>6 DEF CreateInsert
  <2> QED
    BY <1>6, <2>1 DEF CreateInsert, OperatorWrites, registry, jobs
<1> QED
  BY <1>1, <1>2, <1>3, <1>4, <1>5, <1>6 DEF Operator

LEMMA ImportStep ==
    ASSUME ImportInv, [Next]_vars
    PROVE  ImportInv'
<1>1. /\ RegistryInv /\ exec \in [Execs -> Execution] /\ calm \subseteq Execs
      /\ \A e \in Execs : ExecOK(exec[e], survey) /\ Fresh(exec[e])
      /\ \A e \in calm : CalmOK(exec[e], survey)
  BY DEF ImportInv, RegistryInv, RegistryTypeOK
<1>2. RegistryInv'
  BY <1>1, StepKeeps
<1>3. ASSUME NEW e \in Execs, ImportMoves(e)
      PROVE  ImportInv'
  <2>1. PICK n \in Execution :
           /\ exec' = [exec EXCEPT ![e] = n] /\ Fresh(n)
           /\ e \in calm' => CalmOK(n, survey')
    BY <1>3 DEF ImportMoves
  <2>2. /\ calm' \subseteq calm \cup {e}
        /\ \A o \in calm' \ {e} : Stand(exec[o].job, survey, survey')
    BY <1>3 DEF ImportMoves
  <2>3. exec'[e] = n /\ \A o \in Execs \ {e} : exec'[o] = exec[o]
    BY <1>1, <2>1
  <2>4. ASSUME NEW o \in calm'
        PROVE  CalmOK(exec'[o], survey')
    <3>1. CASE o = e
      BY <2>1, <2>3, <3>1
    <3>2. CASE o # e
      <4>1. o \in calm /\ o \in Execs /\ exec'[o] = exec[o] /\ Stand(exec[o].job, survey, survey')
        BY <1>1, <2>2, <2>3, <3>2
      <4>2. exec[o] \in Execution /\ CalmOK(exec[o], survey) /\ \A d \in exec[o].dup : survey[d[1]].on
        BY <1>1, <4>1 DEF ExecOK
      <4> QED
        BY <4>1, <4>2, CalmStays
    <3> QED
      BY <3>1, <3>2
  <2>5. \A o \in Execs : Fresh(exec'[o])
    BY <1>1, <2>1, <2>3
  <2>6. calm' \subseteq Execs
    BY <1>1, <2>2
  <2> QED
    BY <1>2, <2>4, <2>5, <2>6 DEF ImportInv, CalmOK, AtWork, LookupHolds, Covered, Surplus, Fresh, IsAt
<1>4. ASSUME UNCHANGED exec, calm' = {} \/ UNCHANGED <<survey, calm>>
      PROVE  ImportInv'
  <2>1. calm' \subseteq Execs /\ \A e \in calm' : CalmOK(exec'[e], survey')
    BY <1>1, <1>4
  <2>2. \A e \in Execs : Fresh(exec'[e])
    BY <1>1, <1>4
  <2> QED
    BY <1>2, <2>1, <2>2 DEF ImportInv, CalmOK, AtWork, LookupHolds, Covered, Surplus, Fresh, IsAt
<1>5. CASE \E q \in Reqs : Operator(q)
  BY <1>4, <1>5, OperatorCalm
<1>6. CASE \E e \in Execs : Process(e) \/ JobThrows(e) \/ Crash(e)
  BY <1>3, <1>6, ExecutionImport
<1>7. CASE \E e \in Execs, j \in Jobs : Reprocess(e, j)
  BY <1>3, <1>7, StartImport
<1>8. CASE \E t \in Tabs, j \in Jobs : Upload(t, j) \/ Poll(t, j)
  BY <1>4, <1>8 DEF Upload, Poll, registry
<1>9. CASE \E t \in Tabs, j \in Jobs, e \in Execs : Start(t, j, e)
  BY <1>3, <1>9, StartImport
<1>10. CASE UNCHANGED vars
  BY <1>4, <1>10 DEF vars
<1> QED
  BY <1>5, <1>6, <1>7, <1>8, <1>9, <1>10 DEF Next

LEMMA InitImport ==
    ASSUME Init
    PROVE  ImportInv
<1>1. RegistryInv /\ calm = {} /\ exec = [e \in Execs |-> NoExec]
  BY InitInv DEF Init
<1> QED
  BY <1>1, NoExecFresh DEF ImportInv, Fresh

(* Executions of one job write the survey table between them, each by what *)
(* it looked up earlier.  As long as no operator and no other job does,    *)
(* none of them prunes a survey of its file: the row an execution touched   *)
(* for a row of the file is live under that row's id when it prunes, and   *)
(* what is pruned was not touched.                                         *)
THEOREM FileIsSpared == Spec => PruneSparesTheFile
<1>1. Init => ImportInv
  BY InitImport
<1>2. ImportInv /\ [Next]_vars => ImportInv'
  BY ImportStep
<1>3. ImportInv /\ [Next]_vars =>
        [\A e \in Execs :
            LET x == exec[e] IN
            e \in calm /\ PruneOrphans(e) /\ OwnIds(x.job) /\ OneUse(x.job) =>
               \A n \in 1..Len(Files[x.job]) : \E r \in Rows :
                   Live(r)' /\ survey'[r].id = ResolveImportSurveyId(Files[x.job][n])]_vars
  <2> SUFFICES ASSUME ImportInv, NEW e \in Execs, e \in calm, PruneOrphans(e),
                      OwnIds(exec[e].job), OneUse(exec[e].job), NEW n \in 1..Len(Files[exec[e].job])
               PROVE  \E r \in Rows :
                         Live(r)' /\ survey'[r].id = ResolveImportSurveyId(Files[exec[e].job][n])
    BY Zenon
  <2> DEFINE x == exec[e]
  <2>1. RegistryInv /\ x \in Execution /\ CalmOK(x, survey)
    BY AtHand
  <2>2. x.pc = "finish" /\ x.orphans # {} /\ Pruned(survey, survey', x.orphans)
    BY DEF PruneOrphans, Pruned
  <2>3. Plain(x.job) /\ x.touched \subseteq Rows
    BY <2>1, <2>2 DEF CalmOK, Surplus, Plain, Execution
  <2>4. PICK q \in x.touched : IsAt(survey, q, ImportId(x.job, n)) /\ survey'[q] = survey[q]
    <3>1. \A r \in Rows : \E q \in x.touched : IsAt(survey, q, ImportId(x.job, n)) /\ survey'[q] = survey[q]
      BY <2>1, <2>2, <2>3, PruneStands
    <3>2. x.orphans \subseteq Rows
      BY <2>1 DEF Execution
    <3> QED
      BY <2>2, <3>1, <3>2
  <2>5. /\ q \in Rows /\ survey'[q].on /\ ~survey'[q].gone
        /\ survey'[q].id = ResolveImportSurveyId(Files[exec[e].job][n])
    BY <2>3, <2>4 DEF IsAt, ImportId
  <2>6. Live(q)'
    BY <2>5 DEF Live
  <2> QED
    BY <2>5, <2>6
<1> QED
  BY <1>1, <1>2, <1>3, PTL DEF Spec, PruneSparesTheFile

-----------------------------------------------------------------------------
(* Executions that are alone with the table.                               *)

(* Survey v is one that the lookup for the file's row f may find. *)
Matches(v, f) ==
    /\ v.on
    /\ \/ v.id \in Ids2(f)
       \/ ~v.gone /\ v.ward = f.ward /\ v.num = f.num
Absent(s, f) == \A r \in Rows : ~Matches(s[r], f)
StoredIn(s, f, r) ==
    IsAt(s, r, ResolveImportSurveyId(f)) /\ s[r].ward = f.ward /\ s[r].val = f.val
OrphansIn(s, x) ==
    {r \in Rows : /\ s[r].on /\ ~s[r].gone /\ s[r].status # "DELETED"
                  /\ s[r].ward \in ReconcileWard(x) /\ r \notin x.touched}

(* Row n of the file has the number of a good row before row i. *)
Known(j, n, i) == \E m \in 1..(i - 1) : Files[j][m].ok /\ Files[j][m].num = Files[j][n].num

(* What such an execution x knows of the table s: its lookup still holds;  *)
(* the rows it is through with are stored, but for those a later row gave   *)
(* again; the rows to come that the preview called new are absent, and the  *)
(* others are not; and what it is about to prune is all there is to prune.  *)
Looked(x, s) ==
    x.pc = "apply" =>
        LET f == Files[x.job][x.i] IN
        /\ x.dup = {} <=> Absent(s, f)
        /\ \A d \in x.dup :
              /\ d[2] = s[d[1]] /\ Matches(s[d[1]], f)
              /\ \A q \in Rows \ {d[1]} : ~(s[q].on /\ s[q].id = ResolveImportSurveyId(f))
Landed(x, s) ==
    OwnIds(x.job) /\ x.strategy = "UPDATE" /\ x.bad = 0 =>
        LET F == Files[x.job] IN
        \A k \in 1..(x.i - 1) :
            (\A m \in (k + 1)..(x.i - 1) : F[m].ward # F[k].ward \/ F[m].num # F[k].num)
                => \E r \in x.touched : StoredIn(s, F[k], r)
Foreseen(x, s) ==
    OwnIds(x.job) /\ OneKind(x.job) /\ x.strategy = "UPDATE" =>
        LET F == Files[x.job] IN
        \A n \in x.i..Len(F) :
            F[n].ok => /\ ~Known(x.job, n, n) => (Absent(s, F[n]) <=> n \in x.new)
                       /\ Known(x.job, n, x.i) => ~Absent(s, F[n])
                       /\ Known(x.job, n, n) => n \notin x.new
Reconciled(x, s) ==
    x.pc = "finish" =>
        \/ x.orphans = {} /\ ~MayPrune(Cardinality(OrphansIn(s, x)), Cardinality(x.touched))
        \/ x.orphans = OrphansIn(s, x)
QuietOK(x, s) == Looked(x, s) /\ Landed(x, s) /\ Foreseen(x, s) /\ Reconciled(x, s)

AloneInv ==
    /\ ImportInv
    /\ quiet \subseteq calm
    /\ \A e \in quiet : QuietOK(exec[e], survey)

(* What the lookup finds. *)
LEMMA LookupFinds ==
    ASSUME RegistryInv, NEW f
    PROVE  /\ FindImportDuplicate(f) = {} <=> Absent(survey, f)
           /\ \A r \in FindImportDuplicate(f) :
                 /\ r \in Rows /\ Matches(survey[r], f)
                 /\ \A q \in Rows \ {r} : ~(survey[q].on /\ survey[q].id = ResolveImportSurveyId(f))
<1> DEFINE id == ResolveImportSurveyId(f)
           same == {r \in Rows : Live(r) /\ survey[r].ward = f.ward /\ survey[r].num = f.num}
<1>1. UniqueIds(survey) /\ Ids2(f) = {id, f.raw}
  BY DEF RegistryInv, Ids2
<1>2. \A k : \A r : r \in Holder(k) <=> r \in Rows /\ survey[r].on /\ survey[r].id = k
  BY DEF Holder
<1>3. \A r : r \in same <=> r \in Rows /\ survey[r].on /\ ~survey[r].gone /\ survey[r].ward = f.ward
                              /\ survey[r].num = f.num
  BY DEF Live
<1>4. \/ Holder(id) # {} /\ FindImportDuplicate(f) = Holder(id)
      \/ Holder(id) = {} /\ Holder(f.raw) # {} /\ FindImportDuplicate(f) = Holder(f.raw)
      \/ Holder(id) = {} /\ Holder(f.raw) = {} /\ same = {} /\ FindImportDuplicate(f) = {}
      \/ Holder(id) = {} /\ Holder(f.raw) = {} /\ same # {} /\ FindImportDuplicate(f) = {CHOOSE r \in same : TRUE}
  BY DEF FindImportDuplicate
<1> HIDE DEF same, id
<1>5. same # {} => (CHOOSE r \in same : TRUE) \in same
  OBVIOUS
<1>6. Absent(survey, f) <=> Holder(id) = {} /\ Holder(f.raw) = {} /\ same = {}
  BY <1>1, <1>2, <1>3 DEF Absent, Matches
<1>7. FindImportDuplicate(f) = {} <=> Absent(survey, f)
  BY <1>4, <1>6
<1>8. ASSUME NEW r \in FindImportDuplicate(f)
      PROVE  /\ r \in Rows /\ Matches(survey[r], f)
             /\ \A q \in Rows \ {r} : ~(survey[q].on /\ survey[q].id = id)
  <2>1. r \in Holder(id) \/ (Holder(id) = {} /\ (r \in Holder(f.raw) \/ r \in same))
    BY <1>4, <1>5
  <2>2. r \in Rows /\ Matches(survey[r], f)
    BY <1>1, <1>2, <1>3, <2>1 DEF Matches
  <2>3. \A q \in Rows \ {r} : ~(survey[q].on /\ survey[q].id = id)
    BY <1>1, <1>2, <2>1 DEF UniqueIds
  <2> QED
    BY <2>2, <2>3
<1> QED
  BY <1>7, <1>8 DEF id

(* What matches a row of the file has its number. *)
LEMMA MatchNumber ==
    ASSUME NEW j \in Jobs, OwnIds(j), NEW n \in 1..Len(Files[j]), NEW v,
           Matches(v, Files[j][n]), v.id[2] = v.num
    PROVE  v.num = Files[j][n].num
BY FileRows DEF Matches, Ids2, OwnIds, ImportId

(* Of the good rows with a number, the first is not known before. *)
LEMMA FirstOfNumber ==
    ASSUME NEW j \in Jobs, NEW n \in Nat, Known(j, n, n)
    PROVE  \E m \in 1..(n - 1) : /\ Files[j][m].ok /\ Files[j][m].num = Files[j][n].num
                                 /\ ~Known(j, m, m)
<1> DEFINE T == {m \in 1..(n - 1) : Files[j][m].ok /\ Files[j][m].num = Files[j][n].num}
<1>1. T \in SUBSET Nat /\ T # {}
  BY DEF Known
<1>2. PICK m \in T : \A k \in T : m <= k
  <2> HIDE DEF T
  <2> QED
    BY <1>1, LeastNat
<1>3. ASSUME Known(j, m, m)
      PROVE  FALSE
  <2>1. PICK k \in 1..(m - 1) : Files[j][k].ok /\ Files[j][k].num = Files[j][m].num
    BY <1>3 DEF Known
  <2>2. k \in T /\ k < m
    BY <2>1
  <2> QED
    BY <1>2, <2>2
<1> QED
  BY <1>2, <1>3

(* In a file of one kind, the rows the preview finds twice are those whose *)
(* number a good row before them has.                                      *)
LEMMA RepeatedIs ==
    ASSUME NEW j \in Jobs, OwnIds(j), OneKind(j)
    PROVE  Repeated(j) = {n \in 1..Len(Files[j]) : Files[j][n].ok /\ Known(j, n, n)}
<1> DEFINE F == Files[j]
           S == 1..Len(F)
           P(g) == g = [n \in S |-> \E m \in 1..(n - 1) : /\ F[m].ok /\ ~g[m]
                                                         /\ Ids2(F[m]) \cap Ids2(F[n]) # {}]
           f == [n \in S |-> Known(j, n, n)]
           rep == CHOOSE g : P(g)
<1>1. Len(F) \in Nat
  BY FileRows
<1>2. \A n, m \in S : Ids2(F[m]) \cap Ids2(F[n]) # {} <=> F[m].num = F[n].num
  <2> SUFFICES ASSUME NEW n \in S, NEW m \in S
               PROVE  Ids2(F[m]) \cap Ids2(F[n]) # {} <=> F[m].num = F[n].num
    OBVIOUS
  <2>1. \A k \in {n, m} : \A id \in Ids2(F[k]) : id[2] = F[k].num
    BY FileRows DEF OwnIds, Ids2, ImportId
  <2>2. F[m].num = F[n].num => ResolveImportSurveyId(F[m]) = ResolveImportSurveyId(F[n])
    BY DEF OneKind, ResolveImportSurveyId
  <2> QED
    BY <2>1, <2>2 DEF Ids2
<1>3. \A n \in S : n \in Nat /\ \A m \in 1..(n - 1) : m \in S
  BY <1>1
<1>4. \A g, n : P(g) /\ n \in S => (g[n] <=> Known(j, n, n))
  <2> SUFFICES ASSUME NEW g, P(g), NEW n \in S
               PROVE  g[n] <=> Known(j, n, n)
    OBVIOUS
  <2>1. \A k \in S : g[k] <=> \E m \in 1..(k - 1) : /\ F[m].ok /\ ~g[m]
                                                   /\ Ids2(F[m]) \cap Ids2(F[k]) # {}
    OBVIOUS
  <2> HIDE DEF P, F, S
  <2>2. \A k \in S : g[k] <=> \E m \in 1..(k - 1) : F[m].ok /\ ~g[m] /\ F[m].num = F[k].num
    BY <1>2, <1>3, <2>1
  <2>3. \A k \in S : g[k] => Known(j, k, k)
    BY <2>2 DEF Known, F
  <2>4. ASSUME Known(j, n, n)
        PROVE  g[n]
    <3>1. PICK m \in 1..(n - 1) : F[m].ok /\ F[m].num = F[n].num /\ ~Known(j, m, m)
      BY <1>3, <2>4, FirstOfNumber DEF F
    <3> QED
      BY <1>3, <2>2, <2>3, <3>1
  <2> QED
    BY <2>3, <2>4
<1>5. P(f)
  <2>1. ASSUME NEW n \in S
        PROVE  Known(j, n, n) <=> \E m \in 1..(n - 1) : /\ F[m].ok /\ ~f[m]
                                                        /\ Ids2(F[m]) \cap Ids2(F[n]) # {}
    <3>1. \A m \in 1..(n - 1) : m \in S /\ f[m] = Known(j, m, m)
      BY <1>3
    <3> HIDE DEF f, S, F
    <3>2. ASSUME Known(j, n, n)
          PROVE  \E m \in 1..(n - 1) : F[m].ok /\ ~f[m] /\ Ids2(F[m]) \cap Ids2(F[n]) # {}
      <4>1. PICK m \in 1..(n - 1) : F[m].ok /\ F[m].num = F[n].num /\ ~Known(j, m, m)
        BY <1>3, <3>2, FirstOfNumber DEF F
      <4> QED
        BY <1>2, <3>1, <4>1
    <3>3. ASSUME NEW m \in 1..(n - 1), F[m].ok, Ids2(F[m]) \cap Ids2(F[n]) # {}
          PROVE  Known(j, n, n)
      BY <1>2, <3>1, <3>3 DEF Known, F
    <3> QED
      BY <3>2, <3>3
  <2>2. \A n \in S : f[n] = \E m \in 1..(n - 1) : /\ F[m].ok /\ ~f[m]
                                                 /\ Ids2(F[m]) \cap Ids2(F[n]) # {}
    BY <2>1 DEF Known
  <2> HIDE DEF F
  <2> QED
    BY <2>2, Zenon
<1>6. Repeated(j) = {n \in DOMAIN rep : F[n].ok /\ rep[n]}
  BY DEF Repeated
<1> HIDE DEF P
<1>7. P(rep)
  BY <1>5
<1>8. DOMAIN rep = S
  BY <1>7 DEF P
<1>9. \A n \in S : rep[n] <=> Known(j, n, n)
  BY <1>4, <1>7
<1> HIDE DEF rep, S
<1> QED
  BY <1>6, <1>8, <1>9 DEF S

(* A row is rewritten from row m of the file. *)
LEMMA RewriteSeen ==
    ASSUME RegistryInv, NEW j \in Jobs, OwnIds(j), OneKind(j), NEW m \in 1..Len(Files[j]), NEW r \in Rows,
           survey' = [survey EXCEPT ![r] = Rewritten(Files[j][m])],
           survey[r].on => survey[r].num = Files[j][m].num, NEW n \in 1..Len(Files[j])
    PROVE  /\ Files[j][n].num = Files[j][m].num => ~Absent(survey', Files[j][n])
           /\ Files[j][n].num # Files[j][m].num => (Absent(survey', Files[j][n]) <=> Absent(survey, Files[j][n]))
<1> DEFINE f == Files[j][n]
           v == Rewritten(Files[j][m])
<1>1. f \in FileRow /\ Files[j][m] \in FileRow
  BY FileRows
<1>2. v.on /\ v.id = ImportId(j, m) /\ v.num = Files[j][m].num /\ v.id[2] = v.num
  BY <1>1, RewrittenOK, FileRows DEF ImportId
<1>3. survey \in [Rows -> Survey] /\ IdCarriesNumber
  BY DEF RegistryInv, RegistryTypeOK
<1>4. survey'[r] = v /\ \A q \in Rows \ {r} : survey'[q] = survey[q]
  BY <1>3
<1> HIDE DEF v
<1>5. ASSUME f.num = Files[j][m].num
      PROVE  Matches(survey'[r], f)
  <2>1. ImportId(j, m) = ResolveImportSurveyId(f)
    BY <1>5 DEF OneKind, ImportId, ResolveImportSurveyId
  <2> QED
    BY <1>2, <1>4, <2>1 DEF Matches, Ids2
<1>6. ASSUME f.num # Files[j][m].num
      PROVE  ~Matches(survey'[r], f) /\ ~Matches(survey[r], f)
  <2>1. ~Matches(v, f)
    BY <1>2, <1>6, MatchNumber
  <2>2. ASSUME Matches(survey[r], f)
        PROVE  FALSE
    <3>1. survey[r].on
      BY <2>2 DEF Matches
    <3>2. survey[r].id[2] = survey[r].num
      BY <1>3, <3>1 DEF IdCarriesNumber
    <3> QED
      BY <1>6, <2>2, <3>1, <3>2, MatchNumber
  <2> QED
    BY <1>4, <2>1, <2>2
<1> HIDE DEF f
<1>7. f.num = Files[j][m].num => ~Absent(survey', f)
  BY <1>5 DEF Absent
<1>8. f.num # Files[j][m].num => (Absent(survey', f) <=> Absent(survey, f))
  BY <1>4, <1>6 DEF Absent
<1> QED
  BY <1>7, <1>8 DEF f

(* The next row of the file: x becomes y and the table s becomes t. *)
LEMMA ForeseenOn ==
    ASSUME NEW x, NEW y, NEW s, NEW t, x.job \in Jobs, x.i \in Nat \ {0}, x.i <= Len(Files[x.job]),
           y.job = x.job, y.strategy = x.strategy, y.new = x.new, y.i = x.i + 1,
           Foreseen(x, s),
           OwnIds(x.job) /\ OneKind(x.job) /\ x.strategy = "UPDATE" =>
               \A n \in (x.i + 1)..Len(Files[x.job]) :
                   /\ Files[x.job][x.i].ok /\ Files[x.job][n].num = Files[x.job][x.i].num
                         => ~Absent(t, Files[x.job][n])
                   /\ ~Files[x.job][x.i].ok \/ Files[x.job][n].num # Files[x.job][x.i].num
                         => (Absent(t, Files[x.job][n]) <=> Absent(s, Files[x.job][n]))
    PROVE  Foreseen(y, t)
<1> DEFINE F == Files[x.job]
<1> SUFFICES ASSUME OwnIds(x.job), OneKind(x.job), x.strategy = "UPDATE",
                    NEW n \in (x.i + 1)..Len(F), F[n].ok
             PROVE  /\ ~Known(x.job, n, n) => (Absent(t, F[n]) <=> n \in x.new)
                    /\ Known(x.job, n, x.i + 1) => ~Absent(t, F[n])
                    /\ Known(x.job, n, n) => n \notin x.new
  BY DEF Foreseen
<1>1. /\ F[x.i].ok /\ F[n].num = F[x.i].num => ~Absent(t, F[n])
      /\ ~F[x.i].ok \/ F[n].num # F[x.i].num => (Absent(t, F[n]) <=> Absent(s, F[n]))
  OBVIOUS
<1>2. n \in x.i..Len(F) /\ n \in Nat /\ x.i \in 1..(n - 1) /\ Len(F) \in Nat
  BY FileRows
<1>3. /\ ~Known(x.job, n, n) => (Absent(s, F[n]) <=> n \in x.new)
      /\ Known(x.job, n, x.i) => ~Absent(s, F[n])
      /\ Known(x.job, n, n) => n \notin x.new
  BY <1>2 DEF Foreseen
<1>4. F[x.i].ok /\ F[x.i].num = F[n].num => Known(x.job, n, n)
  BY <1>2 DEF Known
<1>5. ASSUME Known(x.job, n, x.i + 1)
      PROVE  (F[x.i].ok /\ F[x.i].num = F[n].num) \/ Known(x.job, n, x.i)
  <2>1. PICK k \in 1..x.i : F[k].ok /\ F[k].num = F[n].num
    BY <1>5 DEF Known
  <2>2. k = x.i \/ k \in 1..(x.i - 1)
    BY <2>1
  <2> QED
    BY <2>1, <2>2 DEF Known
<1> HIDE DEF F
<1> QED
  BY <1>1, <1>3, <1>4, <1>5

(* What is stored for another parcel than that at hand stays stored. *)
StoredStay(x, s, t) ==
    LET F == Files[x.job] IN
    \A k \in 1..(x.i - 1), q \in x.touched :
        /\ StoredIn(s, F[k], q)
        /\ F[x.i].ward # F[k].ward \/ F[x.i].num # F[k].num
        => StoredIn(t, F[k], q)

(* A row of the file landed in a row of the table. *)
LEMMA LandedOn ==
    ASSUME NEW x, NEW y, NEW s, NEW t, x.job \in Jobs, x.i \in Nat \ {0}, x.i <= Len(Files[x.job]),
           y.job = x.job, y.strategy = x.strategy, y.bad = x.bad, y.i = x.i + 1, Landed(x, s),
           x.touched \subseteq y.touched,
           OwnIds(x.job) /\ x.strategy = "UPDATE" =>
               \E r \in y.touched : StoredIn(t, Files[x.job][x.i], r),
           OwnIds(x.job) /\ x.strategy = "UPDATE" => StoredStay(x, s, t)
    PROVE  Landed(y, t)
<1> DEFINE F == Files[x.job]
<1>3. y.i - 1 = x.i
  OBVIOUS
<1> SUFFICES ASSUME OwnIds(x.job), x.strategy = "UPDATE", x.bad = 0, NEW k \in 1..x.i,
                    \A m \in (k + 1)..x.i : F[m].ward # F[k].ward \/ F[m].num # F[k].num
             PROVE  \E q \in y.touched : StoredIn(t, F[k], q)
  BY <1>3, Zenon DEF Landed
<1>1. CASE k = x.i
  BY <1>1
<1>2. CASE k # x.i
  <2>1. k \in 1..(x.i - 1) /\ x.i \in (k + 1)..x.i
    BY <1>2
  <2>2. \A m \in (k + 1)..(x.i - 1) : F[m].ward # F[k].ward \/ F[m].num # F[k].num
    OBVIOUS
  <2>3. PICK q \in x.touched : StoredIn(s, F[k], q)
    BY <2>1, <2>2 DEF Landed
  <2>4. F[x.i].ward # F[k].ward \/ F[x.i].num # F[k].num
    BY <2>1
  <2>5. StoredIn(t, F[k], q)
    BY <2>1, <2>3, <2>4 DEF StoredStay
  <2> QED
    BY <2>3, <2>5
<1> QED
  BY <1>1, <1>2

(* What is rewritten from row m of the file is not what is stored for a    *)
(* row of another parcel.                                                  *)
LEMMA StoredElsewhere ==
    ASSUME RegistryInv, NEW j \in Jobs, OwnIds(j), NEW m \in 1..Len(Files[j]), NEW k \in 1..Len(Files[j]),
           Files[j][m].ward # Files[j][k].ward \/ Files[j][m].num # Files[j][k].num,
           NEW r \in Rows, NEW q \in Rows, StoredIn(survey, Files[j][k], q),
           survey[r].on => Matches(survey[r], Files[j][m])
    PROVE  q # r
<1> SUFFICES ASSUME q = r
             PROVE  FALSE
  OBVIOUS
<1> DEFINE f == Files[j][k]
           g == Files[j][m]
           v == survey[q]
<1>1. /\ v.on /\ v.id = ResolveImportSurveyId(f) /\ v.ward = f.ward /\ Matches(v, g)
      /\ v.id[2] = v.num
  BY DEF StoredIn, IsAt, RegistryInv, IdCarriesNumber
<1>2. f \in FileRow /\ g \in FileRow
  BY FileRows
<1>3. v.id[1] = f.ward /\ v.id[2] = f.num
  BY <1>1 DEF ResolveImportSurveyId, GenerateSurveyId
<1>4. v.num = g.num
  BY <1>1, MatchNumber
<1>5. f.ward # g.ward /\ f.ward # 0
  BY <1>1, <1>2, <1>3, <1>4, SurveyConstants DEF FileRow
<1>6. ResolveImportSurveyId(g)[1] = g.ward /\ g.raw[1] \in {0, g.ward}
  BY DEF ResolveImportSurveyId, GenerateSurveyId, OwnIds
<1> HIDE DEF f, g, v
<1> QED
  BY <1>1, <1>3, <1>5, <1>6 DEF Matches, Ids2

(* What a step of execution e does to the executions that are alone. *)
WatchMoves(e) ==
    /\ quiet' \subseteq quiet \cup {e} /\ quiet' \subseteq calm'
    /\ quiet' \subseteq {e} \/ UNCHANGED survey
    /\ \A o \in Execs \ {e} : exec'[o] = exec[o]
    /\ e \in quiet' => QuietOK(exec'[e], survey')

LEMMA QuietAtHand ==
    ASSUME AloneInv, NEW e \in Execs
    PROVE  /\ ImportInv /\ RegistryInv /\ exec \in [Execs -> Execution] /\ exec[e] \in Execution
           /\ ExecOK(exec[e], survey) /\ Fresh(exec[e]) /\ quiet \subseteq calm
           /\ survey \in [Rows -> Survey] /\ UniqueIds(survey) /\ IdCarriesNumber
           /\ e \in quiet => AtWork(exec[e]) /\ QuietOK(exec[e], survey)
           /\ exec[e].pc \notin {"row", "apply", "finish"} => e \notin quiet
BY AtHand DEF AloneInv, ImportInv, RegistryInv, RegistryTypeOK, CalmOK, AtWork

LEMMA StartQuiet ==
    ASSUME AloneInv, NEW t, NEW j \in Jobs, NEW e \in Execs, Start(t, j, e) \/ Reprocess(e, j)
    PROVE  WatchMoves(e)
<1>1. UNCHANGED <<survey, quiet, calm>> /\ exec[e].pc = "idle" /\ \A o \in Execs \ {e} : exec'[o] = exec[o]
  BY QuietAtHand DEF Start, Reprocess, registry
<1>2. e \notin quiet /\ quiet \subseteq calm
  BY <1>1, QuietAtHand
<1> QED
  BY <1>1, <1>2 DEF WatchMoves

LEMMA QueueQuiet ==
    ASSUME AloneInv, NEW e \in Execs, Enqueue(e) \/ Take(e) \/ JobThrows(e) \/ Finish(e) \/ Crash(e)
    PROVE  WatchMoves(e)
<1>1. /\ quiet \subseteq calm /\ exec \in [Execs -> Execution]
      /\ exec[e].pc \notin {"row", "apply", "finish"} => e \notin quiet
  BY QuietAtHand
<1>2. UNCHANGED survey /\ \A o \in Execs \ {e} : exec'[o] = exec[o]
  BY <1>1 DEF Enqueue, Take, JobThrows, Finish, Crash, registry
<1>3. quiet' \subseteq quiet /\ e \notin quiet' /\ quiet' \subseteq calm'
  BY <1>1 DEF Enqueue, Take, JobThrows, Finish, Crash, registry
<1> QED
  BY <1>2, <1>3 DEF WatchMoves

(* What a preview would call new when the execution begins are the rows    *)
(* that are absent and whose number no good row before them has.           *)
LEMMA BeginQuiet ==
    ASSUME AloneInv, NEW e \in Execs, Begin(e)
    PROVE  WatchMoves(e)
<1> DEFINE x == exec[e]
           j == x.job
           new == PreviewedNew(j)
           plan == job[j].strategy
           n == [x EXCEPT !.pc = "row", !.strategy = plan, !.new = new]
<1>1. /\ x \in Execution /\ ExecOK(x, survey) /\ Fresh(x) /\ exec \in [Execs -> Execution]
      /\ RegistryInv /\ quiet \subseteq calm
  BY QuietAtHand
<1>2. /\ exec' = [exec EXCEPT ![e] = n] /\ x.pc = "begin" /\ UNCHANGED survey
      /\ calm' = calm \cup {e} /\ quiet' = quiet \cup {e}
  BY <1>1 DEF Begin
<1>3. j \in Jobs
  BY <1>1, <1>2 DEF ExecOK
<1>4. ASSUME OwnIds(j), OneKind(j), NEW m \in 1..Len(Files[j]), Files[j][m].ok
      PROVE  /\ ~Known(j, m, m) => (Absent(survey, Files[j][m]) <=> m \in new)
             /\ Known(j, m, m) => m \notin new
  <2>1. FindImportDuplicate(Files[j][m]) = {} <=> Absent(survey, Files[j][m])
    BY <1>1, LookupFinds
  <2>2. m \in Repeated(j) <=> Known(j, m, m)
    BY <1>3, <1>4, RepeatedIs
  <2>3. m \in new <=> ~(m \in Repeated(j) \/ FindImportDuplicate(Files[j][m]) # {})
    BY <1>4 DEF PreviewedNew, PreviewClass
  <2> QED
    BY <2>1, <2>2, <2>3
<1> HIDE DEF new, plan
<1>5. n.pc = "row" /\ n.job = j /\ n.i = 1 /\ n.new = new
  BY <1>1, <1>2 DEF Execution, Fresh
<1>6. \A o \in Execs \ {e} : exec'[o] = exec[o]
  BY <1>1, <1>2
<1>7. exec'[e] = n
  BY <1>1, <1>2
<1> HIDE DEF n, j, x
<1>8. Looked(n, survey) /\ Reconciled(n, survey) /\ Landed(n, survey)
  BY <1>5 DEF Looked, Reconciled, Landed
<1>9. Foreseen(n, survey)
  <2>1. \A m \in 1..Len(Files[j]) : ~Known(j, m, 1)
    BY DEF Known
  <2> QED
    BY <1>4, <1>5, <2>1 DEF Foreseen
<1>10. QuietOK(n, survey')
  BY <1>2, <1>8, <1>9 DEF QuietOK
<1> QED
  BY <1>1, <1>2, <1>6, <1>7, <1>10 DEF WatchMoves

LEMMA ReadRowQuiet ==
    ASSUME AloneInv, NEW e \in Execs, ReadRow(e)
    PROVE  WatchMoves(e)
<1> DEFINE x == exec[e]
           f == Files[x.job][x.i]
           found == FindImportDuplicate(f)
           dup == {<<r, survey[r]>> : r \in found}
<1>1. /\ RegistryInv /\ x \in Execution /\ ExecOK(x, survey) /\ exec \in [Execs -> Execution]
      /\ quiet \subseteq calm
      /\ e \in quiet => AtWork(x) /\ QuietOK(x, survey)
  BY QuietAtHand
<1>2. UNCHANGED <<survey, calm, quiet>> /\ x.pc = "row" /\ x.i <= Len(Files[x.job])
  BY DEF ReadRow, registry
<1>3. x.i \in Nat \ {0} /\ x.job \in Jobs
  BY <1>1, <1>2 DEF Execution, ExecOK
<1>4. \A o \in Execs \ {e} : exec'[o] = exec[o]
  BY <1>1 DEF ReadRow
<1> SUFFICES ASSUME e \in quiet
             PROVE  QuietOK(exec'[e], survey)
  BY <1>1, <1>2, <1>4 DEF WatchMoves
<1>5. CASE f.ok
  <2> DEFINE n == [x EXCEPT !.pc = "apply", !.dup = dup]
  <2>1. exec'[e] = n
    BY <1>1, <1>5 DEF ReadRow
  <2>2. /\ found = {} <=> Absent(survey, f)
        /\ \A r \in found :
              /\ r \in Rows /\ Matches(survey[r], f)
              /\ \A q \in Rows \ {r} : ~(survey[q].on /\ survey[q].id = ResolveImportSurveyId(f))
    BY <1>1, LookupFinds
  <2> HIDE DEF found
  <2>3. dup = {} <=> found = {}
    OBVIOUS
  <2>4. ASSUME NEW d \in dup
        PROVE  /\ d[2] = survey[d[1]] /\ Matches(survey[d[1]], f)
               /\ \A q \in Rows \ {d[1]} : ~(survey[q].on /\ survey[q].id = ResolveImportSurveyId(f))
    <3>1. PICK r \in found : d = <<r, survey[r]>>
      OBVIOUS
    <3> QED
      BY <2>2, <3>1
  <2> HIDE DEF dup, x
  <2>5. /\ n.pc = "apply" /\ n.dup = dup /\ n.job = x.job /\ n.i = x.i /\ n.bad = x.bad
        /\ n.strategy = x.strategy /\ n.touched = x.touched /\ n.new = x.new
    BY <1>1 DEF Execution
  <2> HIDE DEF n
  <2>6. Looked(n, survey)
    BY <2>2, <2>3, <2>4, <2>5 DEF Looked, f
  <2>7. Landed(n, survey) /\ Foreseen(n, survey) /\ Reconciled(n, survey)
    BY <1>1, <2>5 DEF QuietOK, Landed, Foreseen, Reconciled
  <2> QED
    BY <2>1, <2>6, <2>7 DEF QuietOK
<1>6. CASE ~f.ok
  <2> DEFINE n == [x EXCEPT !.i = x.i + 1, !.bad = x.bad + 1]
  <2>1. exec'[e] = n
    BY <1>1, <1>6 DEF ReadRow
  <2>2. x.bad \in Nat
    BY <1>1 DEF Execution
  <2> HIDE DEF x
  <2>3. /\ n.pc = "row" /\ n.job = x.job /\ n.i = x.i + 1 /\ n.bad = x.bad + 1
        /\ n.strategy = x.strategy /\ n.new = x.new
    BY <1>1, <1>2 DEF Execution
  <2> HIDE DEF n
  <2>4. Looked(n, survey) /\ Landed(n, survey) /\ Reconciled(n, survey)
    BY <2>2, <2>3 DEF Looked, Landed, Reconciled
  <2>5. Foreseen(x, survey)
    BY <1>1 DEF QuietOK
  <2>6. Foreseen(n, survey)
    BY <1>2, <1>3, <1>6, <2>3, <2>5, ForeseenOn DEF f
  <2> QED
    BY <2>1, <2>4, <2>6 DEF QuietOK
<1> QED
  BY <1>5, <1>6

(* The row at hand landed in row r of the table: it was stored there, or   *)
(* what was rewritten was free or had been found for it.                   *)
LEMMA RowLanded ==
    ASSUME AloneInv, NEW e \in Execs, e \in quiet, exec[e].pc = "apply", NEW r \in Rows, Done(e, r),
           exec[e].strategy = "UPDATE" =>
               LET f == Files[exec[e].job][exec[e].i] IN
               \/ UNCHANGED survey /\ StoredIn(survey, f, r)
               \/ /\ survey' = [survey EXCEPT ![r] = Rewritten(f)]
                  /\ survey[r].on => Matches(survey[r], f)
    PROVE  QuietOK(exec'[e], survey')
<1> DEFINE x == exec[e]
           j == x.job
           f == Files[j][x.i]
           touched == x.touched \cup {r}
           wards == x.wards \cup {f.ward}
           n == [x EXCEPT !.pc = "row", !.i = x.i + 1, !.dup = {}, !.good = x.good + 1,
                          !.touched = touched, !.wards = wards]
<1>1. /\ RegistryInv /\ x \in Execution /\ ExecOK(x, survey) /\ exec \in [Execs -> Execution]
      /\ AtWork(x) /\ QuietOK(x, survey) /\ survey \in [Rows -> Survey] /\ IdCarriesNumber
  BY QuietAtHand
<1>2. exec'[e] = n
  BY <1>1 DEF Done
<1>3. /\ x.i \in Nat \ {0} /\ j \in Jobs /\ x.i <= Len(Files[j]) /\ f.ok /\ x.touched \subseteq Rows
  BY <1>1 DEF Execution, AtWork
<1>4. Len(Files[j]) \in Nat /\ x.i \in 1..Len(Files[j])
  BY <1>3, FileRows
<1>5. f \in FileRow
  BY <1>3, <1>4, FileRows
<1>6. x.strategy = "UPDATE" =>
         \/ UNCHANGED survey /\ StoredIn(survey, f, r)
         \/ survey' = [survey EXCEPT ![r] = Rewritten(f)] /\ (survey[r].on => Matches(survey[r], f))
  OBVIOUS
<1>7. ASSUME x.strategy = "UPDATE", OwnIds(j),
             survey' = [survey EXCEPT ![r] = Rewritten(f)], survey[r].on => Matches(survey[r], f)
      PROVE  survey[r].on => survey[r].num = f.num
  BY <1>1, <1>3, <1>4, <1>7, MatchNumber DEF IdCarriesNumber
<1> HIDE DEF touched, wards
<1>8. /\ n.pc = "row" /\ n.job = j /\ n.i = x.i + 1 /\ n.bad = x.bad /\ n.strategy = x.strategy
      /\ n.new = x.new /\ n.touched = touched
  BY <1>1 DEF Execution
<1> HIDE DEF n, x, j, f
<1>9. Looked(n, survey') /\ Reconciled(n, survey')
  BY <1>8 DEF Looked, Reconciled
<1>10. Landed(n, survey')
  <2>1. ASSUME OwnIds(j), x.strategy = "UPDATE"
        PROVE  StoredIn(survey', f, r)
    <3>1. CASE UNCHANGED survey /\ StoredIn(survey, f, r)
      BY <3>1 DEF StoredIn, IsAt
    <3>2. CASE survey' = [survey EXCEPT ![r] = Rewritten(f)]
      <4>1. survey'[r] = Rewritten(f)
        BY <1>1, <3>2
      <4>2. /\ Rewritten(f).on /\ ~Rewritten(f).gone /\ Rewritten(f).id = ResolveImportSurveyId(f)
            /\ Rewritten(f).ward = f.ward /\ Rewritten(f).val = f.val
        BY <1>5, RewrittenOK DEF Rewritten, NewRow, ResolveImportSurveyId, GenerateSurveyId
      <4> QED
        BY <4>1, <4>2 DEF StoredIn, IsAt
    <3> QED
      BY <1>6, <2>1, <3>1, <3>2
  <2>2. ASSUME OwnIds(j), x.strategy = "UPDATE", NEW k \in 1..(x.i - 1), NEW q \in x.touched,
               f.ward # Files[j][k].ward \/ f.num # Files[j][k].num, StoredIn(survey, Files[j][k], q)
        PROVE  StoredIn(survey', Files[j][k], q)
    <3>1. k \in 1..Len(Files[j]) /\ q \in Rows
      BY <1>3, <1>4
    <3>2. CASE UNCHANGED survey
      BY <2>2, <3>2 DEF StoredIn, IsAt
    <3>3. CASE survey' = [survey EXCEPT ![r] = Rewritten(f)] /\ (survey[r].on => Matches(survey[r], f))
      <4>1. q # r
        BY <1>1, <1>3, <1>4, <2>2, <3>1, <3>3, StoredElsewhere DEF f
      <4>2. survey'[q] = survey[q]
        BY <1>1, <3>1, <3>3, <4>1
      <4> QED
        BY <2>2, <4>2 DEF StoredIn, IsAt
    <3> QED
      BY <1>6, <2>2, <3>2, <3>3
  <2>3. Landed(x, survey)
    BY <1>1 DEF QuietOK
  <2>4. OwnIds(x.job) /\ x.strategy = "UPDATE" => StoredStay(x, survey, survey')
    BY <2>2 DEF StoredStay, j, f
  <2>5. n.touched = x.touched \cup {r} /\ n.job = x.job
    BY <1>8 DEF j, touched
  <2>6. OwnIds(x.job) /\ x.strategy = "UPDATE" =>
            \E q \in n.touched : StoredIn(survey', Files[x.job][x.i], q)
    BY <2>1, <2>5 DEF j, f
  <2>7. x.job \in Jobs /\ x.i \in Nat \ {0} /\ x.i <= Len(Files[x.job]) /\ x.touched \subseteq n.touched
    BY <1>3, <2>5 DEF j
  <2>8. n.strategy = x.strategy /\ n.bad = x.bad /\ n.i = x.i + 1
    BY <1>8
  <2> QED
    BY <2>3, <2>4, <2>5, <2>6, <2>7, <2>8, LandedOn
<1>11. Foreseen(n, survey')
  <2>1. ASSUME OwnIds(j), OneKind(j), x.strategy = "UPDATE", NEW m \in (x.i + 1)..Len(Files[j])
        PROVE  /\ Files[j][m].num = f.num => ~Absent(survey', Files[j][m])
               /\ Files[j][m].num # f.num => (Absent(survey', Files[j][m]) <=> Absent(survey, Files[j][m]))
    <3>1. m \in 1..Len(Files[j])
      BY <1>3, <1>4
    <3>2. CASE UNCHANGED survey /\ StoredIn(survey, f, r)
      <4>1. ASSUME Files[j][m].num = f.num
            PROVE  Matches(survey[r], Files[j][m])
        <5>1. ResolveImportSurveyId(Files[j][m]) = ResolveImportSurveyId(f)
          BY <1>4, <2>1, <3>1, <4>1 DEF OneKind, ResolveImportSurveyId, f
        <5> QED
          BY <3>2, <5>1 DEF StoredIn, IsAt, Matches, Ids2
      <4> QED
        BY <3>2, <4>1 DEF Absent
    <3>3. CASE survey' = [survey EXCEPT ![r] = Rewritten(f)] /\ (survey[r].on => Matches(survey[r], f))
      <4>1. survey[r].on => survey[r].num = f.num
        BY <1>7, <2>1, <3>3
      <4> QED
        BY <1>1, <1>3, <1>4, <2>1, <3>1, <3>3, <4>1, RewriteSeen DEF f
    <3> QED
      BY <1>6, <2>1, <3>2, <3>3
  <2>2. Foreseen(x, survey)
    BY <1>1 DEF QuietOK
  <2> QED
    BY <1>3, <1>8, <2>1, <2>2, ForeseenOn DEF j, f
<1> QED
  BY <1>2, <1>9, <1>10, <1>11 DEF QuietOK

(* Of the three ways a row is applied, the alone execution takes the one    *)
(* that the table, which is what it looked up, calls for.                  *)
LEMMA KeepQuiet ==
    ASSUME AloneInv, NEW e \in Execs, Keep(e)
    PROVE  WatchMoves(e)
<1> DEFINE x == exec[e]
           f == Files[x.job][x.i]
<1>1. /\ x \in Execution /\ exec \in [Execs -> Execution] /\ quiet \subseteq calm
      /\ e \in quiet => AtWork(x) /\ QuietOK(x, survey)
  BY QuietAtHand
<1>2. PICK d \in x.dup :
         /\ ~d[2].gone /\ Done(e, d[1])
         /\ x.strategy = "SKIP" \/ (x.strategy = "UPDATE" /\ NoDiff(d[2], f))
  BY DEF Keep
<1>3. UNCHANGED <<survey, quiet, calm>> /\ x.pc = "apply" /\ d[1] \in Rows
  BY <1>1 DEF Keep, registry, Execution
<1>4. \A o \in Execs \ {e} : exec'[o] = exec[o]
  BY <1>1, <1>2 DEF Done
<1>5. ASSUME e \in quiet
      PROVE  QuietOK(exec'[e], survey')
  <2>1. ASSUME x.strategy = "UPDATE"
        PROVE  StoredIn(survey, f, d[1])
    <3>1. d[2] = survey[d[1]] /\ Matches(survey[d[1]], f)
      BY <1>1, <1>2, <1>3, <1>5 DEF QuietOK, Looked
    <3>2. d[2].id = ResolveImportSurveyId(f) /\ d[2].ward = f.ward /\ d[2].val = f.val
      BY <1>2, <2>1 DEF NoDiff
    <3> QED
      BY <1>2, <3>1, <3>2 DEF StoredIn, IsAt, Matches
  <2> QED
    BY <1>2, <1>3, <1>5, <2>1, RowLanded
<1> QED
  BY <1>1, <1>3, <1>4, <1>5 DEF WatchMoves

LEMMA UpdateQuiet ==
    ASSUME AloneInv, NEW e \in Execs, Update(e)
    PROVE  WatchMoves(e)
<1> DEFINE x == exec[e]
           f == Files[x.job][x.i]
           id == ResolveImportSurveyId(f)
<1>1. /\ x \in Execution /\ exec \in [Execs -> Execution] /\ quiet \subseteq calm
      /\ e \in quiet => AtWork(x) /\ QuietOK(x, survey)
  BY QuietAtHand
<1>2. x.pc = "apply"
  BY DEF Update
<1>3. PICK d \in x.dup :
         IF TakenBy(id, d[1])
         THEN RowFails(e) /\ UNCHANGED registry
         ELSE /\ survey' = [survey EXCEPT ![d[1]] = Rewritten(f)]
              /\ ExecutorWrites(e) /\ Done(e, d[1])
  BY DEF Update
<1>4. d[1] \in Rows
  BY <1>1 DEF Execution
<1>5. ASSUME e \in quiet
      PROVE  ~TakenBy(id, d[1]) /\ Matches(survey[d[1]], f)
  <2>1. /\ Matches(survey[d[1]], f)
        /\ \A q \in Rows \ {d[1]} : ~(survey[q].on /\ survey[q].id = id)
    BY <1>1, <1>2, <1>5 DEF QuietOK, Looked
  <2> QED
    BY <2>1 DEF TakenBy, Holder
<1>6. \A o \in Execs \ {e} : exec'[o] = exec[o]
  BY <1>1, <1>3 DEF Done, RowFails
<1>7. CASE TakenBy(id, d[1])
  <2>1. e \notin quiet /\ UNCHANGED <<survey, quiet, calm>>
    BY <1>3, <1>5, <1>7 DEF registry
  <2> QED
    BY <1>1, <1>6, <2>1 DEF WatchMoves
<1>8. CASE ~TakenBy(id, d[1])
  <2>1. survey' = [survey EXCEPT ![d[1]] = Rewritten(f)] /\ ExecutorWrites(e) /\ Done(e, d[1])
    BY <1>3, <1>8
  <2>2. e \in quiet => QuietOK(exec'[e], survey')
    BY <1>2, <1>4, <1>5, <2>1, RowLanded
  <2> QED
    BY <1>1, <1>6, <2>1, <2>2 DEF WatchMoves, ExecutorWrites
<1> QED
  BY <1>7, <1>8

LEMMA InsertQuiet ==
    ASSUME AloneInv, NEW e \in Execs, Insert(e)
    PROVE  WatchMoves(e)
<1> DEFINE x == exec[e]
           f == Files[x.job][x.i]
           id == ResolveImportSurveyId(f)
<1>1. /\ x \in Execution /\ exec \in [Execs -> Execution] /\ quiet \subseteq calm
      /\ e \in quiet => AtWork(x) /\ QuietOK(x, survey)
  BY QuietAtHand
<1>2. /\ x.pc = "apply" /\ (Holder(id) # {} \/ Free # {})
      /\ x.dup = {} \/ x.strategy = "CREATE"
  BY DEF Insert
<1>3. PICK r \in IF Holder(id) = {} THEN {CHOOSE n \in Free : TRUE} ELSE Holder(id) :
         survey' = [survey EXCEPT ![r] = Rewritten(f)] /\ ExecutorWrites(e) /\ Done(e, r)
  BY DEF Insert
<1>4. r \in Rows
  BY <1>2, <1>3 DEF Holder, Free
<1>5. ASSUME e \in quiet, x.strategy = "UPDATE"
      PROVE  ~survey[r].on
  <2>1. Absent(survey, f)
    BY <1>1, <1>2, <1>5 DEF QuietOK, Looked
  <2>2. Holder(id) = {}
    BY <2>1 DEF Absent, Matches, Holder, Ids2
  <2> QED
    BY <1>2, <1>3, <2>2 DEF Free
<1>6. \A o \in Execs \ {e} : exec'[o] = exec[o]
  BY <1>1, <1>3 DEF Done
<1>7. e \in quiet => QuietOK(exec'[e], survey')
  BY <1>2, <1>3, <1>4, <1>5, RowLanded
<1> QED
  BY <1>1, <1>3, <1>6, <1>7 DEF WatchMoves, ExecutorWrites

(* What it lists is all there is to prune, or too much. *)
LEMMA ListOrphansQuiet ==
    ASSUME AloneInv, NEW e \in Execs, ListOrphans(e)
    PROVE  WatchMoves(e)
<1> DEFINE x == exec[e]
           many == MayPrune(Cardinality(Orphans(x)), Cardinality(x.touched))
           orphans == IF many THEN Orphans(x) ELSE {}
           n == [x EXCEPT !.pc = "finish", !.orphans = orphans]
<1>1. /\ x \in Execution /\ exec \in [Execs -> Execution] /\ quiet \subseteq calm
      /\ e \in quiet => AtWork(x) /\ QuietOK(x, survey)
  BY QuietAtHand
<1>2. /\ UNCHANGED <<survey, quiet, calm>> /\ x.pc = "row"
      /\ exec' = [exec EXCEPT ![e] = n]
  BY <1>1 DEF ListOrphans, registry
<1>3. exec'[e] = n /\ \A o \in Execs \ {e} : exec'[o] = exec[o]
  BY <1>1, <1>2
<1>4. OrphansIn(survey, x) = Orphans(x)
  BY DEF OrphansIn, Orphans, Live
<1> HIDE DEF x, orphans, many
<1>5. /\ n.pc = "finish" /\ n.job = x.job /\ n.i = x.i /\ n.bad = x.bad /\ n.strategy = x.strategy
      /\ n.new = x.new /\ n.touched = x.touched /\ n.prune = x.prune /\ n.wards = x.wards
      /\ n.orphans = orphans
  BY <1>1 DEF Execution
<1> HIDE DEF n
<1>6. ASSUME e \in quiet
      PROVE  QuietOK(n, survey)
  <2>1. OrphansIn(survey, n) = Orphans(x)
    BY <1>4, <1>5 DEF OrphansIn, ReconcileWard
  <2>2. Reconciled(n, survey)
    BY <1>5, <2>1 DEF Reconciled, orphans, many
  <2>3. Looked(n, survey) /\ Landed(n, survey) /\ Foreseen(n, survey)
    BY <1>1, <1>5, <1>6 DEF QuietOK, Looked, Landed, Foreseen
  <2> QED
    BY <2>2, <2>3 DEF QuietOK
<1>7. e \in quiet' => QuietOK(exec'[e], survey')
  BY <1>2, <1>3, <1>6
<1> QED
  BY <1>1, <1>2, <1>3, <1>7 DEF WatchMoves

(* After it has pruned them there is nothing to prune. *)
LEMMA PruneOrphansQuiet ==
    ASSUME AloneInv, NEW e \in Execs, PruneOrphans(e)
    PROVE  WatchMoves(e)
<1> DEFINE x == exec[e]
           n == [x EXCEPT !.orphans = {}]
<1>1. /\ x \in Execution /\ exec \in [Execs -> Execution] /\ quiet \subseteq calm
      /\ e \in quiet => AtWork(x) /\ QuietOK(x, survey)
      /\ survey \in [Rows -> Survey] /\ UniqueIds(survey)
  BY QuietAtHand
<1>2. /\ x.pc = "finish" /\ x.orphans # {} /\ exec' = [exec EXCEPT ![e] = n]
      /\ Pruned(survey, survey', x.orphans) /\ ExecutorWrites(e)
  BY <1>1 DEF PruneOrphans, Pruned
<1>3. exec'[e] = n /\ \A o \in Execs \ {e} : exec'[o] = exec[o]
  BY <1>1, <1>2
<1>4. x.touched \subseteq Rows /\ x.i \in Nat \ {0} /\ x.orphans \subseteq Rows
  BY <1>1 DEF Execution
<1> HIDE DEF x
<1>5. /\ n.pc = "finish" /\ n.job = x.job /\ n.i = x.i /\ n.bad = x.bad /\ n.strategy = x.strategy
      /\ n.new = x.new /\ n.touched = x.touched /\ n.prune = x.prune /\ n.wards = x.wards
      /\ n.orphans = {}
  BY <1>1, <1>2 DEF Execution
<1> HIDE DEF n
<1>6. ASSUME e \in quiet
      PROVE  QuietOK(n, survey')
  <2>1. x.orphans = OrphansIn(survey, x)
    BY <1>1, <1>2, <1>6 DEF QuietOK, Reconciled
  <2>2. \A r \in Rows : IF r \in x.orphans THEN survey'[r].gone ELSE survey'[r] = survey[r]
    <3>1. \A r \in Rows : survey'[r].gone = (survey[r].gone \/ r \in x.orphans)
      BY <1>1, <1>2, <1>4, PrunedKeeps
    <3>2. \A r \in Rows : r \notin x.orphans => survey'[r] = survey[r]
      BY <1>2 DEF Pruned
    <3> QED
      BY <3>1, <3>2
  <2>3. OrphansIn(survey', n) = {}
    <3>1. ReconcileWard(n) = ReconcileWard(x)
      BY <1>5 DEF ReconcileWard
    <3>2. ASSUME NEW r \in OrphansIn(survey', n)
          PROVE  FALSE
      <4>1. /\ r \in Rows /\ survey'[r].on /\ ~survey'[r].gone /\ survey'[r].status # "DELETED"
            /\ survey'[r].ward \in ReconcileWard(x) /\ r \notin x.touched
        BY <1>5, <3>1 DEF OrphansIn
      <4>2. r \notin x.orphans /\ survey'[r] = survey[r]
        BY <2>2, <4>1
      <4> QED
        BY <2>1, <4>1, <4>2 DEF OrphansIn
    <3> QED
      BY <3>2
  <2>4. Reconciled(n, survey')
    BY <1>5, <2>3, FS_EmptySet DEF Reconciled, MayPrune
  <2>5. \A r \in x.touched : survey'[r] = survey[r]
    BY <1>4, <2>1, <2>2 DEF OrphansIn
  <2>6. Landed(n, survey')
    <3>1. Landed(x, survey)
      BY <1>1, <1>6 DEF QuietOK
    <3>2. \A f : \A r \in x.touched : StoredIn(survey, f, r) => StoredIn(survey', f, r)
      BY <2>5 DEF StoredIn, IsAt
    <3> QED
      BY <1>5, <3>1, <3>2 DEF Landed
  <2>7. Looked(n, survey')
    BY <1>5 DEF Looked
  <2>8. Foreseen(n, survey')
    <3>1. \A m \in x.i..Len(Files[x.job]) : FALSE
      BY <1>1, <1>2, <1>4, <1>6, FileRows DEF AtWork
    <3> QED
      BY <1>5, <3>1 DEF Foreseen
  <2> QED
    BY <2>4, <2>6, <2>7, <2>8 DEF QuietOK
<1>7. quiet' \subseteq quiet \cap {e} /\ quiet' \subseteq calm' /\ (e \in quiet' => QuietOK(exec'[e], survey'))
  BY <1>1, <1>2, <1>3, <1>6 DEF ExecutorWrites
<1> QED
  BY <1>3, <1>7 DEF WatchMoves

LEMMA ExecutionQuiet ==
    ASSUME AloneInv, NEW e \in Execs, Process(e) \/ JobThrows(e) \/ Crash(e)
    PROVE  WatchMoves(e)
BY QueueQuiet, BeginQuiet, ReadRowQuiet, KeepQuiet, UpdateQuiet, InsertQuiet, ListOrphansQuiet,
   PruneOrphansQuiet DEF Process

(* A write by an operator leaves nobody alone. *)
LEMMA OperatorQuiet ==
    ASSUME NEW q \in Reqs, Operator(q)
    PROVE  UNCHANGED exec /\ (quiet' = {} \/ UNCHANGED <<survey, quiet, calm>>)
<1>1. CASE \/ ListSurveys(q) \/ \E r \in Rows : \/ OpenSurvey(q, r) \/ OpenForm(q, r) \/ DeleteSurvey(q, r)
                                               \/ \E st \in {"ACTIVE", "ARCHIVED"} : ArchiveOrRestore(q, r, st)
  BY <1>1 DEF ListSurveys, OpenSurvey, OpenForm, DeleteSurvey, ArchiveOrRestore, Ask, registry, jobs
<1>2. CASE Find(q) \/ Show(q) \/ FillFromRecord(q) \/ Save(q) \/ Leave(q) \/ CreateCheck(q)
  BY <1>2 DEF Find, Show, FillFromRecord, Save, Leave, CreateCheck, registry, jobs
<1>3. CASE Repair(q)
  <2>1. UNCHANGED registry \/ OperatorWrites
    BY <1>3 DEF Repair
  <2> QED
    BY <1>3, <2>1 DEF Repair, OperatorWrites, registry, jobs
<1>4. CASE Patch(q)
  <2>1. UNCHANGED registry \/ OperatorWrites
    BY <1>4 DEF Patch
  <2> QED
    BY <1>4, <2>1 DEF Patch, OperatorWrites, registry, jobs
<1>5. CASE Remove(q)
  BY <1>5 DEF Remove, OperatorWrites, jobs
<1>6. CASE CreateInsert(q)
  <2>1. UNCHANGED registry \/ OperatorWrites
    BY <1>6 DEF CreateInsert
  <2> QED
    BY <1>6, <2>1 DEF CreateInsert, OperatorWrites, registry, jobs
<1> QED
  BY <1>1, <1>2, <1>3, <1>4, <1>5, <1>6 DEF Operator

LEMMA AloneNext ==
    ASSUME ImportInv', quiet' \subseteq calm', \A o \in quiet' : QuietOK(exec'[o], survey')
    PROVE  AloneInv'
<1>1. \A o \in quiet' : QuietOK(exec[o], survey)'
  BY DEF QuietOK, Looked, Landed, Foreseen, Reconciled, StoredIn, IsAt, Absent, Matches, OrphansIn
<1> QED
  BY <1>1 DEF AloneInv

LEMMA AloneStep ==
    ASSUME AloneInv, [Next]_vars
    PROVE  AloneInv'
<1>1. /\ ImportInv /\ quiet \subseteq calm /\ calm \subseteq Execs
      /\ \A e \in quiet : QuietOK(exec[e], survey)
  BY DEF AloneInv, ImportInv
<1>2. ImportInv'
  BY <1>1, ImportStep
<1>3. ASSUME NEW e \in Execs, WatchMoves(e)
      PROVE  AloneInv'
  <2>1. /\ quiet' \subseteq quiet \cup {e} /\ quiet' \subseteq calm'
        /\ quiet' \subseteq {e} \/ UNCHANGED survey
        /\ \A o \in Execs \ {e} : exec'[o] = exec[o]
        /\ e \in quiet' => QuietOK(exec'[e], survey')
    BY <1>3 DEF WatchMoves
  <2>2. ASSUME NEW o \in quiet', o # e
        PROVE  QuietOK(exec'[o], survey')
    <3>1. o \in quiet /\ o \in Execs /\ exec'[o] = exec[o] /\ UNCHANGED survey
      BY <1>1, <2>1, <2>2
    <3> QED
      BY <1>1, <3>1
  <2>3. \A o \in quiet' : QuietOK(exec'[o], survey')
    BY <2>1, <2>2
  <2> QED
    BY <1>2, <2>1, <2>3, AloneNext
<1>4. ASSUME UNCHANGED exec, quiet' = {} \/ UNCHANGED <<survey, quiet, calm>>
      PROVE  AloneInv'
  <2>1. quiet' \subseteq calm' /\ \A o \in quiet' : QuietOK(exec'[o], survey')
    BY <1>1, <1>4
  <2> QED
    BY <1>2, <2>1, AloneNext
<1>5. CASE \E q \in Reqs : Operator(q)
  BY <1>4, <1>5, OperatorQuiet
<1>6. CASE \E e \in Execs : Process(e) \/ JobThrows(e) \/ Crash(e)
  BY <1>3, <1>6, ExecutionQuiet
<1>7. CASE \E e \in Execs, j \in Jobs : Reprocess(e, j)
  BY <1>3, <1>7, StartQuiet
<1>8. CASE \E t \in Tabs, j \in Jobs : Upload(t, j) \/ Poll(t, j)
  BY <1>4, <1>8 DEF Upload, Poll, registry
<1>9. CASE \E t \in Tabs, j \in Jobs, e \in Execs : Start(t, j, e)
  BY <1>3, <1>9, StartQuiet
<1>10. CASE UNCHANGED vars
  BY <1>4, <1>10 DEF vars, registry, jobs
<1> QED
  BY <1>5, <1>6, <1>7, <1>8, <1>9, <1>10 DEF Next

(* Nobody else writes surveys while an execution runs.  Then every row of  *)
(* the file that it is through with and no later row overrides is stored,  *)
(* as it is at the end; nothing is left to prune, or too much; and the rows *)
(* it inserts surveys for are those a preview at its beginning calls new.  *)
THEOREM FileBecomesWard == Spec => FileIsTheWard
<1>1. Init => AloneInv
  <2>1. Init => ImportInv /\ quiet = {}
    BY InitImport DEF Init
  <2> QED
    BY <2>1 DEF AloneInv
<1>2. AloneInv /\ [Next]_vars => AloneInv'
  BY AloneStep
<1>3. AloneInv => \A e \in Execs :
          LET x == exec[e] IN
          e \in quiet /\ x.strategy = "UPDATE" /\ OwnIds(x.job) =>
             /\ x.pc = "finish" /\ x.bad = 0 /\ Finish(e) =>
                   /\ \A n \in Final(x.job) : \E r \in Rows : Stored(Files[x.job][n], r)
                   /\ ~MayPrune(Cardinality(Orphans(x)), Cardinality(x.touched))
             /\ x.pc = "apply" /\ OneKind(x.job) => (x.dup = {} <=> x.i \in x.new)
  <2> SUFFICES ASSUME AloneInv, NEW e \in Execs, e \in quiet, exec[e].strategy = "UPDATE",
                      OwnIds(exec[e].job)
               PROVE  LET x == exec[e] IN
                      /\ x.pc = "finish" /\ x.bad = 0 /\ Finish(e) =>
                            /\ \A n \in Final(x.job) : \E r \in Rows : Stored(Files[x.job][n], r)
                            /\ ~MayPrune(Cardinality(Orphans(x)), Cardinality(x.touched))
                      /\ x.pc = "apply" /\ OneKind(x.job) => (x.dup = {} <=> x.i \in x.new)
    BY Zenon
  <2> DEFINE x == exec[e]
             F == Files[x.job]
  <2>1. x \in Execution /\ AtWork(x) /\ QuietOK(x, survey)
    BY QuietAtHand
  <2>2. x.job \in Jobs /\ x.i \in Nat \ {0} /\ Len(F) \in Nat /\ x.touched \subseteq Rows
    BY <2>1, FileRows DEF AtWork, Execution
  <2>3. ASSUME x.pc = "finish", x.bad = 0, NEW n \in Final(x.job)
        PROVE  \E r \in Rows : Stored(F[n], r)
    <3>1. x.i - 1 = Len(F)
      BY <2>1, <2>2, <2>3 DEF AtWork
    <3>2. /\ n \in 1..(x.i - 1)
          /\ \A m \in (n + 1)..(x.i - 1) : F[m].ward # F[n].ward \/ F[m].num # F[n].num
      BY <2>3, <3>1 DEF Final
    <3>3. PICK r \in x.touched : StoredIn(survey, F[n], r)
      BY <2>1, <2>3, <3>2 DEF QuietOK, Landed
    <3> QED
      BY <2>2, <3>3 DEF StoredIn, IsAt, Stored, Live
  <2>4. ASSUME x.pc = "finish", x.orphans = {}
        PROVE  ~MayPrune(Cardinality(Orphans(x)), Cardinality(x.touched))
    <3>1. OrphansIn(survey, x) = Orphans(x)
      BY DEF OrphansIn, Orphans, Live
    <3>2. ~MayPrune(Cardinality({}), Cardinality(x.touched))
      BY FS_EmptySet DEF MayPrune
    <3> QED
      BY <2>1, <2>4, <3>1, <3>2 DEF QuietOK, Reconciled
  <2>5. ASSUME x.pc = "apply", OneKind(x.job)
        PROVE  x.dup = {} <=> x.i \in x.new
    <3>1. x.i \in x.i..Len(F) /\ F[x.i].ok /\ (x.dup = {} <=> Absent(survey, F[x.i]))
      BY <2>1, <2>2, <2>5 DEF AtWork, QuietOK, Looked
    <3>2. /\ ~Known(x.job, x.i, x.i) => (Absent(survey, F[x.i]) <=> x.i \in x.new)
          /\ Known(x.job, x.i, x.i) => ~Absent(survey, F[x.i]) /\ x.i \notin x.new
      BY <2>1, <2>5, <3>1 DEF QuietOK, Foreseen
    <3> QED
      BY <3>1, <3>2
  <2>6. Finish(e) => x.orphans = {}
    BY DEF Finish
  <2> QED
    BY <2>3, <2>4, <2>5, <2>6
<1> QED
  BY <1>1, <1>2, <1>3, PTL DEF Spec, FileIsTheWard

=============================================================================
