------------------------------ MODULE Surveys ------------------------------
(* The survey registry and the Excel imports that feed it.                 *)
(*                                                                         *)
(* A survey row has a surveyId, unique over all rows, soft-deleted ones    *)
(* included.  The id is made of the ward, the parcel and unit (one number  *)
(* here) and a use letter; old workbooks carry ids with the placeholder    *)
(* ward 0.  Operators work through the portal (list, detail page, form),   *)
(* whose reads repair placeholder ids; import jobs are executed row by row *)
(* by the queue's workers, or by the API itself when there is no queue.    *)
(* What one actor reads and later writes are steps of their own, so a row  *)
(* may have changed in between.  One step are the lookups of a row's       *)
(* duplicate, and an insert with the rewrite it falls back on.             *)
EXTENDS Integers, Sequences, FiniteSets

CONSTANTS
    Rows,        \* rows of the Survey table
    Wards, Nums, Uses,
    Vals,        \* values of the fields the audit diff compares
    Others,      \* values of the imported fields it does not compare
    Jobs,
    Files,       \* [Jobs -> Seq(FileRow)], the uploaded workbooks
    Strategy,    \* [Jobs -> {"UPDATE", "SKIP", "CREATE"}]
    Legacy,      \* the rows present at the start, with placeholder ids or not
    Execs,       \* API processes, each with a worker
    Reqs,        \* pages through which operators work on surveys
    Tabs,        \* import pages
    Ops,         \* what operators do on the survey pages
    PruneFloor,  \* the prune cap of small files
    MaxUploads,  \* bound on uploaded workbooks
    MaxReq,      \* bound on operator requests
    MaxCrashes,  \* bound on throws and process losses
    MaxStarts,   \* bound on start requests
    Spent        \* where the three counters start: the mixes of work to explore

VARIABLES
    survey,      \* Survey table
    job,         \* ImportJob table
    errs,        \* ImportError rows of each job
    queue,       \* BullMQ entries waiting: <<job, pruneMissing, times stalled>>
    exec,        \* what each process is executing
    req,         \* what each operator page is doing
    seen,        \* the job status each import page last loaded
    queueUp,     \* whether the API found the queue when it was built
    made, starts, crashes,   \* requests, starts and crashes so far
    quiet,       \* executors since whose beginning nobody else has written surveys
    calm,        \* executors since whose beginning only such executors of their job have
    lost         \* jobs left without an executor and without a queue entry

registry == <<survey, quiet, calm>>
jobs == <<job, errs, queue, exec, seen, queueUp, starts, crashes, lost>>
vars == <<survey, job, errs, queue, exec, req, seen, queueUp, made, starts, crashes, quiet, calm, lost>>

Blank == "blank"
Terminal == {"COMPLETED", "PARTIAL", "FAILED"}
Ids == (Wards \cup {0}) \X Nums \X Uses

Survey == [on : BOOLEAN, gone : BOOLEAN, status : {"ACTIVE", "ARCHIVED", "DELETED"},
           ward : Wards, num : Nums, id : Ids, val : Vals, x : Others]

\* A row of a workbook; raw is its Survey Id column, which may name ward 0
FileRow == [ward : Wards, num : Nums, raw : Ids, val : Vals, x : Others, ok : BOOLEAN]

ASSUME SurveyConstants ==
    /\ 0 \notin Wards /\ Blank \notin Vals \cup Others
    /\ IsFiniteSet(Rows)
    /\ Files \in [Jobs -> Seq(FileRow)]
    /\ Strategy \in [Jobs -> {"UPDATE", "SKIP", "CREATE"}]
    /\ PruneFloor \in Nat \ {0}
    /\ Spent \subseteq Nat \X Nat \X Nat

\* The rows there before: the unique index holds of them, and a placeholder
\* is one for the ward only
ASSUME LegacyConstants ==
    /\ Legacy \in [Rows -> Survey]
    /\ \A r, s \in Rows : Legacy[r].on /\ Legacy[s].on /\ Legacy[r].id = Legacy[s].id => r = s
    /\ \A r \in Rows : Legacy[r].on => Legacy[r].id[2] = Legacy[r].num

-----------------------------------------------------------------------------
(* Survey ids.                                                             *)

\* Canonical id of a ward, number and use letter
GenerateSurveyId(w, n, u) == <<w, n, u>>

\* The id a row should have: its own ward and number, its id's use letter
Expected(s) == GenerateSurveyId(s.ward, s.num, s.id[3])

NeedsRepair(s) == s.id # Expected(s)

Holder(id) == {r \in Rows : survey[r].on /\ survey[r].id = id}
Live(r) == survey[r].on /\ ~survey[r].gone
TakenBy(id, r) == Holder(id) \ {r} # {}
LiveTakenBy(id, r) == \E h \in Holder(id) \ {r} : ~survey[h].gone

\* The import's id: ward, parcel and unit from the sheet's own columns, the
\* use letter from the Survey Id column
ResolveImportSurveyId(f) == GenerateSurveyId(f.ward, f.num, f.raw[3])

\* A write by an operator disturbs every executor, one by an executor the
\* others; a calm one leaves those of its own job calm
OperatorWrites == quiet' = {} /\ calm' = {}
ExecutorWrites(e) ==
    /\ quiet' = quiet \cap {e}
    /\ calm' = {o \in calm : e \in calm /\ exec[o].job = exec[e].job}

-----------------------------------------------------------------------------
(* Operator pages.                                                         *)

NoReq == [op |-> "none", pc |-> "idle", row |-> CHOOSE r \in Rows : TRUE,
          todo |-> {}, snap |-> {}, want |-> {}]
Fail(q) == req' = [req EXCEPT ![q] = NoReq]

\* A click in the registry, on the detail page or on the edit link
Ask(q, op, r) ==
    /\ req[q].pc = "idle" /\ made < MaxReq /\ op \in Ops /\ (op = "list" \/ survey[r].on)
    /\ req' = [req EXCEPT ![q] = [NoReq EXCEPT !.op = op, !.row = r, !.pc = "find"]]
    /\ made' = made + 1 /\ UNCHANGED <<registry, jobs>>

ListSurveys(q) == Ask(q, "list", NoReq.row)
OpenSurvey(q, r) == Ask(q, "open", r)
OpenForm(q, r) == Ask(q, "load", r)
ArchiveOrRestore(q, r, st) == Ask(q, st, r)
DeleteSurvey(q, r) == Ask(q, "delete", r)

\* findOne, or the page of findAll: live rows only; those whose id needs
\* repair are examined one by one before the answer
Find(q) ==
    LET k == req[q]
        found == {r \in Rows : Live(r) /\ (k.op = "list" \/ r = k.row)}
    IN  /\ k.pc = "find"
        /\ IF found = {} THEN Fail(q)
           ELSE req' = [req EXCEPT
                   ![q].pc = "repair",
                   ![q].todo = {<<r, survey[r]>> : r \in {f \in found : NeedsRepair(survey[f])}},
                   ![q].snap = IF k.op = "list" THEN {} ELSE {survey[k.row]}]
        /\ UNCHANGED <<registry, jobs, made>>

\* repairSurveyIdIfNeeded on what was read: left alone when a live survey has
\* the id; when a deleted one has it the unique index refuses the update and
\* the whole read fails
Repair(q) ==
    LET k == req[q] IN
    /\ k.pc = "repair"
    /\ \E t \in k.todo :
          LET r == t[1]  s == t[2]  fixed == [s EXCEPT !.id = Expected(s)] IN
          IF LiveTakenBy(Expected(s), r)
          THEN /\ req' = [req EXCEPT ![q].todo = @ \ {t}]
               /\ UNCHANGED registry
          ELSE IF TakenBy(Expected(s), r)
          THEN Fail(q) /\ UNCHANGED registry
          ELSE /\ survey' = [survey EXCEPT ![r].id = Expected(s), ![r].num = s.num]
               /\ req' = [req EXCEPT ![q].todo = @ \ {t},
                                     ![q].snap = IF @ = {s} THEN {fixed} ELSE @]
               /\ OperatorWrites
    /\ UNCHANGED <<jobs, made>>

Ready(q, op) == req[q].pc = "repair" /\ req[q].todo = {} /\ req[q].op = op
Snap(q) == CHOOSE s \in req[q].snap : TRUE

\* The answer of a plain read
Show(q) ==
    /\ Ready(q, "list") \/ Ready(q, "open")
    /\ Fail(q) /\ UNCHANGED <<registry, jobs, made>>

\* recordToForm: the edit page fills its form from the record
FillFromRecord(q) ==
    /\ Ready(q, "load")
    /\ req' = [req EXCEPT ![q].pc = "form"]
    /\ UNCHANGED <<registry, jobs, made>>

\* What the operator may leave in the edit form: the record with a field
\* changed or cleared; Save is disabled while nothing is changed
FormValues(s) ==
    {f \in [ward : Wards, num : Nums, use : Uses, val : Vals \cup {Blank}, x : Others] :
        /\ f.x = s.x
        /\ f # [ward |-> s.ward, num |-> s.num, use |-> s.id[3], val |-> s.val, x |-> s.x]
        /\ f.val = s.val \/ (f.ward = s.ward /\ f.num = s.num /\ f.use = s.id[3])}

\* Save Changes: the PATCH begins by finding the row again
Save(q) ==
    /\ req[q].pc = "form"
    /\ \E f \in FormValues(Snap(q)) :
          req' = [req EXCEPT ![q].op = "edit", ![q].pc = "find", ![q].want = {f}]
    /\ UNCHANGED <<registry, jobs, made>>

\* Leaving the form, confirmed when there are unsaved changes
Leave(q) == req[q].pc = "form" /\ Fail(q) /\ UNCHANGED <<registry, jobs, made>>

\* emptyToUndef and assign: a cleared field is not sent and keeps its value
Merge(old, new) == IF new = Blank THEN old ELSE new

\* The identity a PATCH computes: the form's, or the one of the row as read
Identity(q) ==
    LET s == Snap(q)  w == CHOOSE f \in req[q].want : TRUE
    IN  IF req[q].op = "edit" THEN GenerateSurveyId(w.ward, w.num, w.use) ELSE Expected(s)

\* Mutant: the number is written only when the form sent it
MutPatchedRow(q, s) ==
    LET id == Identity(q)  w == CHOOSE f \in req[q].want : TRUE
    IN  IF req[q].op = "edit"
        THEN [s EXCEPT !.id = id, !.num = id[2], !.ward = id[1],
                       !.val = Merge(@, w.val), !.x = Merge(@, w.x)]
        ELSE [s EXCEPT !.id = id, !.status = req[q].op]

\* The row an update writes: surveyId and number always, the ward and the
\* other fields only when the form sent them
PatchedRow(q, s) ==
    LET id == Identity(q)  w == CHOOSE f \in req[q].want : TRUE
    IN  IF req[q].op = "edit"
        THEN [s EXCEPT !.id = id, !.num = id[2], !.ward = id[1],
                       !.val = Merge(@, w.val), !.x = Merge(@, w.x)]
        ELSE [s EXCEPT !.id = id, !.num = id[2], !.status = req[q].op]

\* update's transaction
Patch(q) ==
    LET k == req[q]  id == Identity(q) IN
    /\ Ready(q, "edit") \/ Ready(q, "ARCHIVED") \/ Ready(q, "ACTIVE")
    /\ IF \/ id # Snap(q).id /\ LiveTakenBy(id, k.row)
          \/ TakenBy(id, k.row)
       THEN Fail(q) /\ UNCHANGED registry
       ELSE /\ survey' = [survey EXCEPT ![k.row] = PatchedRow(q, @)]
            /\ req' = [req EXCEPT ![q] = IF k.op = "edit"
                          THEN [NoReq EXCEPT !.op = "open", !.row = k.row, !.pc = "find"]
                          ELSE NoReq]
            /\ OperatorWrites
    /\ UNCHANGED <<jobs, made>>

\* remove, after its findOne
Remove(q) ==
    /\ Ready(q, "delete")
    /\ survey' = [survey EXCEPT ![req[q].row].gone = TRUE, ![req[q].row].status = "DELETED"]
    /\ OperatorWrites /\ Fail(q) /\ UNCHANGED <<jobs, made>>

\* The new-survey form: create's check for a live survey with the id
CreateCheck(q) ==
    /\ req[q].pc = "idle" /\ made < MaxReq /\ "create" \in Ops /\ made' = made + 1
    /\ \E w \in Wards, n \in Nums, u \in Uses, v \in Vals, x \in Others :
          LET id == GenerateSurveyId(w, n, u) IN
          IF \E h \in Holder(id) : ~survey[h].gone THEN UNCHANGED req
          ELSE req' = [req EXCEPT ![q] = [NoReq EXCEPT !.op = "create", !.pc = "insert",
                  !.want = {[ward |-> w, num |-> n, use |-> u, val |-> v, x |-> x]}]]
    /\ UNCHANGED <<registry, jobs>>

Free == {r \in Rows : ~survey[r].on}
NewRow(id, v, x) == [on |-> TRUE, gone |-> FALSE, status |-> "ACTIVE",
                     ward |-> id[1], num |-> id[2], id |-> id, val |-> v, x |-> x]

\* create's insert, refused by the unique index when any row has the id
CreateInsert(q) ==
    LET w == CHOOSE f \in req[q].want : TRUE
        id == GenerateSurveyId(w.ward, w.num, w.use)
    IN  /\ req[q].pc = "insert"
        /\ IF Holder(id) # {} \/ Free = {} THEN UNCHANGED registry
           ELSE /\ survey' = [survey EXCEPT ![CHOOSE r \in Free : TRUE] = NewRow(id, w.val, w.x)]
                /\ OperatorWrites
        /\ Fail(q) /\ UNCHANGED <<jobs, made>>

-----------------------------------------------------------------------------
(* Import jobs.                                                            *)

\* findImportDuplicate: by canonical id, then by the sheet's own id, deleted
\* rows included, then a live survey of the same ward, parcel and unit
FindImportDuplicate(f) ==
    LET id == ResolveImportSurveyId(f)
        same == {r \in Rows : Live(r) /\ survey[r].ward = f.ward /\ survey[r].num = f.num}
    IN  IF Holder(id) # {} THEN Holder(id)
        ELSE IF Holder(f.raw) # {} THEN Holder(f.raw)
        ELSE IF same = {} THEN {} ELSE {CHOOSE r \in same : TRUE}

\* Rows of the workbook that the preview finds twice in it: an earlier row
\* that was not itself such a repetition has one of the row's two ids
Ids2(f) == {ResolveImportSurveyId(f), f.raw}
Repeated(j) ==
    LET rep[n \in 1..Len(Files[j])] ==
            \E m \in 1..(n - 1) : /\ Files[j][m].ok /\ ~rep[m]
                                  /\ Ids2(Files[j][m]) \cap Ids2(Files[j][n]) # {}
    IN  {n \in DOMAIN rep : Files[j][n].ok /\ rep[n]}

\* preview: what a row is called before anything is written; a warning about
\* its city or its areas leaves it valid for the import
PreviewClass(j, n) ==
    IF ~Files[j][n].ok THEN "invalid"
    ELSE IF n \in Repeated(j) \/ FindImportDuplicate(Files[j][n]) # {} THEN "duplicate"
    ELSE "valid"

\* The rows the preview panel counts as new surveys
PreviewedNew(j) == {n \in 1..Len(Files[j]) : PreviewClass(j, n) = "valid"}

NoExec == [pc |-> "idle", job |-> CHOOSE j \in Jobs : TRUE, strategy |-> "UPDATE", prune |-> FALSE, stalls |-> 0,
           queued |-> FALSE, i |-> 1, dup |-> {}, good |-> 0, bad |-> 0,
           touched |-> {}, wards |-> {}, orphans |-> {}, new |-> {}]

\* createUpload: the workbook is stored and the job is READY; the page moves
\* on to the job
Upload(t, j) ==
    /\ job[j].status = "none" /\ seen[t][j] = "none"
    /\ Cardinality({k \in Jobs : job[k].status # "none"}) < MaxUploads
    /\ job' = [job EXCEPT ![j].status = "READY"]
    /\ UNCHANGED <<registry, errs, queue, exec, req, seen, queueUp, made, starts, crashes, lost>>

\* Mutant: no refetch while PROCESSING
MutPoll(t, j) ==
    /\ job[j].status # "none"
    /\ seen[t][j] \in {"none", "READY"} /\ seen[t][j] # job[j].status
    /\ seen' = [seen EXCEPT ![t][j] = job[j].status]
    /\ UNCHANGED <<registry, job, errs, queue, exec, req, queueUp, made, starts, crashes, lost>>

\* The job page loads the job, again every two seconds while it is PROCESSING
Poll(t, j) ==
    /\ job[j].status # "none"
    /\ seen[t][j] \in {"none", "READY", "PROCESSING"} /\ seen[t][j] # job[j].status
    /\ seen' = [seen EXCEPT ![t][j] = job[j].status]
    /\ UNCHANGED <<registry, job, errs, queue, exec, req, queueUp, made, starts, crashes, lost>>

\* Review & start import, offered while the page's copy of the job is READY,
\* whatever the preview counted
StartOffered(t, j) == seen[t][j] = "READY"

\* start marks the job ...
Start(t, j, e) ==
    /\ StartOffered(t, j) /\ exec[e].pc = "idle" /\ starts < MaxStarts
    /\ job' = [job EXCEPT ![j].status = "PROCESSING"]
    /\ \E p \in BOOLEAN :
          exec' = [exec EXCEPT ![e] = [NoExec EXCEPT !.pc = "enqueue", !.job = j, !.prune = p]]
    /\ starts' = starts + 1
    /\ UNCHANGED <<registry, errs, queue, req, seen, queueUp, made, crashes, lost>>

\* ... and then queues it, or executes it in the request when there is no queue
Enqueue(e) ==
    LET x == exec[e] IN
    /\ x.pc = "enqueue"
    /\ IF queueUp
       THEN /\ queue' = queue \cup {<<x.job, x.prune, 0, starts>>}
            /\ exec' = [exec EXCEPT ![e] = NoExec]
       ELSE /\ exec' = [exec EXCEPT ![e].pc = "begin"]
            /\ UNCHANGED queue
    /\ UNCHANGED <<registry, job, errs, req, seen, queueUp, made, starts, crashes, lost>>

\* A worker takes an entry
Take(e) ==
    /\ exec[e].pc = "idle"
    /\ \E n \in queue :
          /\ queue' = queue \ {n}
          /\ exec' = [exec EXCEPT ![e] = [NoExec EXCEPT !.pc = "begin", !.job = n[1], !.prune = n[2],
                                          !.stalls = n[3], !.queued = TRUE]]
    /\ UNCHANGED <<registry, job, errs, req, seen, queueUp, made, starts, crashes, lost>>

\* The repair script executes the job itself, as UPDATE and without pruning,
\* after clearing its counters and errors
Reprocess(e, j) ==
    /\ job[j].status \in Terminal /\ exec[e].pc = "idle" /\ starts < MaxStarts
    /\ job' = [job EXCEPT ![j] = [status |-> "PROCESSING", strategy |-> "UPDATE", good |-> 0, bad |-> 0]]
    /\ errs' = [errs EXCEPT ![j] = 0]
    /\ exec' = [exec EXCEPT ![e] = [NoExec EXCEPT !.pc = "begin", !.job = j]]
    /\ starts' = starts + 1
    /\ UNCHANGED <<registry, queue, req, seen, queueUp, made, crashes, lost>>

\* processJob reads the job and the workbook
Begin(e) ==
    /\ exec[e].pc = "begin"
    /\ exec' = [exec EXCEPT ![e].pc = "row", ![e].strategy = job[exec[e].job].strategy,
                            ![e].new = PreviewedNew(exec[e].job)]
    /\ quiet' = quiet \cup {e} /\ calm' = calm \cup {e}
    /\ UNCHANGED <<survey, job, errs, queue, req, seen, queueUp, made, starts, crashes, lost>>

\* The next row of the sheet: parsed, or reported as an error
ReadRow(e) ==
    LET x == exec[e]  f == Files[x.job][x.i]  dup == FindImportDuplicate(f) IN
    /\ x.pc = "row" /\ x.i <= Len(Files[x.job])
    /\ IF f.ok
       THEN /\ exec' = [exec EXCEPT ![e].pc = "apply",
                                    ![e].dup = {<<r, survey[r]>> : r \in dup}]
            /\ UNCHANGED errs
       ELSE /\ exec' = [exec EXCEPT ![e].i = @ + 1, ![e].bad = @ + 1]
            /\ errs' = [errs EXCEPT ![x.job] = @ + 1]
    /\ UNCHANGED <<registry, job, queue, req, seen, queueUp, made, starts, crashes, lost>>

\* Mutant: the diff compares the identity only
MutNoDiff(s, f) ==
    /\ s.id = ResolveImportSurveyId(f) /\ s.ward = f.ward /\ s.num = f.num

\* diffSurveyChanges sees the audited fields only
NoDiff(s, f) ==
    /\ s.id = ResolveImportSurveyId(f) /\ s.ward = f.ward /\ s.num = f.num
    /\ s.status = "ACTIVE" /\ s.val = f.val

\* A row of the sheet that succeeded
Done(e, r) ==
    exec' = [exec EXCEPT ![e].pc = "row", ![e].i = @ + 1, ![e].dup = {}, ![e].good = @ + 1,
                         ![e].touched = @ \cup {r},
                         ![e].wards = @ \cup {Files[exec[e].job][exec[e].i].ward}]

\* A duplicate that is skipped, or that the file would not change
Keep(e) ==
    LET x == exec[e]  f == Files[x.job][x.i] IN
    /\ x.pc = "apply"
    /\ \E d \in x.dup :
          /\ ~d[2].gone
          /\ \/ x.strategy = "SKIP"
             \/ x.strategy = "UPDATE" /\ NoDiff(d[2], f)
          /\ Done(e, d[1])
    /\ UNCHANGED <<registry, job, errs, queue, req, seen, queueUp, made, starts, crashes, lost>>

Rewritten(f) == NewRow(ResolveImportSurveyId(f), f.val, f.x)

RowFails(e) ==
    /\ exec' = [exec EXCEPT ![e].pc = "row", ![e].i = @ + 1, ![e].dup = {}, ![e].bad = @ + 1]
    /\ errs' = [errs EXCEPT ![exec[e].job] = @ + 1]

\* A duplicate rewritten from the file, revived if it was deleted; the unique
\* index refuses when another row took the id since the lookup
Update(e) ==
    LET x == exec[e]  f == Files[x.job][x.i] IN
    /\ x.pc = "apply"
    /\ \E d \in x.dup :
          /\ d[2].gone \/ (x.strategy = "UPDATE" /\ ~NoDiff(d[2], f))
          /\ IF TakenBy(ResolveImportSurveyId(f), d[1])
             THEN RowFails(e) /\ UNCHANGED registry
             ELSE /\ survey' = [survey EXCEPT ![d[1]] = Rewritten(f)]
                  /\ ExecutorWrites(e) /\ Done(e, d[1]) /\ UNCHANGED errs
    /\ UNCHANGED <<job, queue, req, seen, queueUp, made, starts, crashes, lost>>

\* No duplicate, or a live one under CREATE: insert, and when the index
\* refuses rewrite the row that has the id
Insert(e) ==
    LET x == exec[e]  f == Files[x.job][x.i]  id == ResolveImportSurveyId(f) IN
    /\ x.pc = "apply"
    /\ x.dup = {} \/ (x.strategy = "CREATE" /\ \A d \in x.dup : ~d[2].gone)
    /\ Holder(id) # {} \/ Free # {}
    /\ \E r \in IF Holder(id) = {} THEN {CHOOSE n \in Free : TRUE} ELSE Holder(id) :
          /\ survey' = [survey EXCEPT ![r] = Rewritten(f)]
          /\ ExecutorWrites(e) /\ Done(e, r)
    /\ UNCHANGED <<job, errs, queue, req, seen, queueUp, made, starts, crashes, lost>>

\* shouldReconcileWardAfterImport
ReconcileWard(x) ==
    IF /\ x.prune /\ x.strategy = "UPDATE" /\ x.bad = 0
       /\ x.touched # {} /\ Cardinality(x.wards) = 1
    THEN x.wards ELSE {}

\* Mutant: surveys the job touched are not excluded
MutOrphans(x) == {r \in Rows : Live(r) /\ survey[r].ward \in ReconcileWard(x)}

\* orphanSurveyWhere
Orphans(x) == {r \in Rows : /\ Live(r) /\ survey[r].status # "DELETED"
                            /\ survey[r].ward \in ReconcileWard(x) /\ r \notin x.touched}

\* Mutant: no cap
MutMayPrune(count, kept) == count > 0

\* shouldPruneOrphanCount: at most the floor or two percent of what was kept
PruneCap(kept) ==
    LET share == (kept * 2 + 99) \div 100
    IN  IF share > PruneFloor THEN share ELSE PruneFloor
MayPrune(count, kept) == count > 0 /\ count <= PruneCap(kept)

\* The end of the sheet: the ward's orphans are read, and kept when too many
ListOrphans(e) ==
    LET x == exec[e] IN
    /\ x.pc = "row" /\ x.i > Len(Files[x.job])
    /\ exec' = [exec EXCEPT ![e].pc = "finish",
                            ![e].orphans = IF MayPrune(Cardinality(Orphans(x)), Cardinality(x.touched))
                                           THEN Orphans(x) ELSE {}]
    /\ UNCHANGED <<registry, job, errs, queue, req, seen, queueUp, made, starts, crashes, lost>>

\* updateMany over the orphans that were read, whatever they are by now
PruneOrphans(e) ==
    LET x == exec[e] IN
    /\ x.pc = "finish" /\ x.orphans # {}
    /\ survey' = [r \in Rows |-> IF r \in x.orphans
                                 THEN [survey[r] EXCEPT !.gone = TRUE, !.status = "DELETED"]
                                 ELSE survey[r]]
    /\ exec' = [exec EXCEPT ![e].orphans = {}]
    /\ ExecutorWrites(e)
    /\ UNCHANGED <<job, errs, queue, req, seen, queueUp, made, starts, crashes, lost>>

\* The final update of the job
Finish(e) ==
    LET x == exec[e] IN
    /\ x.pc = "finish" /\ x.orphans = {}
    /\ job' = [job EXCEPT ![x.job].status = IF x.bad = 0 THEN "COMPLETED"
                                            ELSE IF x.good > 0 THEN "PARTIAL" ELSE "FAILED",
                          ![x.job].good = x.good, ![x.job].bad = x.bad]
    /\ exec' = [exec EXCEPT ![e] = NoExec]
    /\ quiet' = quiet \ {e} /\ calm' = calm \ {e}
    /\ UNCHANGED <<survey, errs, queue, req, seen, queueUp, made, starts, crashes, lost>>

\* A call of start or of processJob throws where nothing catches it: adding to
\* the queue, reading the workbook, recording a row's error, reconciling the
\* ward or the final update.  The worker only logs it, the queue does not give
\* the job out again, and it stays PROCESSING
JobThrows(e) ==
    /\ exec[e].pc # "idle" /\ crashes < MaxCrashes
    /\ crashes' = crashes + 1
    /\ exec' = [exec EXCEPT ![e] = NoExec]
    /\ quiet' = quiet \ {e} /\ calm' = calm \ {e}
    /\ lost' = lost \cup {exec[e].job}
    /\ UNCHANGED <<survey, job, errs, queue, req, seen, queueUp, made, starts>>

\* A process is lost.  The queue gives a stalled entry out once more; a start
\* request that had not queued the job, an execution without a queue and a
\* second stall leave the job PROCESSING
Crash(e) ==
    LET x == exec[e] IN
    /\ x.pc # "idle" /\ crashes < MaxCrashes
    /\ crashes' = crashes + 1
    /\ exec' = [exec EXCEPT ![e] = NoExec]
    /\ quiet' = quiet \ {e} /\ calm' = calm \ {e}
    /\ IF x.queued /\ x.stalls = 0
       THEN queue' = queue \cup {<<x.job, x.prune, 1, 0>>} /\ UNCHANGED lost
       ELSE lost' = lost \cup {x.job} /\ UNCHANGED queue
    /\ UNCHANGED <<survey, job, errs, req, seen, queueUp, made, starts>>

-----------------------------------------------------------------------------
Init ==
    /\ survey = Legacy
    /\ job = [j \in Jobs |-> [status |-> "none", strategy |-> Strategy[j], good |-> 0, bad |-> 0]]
    /\ errs = [j \in Jobs |-> 0]
    /\ queue = {}
    /\ exec = [e \in Execs |-> NoExec]
    /\ req = [q \in Reqs |-> NoReq]
    /\ seen = [t \in Tabs |-> [j \in Jobs |-> "none"]]
    /\ queueUp \in BOOLEAN
    /\ \E s \in Spent : made = s[1] /\ starts = s[2] /\ crashes = s[3]
    /\ quiet = {} /\ calm = {} /\ lost = {}

Operator(q) ==
    \/ ListSurveys(q) \/ CreateCheck(q) \/ CreateInsert(q)
    \/ \E r \in Rows : \/ OpenSurvey(q, r) \/ OpenForm(q, r) \/ DeleteSurvey(q, r)
                       \/ \E st \in {"ACTIVE", "ARCHIVED"} : ArchiveOrRestore(q, r, st)
    \/ Find(q) \/ Repair(q) \/ Show(q) \/ FillFromRecord(q) \/ Save(q) \/ Leave(q)
    \/ Patch(q) \/ Remove(q)

Process(e) ==
    \/ Enqueue(e) \/ Take(e) \/ Begin(e) \/ ReadRow(e) \/ Keep(e) \/ Update(e) \/ Insert(e)
    \/ ListOrphans(e) \/ PruneOrphans(e) \/ Finish(e)

Next ==
    \/ \E q \in Reqs : Operator(q)
    \/ \E e \in Execs : Process(e) \/ JobThrows(e) \/ Crash(e)
    \/ \E e \in Execs, j \in Jobs : Reprocess(e, j)
    \/ \E t \in Tabs, j \in Jobs : Upload(t, j) \/ Poll(t, j) \/ \E e \in Execs : Start(t, j, e)

Spec == Init /\ [][Next]_vars

\* A process that can go on does, and an open job page goes on polling
FairSpec == /\ Spec
            /\ \A e \in Execs : WF_vars(Process(e))
            /\ \A t \in Tabs : WF_vars(\E j \in Jobs : Poll(t, j))

-----------------------------------------------------------------------------
(* Properties.                                                             *)

\* The number in a survey's id is the survey's parcel and unit number, although
\* edits, status changes, read repairs and imports all write rows they read
\* earlier and some of them write only part of the identity.
IdCarriesNumber == \A r \in Rows : survey[r].on => survey[r].id[2] = survey[r].num

\* Rows of the file that no later row of the file overrides
Final(j) == {n \in 1..Len(Files[j]) :
                \A m \in (n + 1)..Len(Files[j]) :
                    Files[j][m].ward # Files[j][n].ward \/ Files[j][m].num # Files[j][n].num}

\* The Survey Id column names the row's own parcel
OwnIds(j) == \A n \in 1..Len(Files[j]) :
                LET f == Files[j][n] IN f.raw[2] = f.num /\ f.raw[1] \in {0, f.ward}

\* A parcel has one use letter throughout the file
OneUse(j) == \A n, m \in 1..Len(Files[j]) :
                Files[j][n].ward = Files[j][m].ward /\ Files[j][n].num = Files[j][m].num
                    => Files[j][n].raw[3] = Files[j][m].raw[3]

Stored(f, r) == /\ Live(r) /\ survey[r].id = ResolveImportSurveyId(f)
                /\ survey[r].ward = f.ward /\ survey[r].val = f.val

\* One ward and one use letter
OneKind(j) == \A n, m \in 1..Len(Files[j]) :
                  Files[j][n].ward = Files[j][m].ward /\ Files[j][n].raw[3] = Files[j][m].raw[3]

\* When an UPDATE import ends without errors, and nobody else wrote surveys
\* while it ran, every row of the file is a live survey with the file's
\* values, and after a prune the ward has no other live survey, or too many
\* for the cap.  It also holds for the execution after a crash, over the rows the
\* lost one left.  It finds no survey to write to, and so inserts one, for
\* exactly the rows that a preview at its beginning calls valid.
FileIsTheWard ==
    [][\A e \in Execs :
          LET x == exec[e] IN
          e \in quiet /\ x.strategy = "UPDATE" /\ OwnIds(x.job) =>
             /\ x.pc = "finish" /\ x.bad = 0 /\ Finish(e) =>
                   /\ \A n \in Final(x.job) : \E r \in Rows : Stored(Files[x.job][n], r)
                   /\ ~MayPrune(Cardinality(Orphans(x)), Cardinality(x.touched))
             /\ x.pc = "apply" /\ OneKind(x.job) => (x.dup = {} <=> x.i \in x.new)]_vars

\* Executions of one job, two or more at once when it was started from two
\* pages, given out again or reprocessed, write the table between them, each by
\* what it looked up earlier.  As long as nobody else does, none of them prunes a
\* survey the file holds: after it every row of the file is a live survey.
PruneSparesTheFile ==
    [][\A e \in Execs :
          LET x == exec[e] IN
          e \in calm /\ PruneOrphans(e) /\ OwnIds(x.job) /\ OneUse(x.job) =>
             \A n \in 1..Len(Files[x.job]) : \E r \in Rows :
                 Live(r)' /\ survey'[r].id = ResolveImportSurveyId(Files[x.job][n])]_vars

\* The registry as the set of survey ids its rows hold
Registration == [k \in Ids |->
    IF Holder(k) = {} THEN "absent"
    ELSE IF \A r \in Holder(k) : survey[r].gone THEN "deleted" ELSE "live"]

Registered == INSTANCE Registry WITH Cap <- PruneCap(Cardinality(Rows)), reg <- Registration

\* Every interleaving of operators, read repairs and import executions is a
\* behaviour of the abstract registry (whose cap is that of a workbook with
\* every survey in it): no id vanishes but by a move to a free one, and one
\* step deletes no more surveys than the prune cap.
RegistryImplemented == Registered!Spec

Awaited(t) == {j \in Jobs \ lost : seen[t][j] = "PROCESSING"}

\* An import page that shows a job as PROCESSING comes to show its end, unless
\* an execution of the job was lost: the start request died or failed before
\* the job was queued, processJob threw where nothing catches it (a workbook
\* that cannot be read, an error that cannot be recorded, the reconciliation or
\* the final update), or its executor died with no second delivery left.
StartedJobEnds == \A t \in Tabs : (Awaited(t) # {}) ~> (Awaited(t) = {})
=============================================================================
