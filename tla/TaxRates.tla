------------------------------ MODULE TaxRates ------------------------------
(* Tax configurations of one assessment year: the rate cells and the       *)
(* percentages of each ward, their published versions, the demands billed  *)
(* from them, and the tax workspace of the portal that edits them.         *)
(*                                                                         *)
(* The API runs a request as a series of database calls outside any        *)
(* transaction; each is a step.  The cells are one value here, the         *)
(* percentages another, and a ward has one demand.                         *)
EXTENDS Integers, FiniteSets

CONSTANTS
    Wards,
    Rates,     \* values of the cells and of the percentages, 0 the initial one
    Pages,     \* open tax workspaces
    Reqs,      \* requests in flight at once
    MaxRateReq,    \* bound on requests
    MaxEdits   \* bound on edits

ASSUME RatesConstants ==
    0 \in Rates /\ {} \notin {Wards, Pages} /\ MaxRateReq \in Nat /\ MaxEdits \in Nat

VARIABLES
    cfg,       \* TaxConfig table with its cells
    hist,      \* TaxConfigVersion rows of each ward
    bill,      \* the rates the ward's demands were computed from
    page,      \* what each workspace shows
    req,       \* the requests
    made, edits,
    mess       \* wards on which two requests overlapped, or one was cut short

rateVars == <<cfg, hist, bill, page, req, made, edits, mess>>
tables == <<cfg, hist, bill>>

Draft == [cells : Rates, pct : Rates]
RatesOf(r) == [cells |-> r.cells, pct |-> r.pct]
NoReq == [op |-> "none", pc |-> "idle", page |-> CHOOSE p \in Pages : TRUE,
          w |-> CHOOSE w \in Wards : TRUE, cur |-> CHOOSE w \in Wards : TRUE,
          want |-> [cells |-> 0, pct |-> 0], st |-> "DRAFT", ver |-> 0, todo |-> {}, got |-> {}]

-----------------------------------------------------------------------------
(* The workspace.                                                          *)

\* Choosing a ward: its configuration is loaded, and the timer of an edit goes
\* on.  The query's cache would show an earlier answer meanwhile; here nothing is
\* shown, and an answer grows old on display as others publish.
SelectWard(p, w) ==
    /\ page[p].ward # w
    /\ page' = [page EXCEPT ![p].ward = w, ![p].seen = {}]
    /\ UNCHANGED <<tables, req, made, edits, mess>>

\* getOrCreate: a ward without configuration gets a draft with zero rates
GetOrCreate(w) ==
    IF cfg[w].st = "none" THEN [st |-> "DRAFT", ver |-> 1, cells |-> 0, pct |-> 0] ELSE cfg[w]

\* The drafts are reset only when the configuration or its version changes
Reset(p, c) ==
    IF \E s \in page[p].seen : s.ver = c.ver THEN page[p].draft ELSE RatesOf(c)

\* The query, on selection and after every change
Load(p) ==
    LET w == page[p].ward  c == GetOrCreate(w) IN
    /\ page[p].seen # {c} \/ cfg[w] # c
    /\ cfg' = [cfg EXCEPT ![w] = c]
    /\ page' = [page EXCEPT ![p].seen = {c}, ![p].draft = Reset(p, c)]
    /\ UNCHANGED <<hist, bill, req, made, edits, mess>>

\* An edited cell is saved after a pause, if the configuration is a draft
EditCell(p, v) ==
    /\ edits < MaxEdits /\ v # page[p].draft.cells
    /\ \E s \in page[p].seen :
          page' = [page EXCEPT ![p].draft.cells = v,
                               ![p].timer = IF s.st = "DRAFT" THEN {v} ELSE @]
    /\ edits' = edits + 1
    /\ UNCHANGED <<tables, req, made, mess>>

Targets(r) == IF r.op = "none" THEN {} ELSE IF r.op = "copy" THEN Wards ELSE {r.w}

\* A request begins, in any idle slot (they are alike); the wards it shares with another one are noted
Begin(q, r) ==
    /\ req[q] = NoReq /\ made < MaxRateReq
    /\ q = CHOOSE o \in Reqs : req[o] = NoReq
    /\ req' = [req EXCEPT ![q] = r]
    /\ made' = made + 1
    /\ mess' = mess \cup UNION {Targets(r) \cap Targets(req[o]) : o \in Reqs \ {q}}
    /\ UNCHANGED tables

Request(op, p, w, d) ==
    [NoReq EXCEPT !.op = op, !.pc = "read", !.page = p, !.w = w, !.cur = w, !.want = d]

\* The pause is over: the save goes to the configuration shown now
TimerFires(p, q) ==
    \E v \in page[p].timer :
        IF page[p].seen = {}
        THEN /\ page' = [page EXCEPT ![p].timer = {}]
             /\ UNCHANGED <<tables, req, made, edits, mess>>
        ELSE /\ Begin(q, Request("cells", p, page[p].ward, [page[p].draft EXCEPT !.cells = v]))
             /\ page' = [page EXCEPT ![p].timer = {}]
             /\ UNCHANGED edits

\* A percentage is saved when the field is left, if the configuration is a
\* draft and the value another than the one loaded
EditPct(p, q, v) ==
    /\ edits < MaxEdits /\ v # page[p].draft.pct
    /\ edits' = edits + 1
    /\ \E s \in page[p].seen :
          /\ page' = [page EXCEPT ![p].draft.pct = v]
          /\ IF s.st = "DRAFT" /\ v # s.pct
             THEN Begin(q, Request("pct", p, page[p].ward, [page[p].draft EXCEPT !.pct = v]))
             ELSE UNCHANGED <<tables, req, made, mess>>

Pending(p, op) == \E q \in Reqs : req[q].op = op /\ req[q].page = p

\* Publish and Copy to all wards send everything the workspace shows
AskPublish(p, q) ==
    /\ page[p].seen # {} /\ ~Pending(p, "publish")
    /\ Begin(q, Request("publish", p, page[p].ward, page[p].draft))
    /\ UNCHANGED <<page, edits>>

AskCopy(p, q) ==
    /\ page[p].seen # {} /\ ~Pending(p, "copy")
    /\ Begin(q, Request("copy", p, page[p].ward, page[p].draft))
    /\ UNCHANGED <<page, edits>>

-----------------------------------------------------------------------------
(* The API.                                                                *)

Goto(q, pc) == req' = [req EXCEPT ![q].pc = pc]
End(q) == req' = [req EXCEPT ![q] = NoReq]
At(q, pc) == req[q].pc = pc
Same == UNCHANGED <<page, made, edits, mess>>

\* Mutant: published configurations may be edited
MutAssertEditableDraft(c) == c.st \in {"DRAFT", "PUBLISHED"}

AssertEditableDraft(c) == c.st = "DRAFT"

\* updateParams and upsertCells read the configuration
CheckDraft(q) ==
    /\ At(q, "read") /\ req[q].op \in {"cells", "pct"}
    /\ IF AssertEditableDraft(cfg[req[q].w]) THEN Goto(q, req[q].op) ELSE End(q)
    /\ Same /\ UNCHANGED tables

\* publish reads the configuration and compares its rates with those sent
ReadConfig(q) ==
    LET r == req[q]  c == cfg[r.w] IN
    /\ At(q, "read") /\ r.op = "publish"
    /\ IF c.st = "PUBLISHED" /\ RatesOf(c) = r.want
       THEN req' = [req EXCEPT ![q].pc = "mark", ![q].ver = c.ver]
       ELSE Goto(q, "cells")
    /\ Same /\ UNCHANGED tables

\* copyToAllWards reads the source, whose status decides for every ward
CopyRead(q) ==
    LET r == req[q]  c == cfg[r.w] IN
    /\ At(q, "read") /\ r.op = "copy"
    /\ req' = [req EXCEPT ![q].pc = "next", ![q].st = c.st, ![q].ver = c.ver, ![q].todo = Wards]
    /\ Same /\ UNCHANGED tables

\* The next ward of the copy; the source itself is used as it was read
CopyNext(q) ==
    LET r == req[q] IN
    /\ At(q, "next")
    /\ IF r.todo = {} THEN End(q) /\ UNCHANGED tables
       ELSE \E w \in r.todo :
            LET c == IF w = r.w THEN [st |-> r.st, ver |-> r.ver] ELSE GetOrCreate(w)
            IN  /\ cfg' = [cfg EXCEPT ![w] = IF w = r.w THEN @ ELSE c]
                /\ req' = [req EXCEPT ![q].pc = "cells", ![q].cur = w, ![q].todo = @ \ {w},
                               ![q].got = {[st |-> c.st, ver |-> c.ver]}]
                /\ UNCHANGED <<hist, bill>>
    /\ Same

\* writeCells
WriteCells(q) ==
    LET r == req[q] IN
    /\ At(q, "cells")
    /\ cfg' = [cfg EXCEPT ![r.cur].cells = r.want.cells]
    /\ IF r.op = "cells" THEN End(q) ELSE Goto(q, "pct")
    /\ Same /\ UNCHANGED <<hist, bill>>

\* writeParams; a draft that was only copied to is done with
WriteParams(q) ==
    LET r == req[q]
        aligned == r.st = "PUBLISHED"
        target == CHOOSE g \in r.got : TRUE
    IN
    /\ At(q, "pct")
    /\ cfg' = [cfg EXCEPT ![r.cur].pct = r.want.pct]
    /\ CASE r.op = "pct" -> End(q)
         [] r.op = "publish" -> Goto(q, "reread")
         [] r.op = "copy" /\ aligned -> Goto(q, "version")
         [] r.op = "copy" /\ ~aligned /\ target.st = "PUBLISHED" ->
               req' = [req EXCEPT ![q].pc = "version", ![q].got = {[target EXCEPT !.ver = @ + 1]}]
         [] r.op = "copy" /\ ~aligned /\ target.st # "PUBLISHED" -> Goto(q, "next")
    /\ Same /\ UNCHANGED <<hist, bill>>

\* publish reads the configuration again for its next version
Reread(q) ==
    LET c == cfg[req[q].w] IN
    /\ At(q, "reread")
    /\ req' = [req EXCEPT ![q].pc = "version",
                          ![q].ver = c.ver + (IF c.st = "PUBLISHED" THEN 1 ELSE 0)]
    /\ Same /\ UNCHANGED tables

\* The version this request gives the ward it is at
NewVersion(r) == IF r.op = "copy" /\ r.st # "PUBLISHED" THEN (CHOOSE g \in r.got : TRUE).ver ELSE r.ver

\* The version row: a new one, but the aligned copy rewrites one that exists
AddVersion(q) ==
    LET r == req[q]
        new == [ver |-> NewVersion(r), cells |-> r.want.cells, pct |-> r.want.pct]
        old == IF r.op = "copy" /\ r.st = "PUBLISHED"
               THEN {h \in hist[r.cur] : h.ver = r.ver} ELSE {}
    IN  /\ At(q, "version")
        /\ hist' = [hist EXCEPT ![r.cur] =
                       (IF old = {} THEN @ ELSE @ \ {CHOOSE h \in old : TRUE}) \cup {new}]
        /\ Goto(q, "mark")
        /\ Same /\ UNCHANGED <<cfg, bill>>

\* The configuration gets the version; demands follow, except after a copy
\* from a draft
Mark(q) ==
    LET r == req[q]  quietly == r.op = "copy" /\ r.st # "PUBLISHED" IN
    /\ At(q, "mark")
    /\ cfg' = [cfg EXCEPT ![r.cur].ver = NewVersion(r),
                          ![r.cur].st = IF quietly THEN @ ELSE "PUBLISHED"]
    /\ Goto(q, IF quietly THEN "next" ELSE "bill")
    /\ Same /\ UNCHANGED <<hist, bill>>

\* publishForWard reads the published rates ...
BillRead(q) ==
    LET r == req[q] IN
    /\ At(q, "bill")
    /\ req' = [req EXCEPT ![q].pc = "billing", ![q].got = {RatesOf(cfg[r.cur])}]
    /\ Same /\ UNCHANGED tables

\* Mutant: the demand keeps the rates it had
MutBillWrite(q) ==
    LET r == req[q] IN
    /\ At(q, "billing")
    /\ bill' = [bill EXCEPT ![r.cur] = IF @ = {} THEN r.got ELSE @]
    /\ IF r.op = "publish" THEN End(q) ELSE Goto(q, "next")
    /\ Same /\ UNCHANGED <<cfg, hist>>

\* ... and writes the demands of the ward
BillWrite(q) ==
    LET r == req[q] IN
    /\ At(q, "billing")
    /\ bill' = [bill EXCEPT ![r.cur] = r.got]
    /\ IF r.op = "publish" THEN End(q) ELSE Goto(q, "next")
    /\ Same /\ UNCHANGED <<cfg, hist>>

\* The request dies between two of its writes
Dies(q) ==
    /\ req[q] # NoReq /\ req[q].pc # "read"
    /\ End(q)
    /\ mess' = mess \cup Targets(req[q])
    /\ UNCHANGED <<tables, page, made, edits>>

-----------------------------------------------------------------------------
\* Some wards have been published before
RatesInit ==
    /\ \E old \in SUBSET Wards :
          /\ cfg = [w \in Wards |-> [st |-> IF w \in old THEN "PUBLISHED" ELSE "none",
                                     ver |-> 1, cells |-> 0, pct |-> 0]]
          /\ hist = [w \in Wards |-> IF w \in old THEN {[ver |-> 1, cells |-> 0, pct |-> 0]} ELSE {}]
          /\ bill = [w \in Wards |-> IF w \in old THEN {[cells |-> 0, pct |-> 0]} ELSE {}]
    /\ page \in [Pages -> {[ward |-> w, seen |-> {}, timer |-> {},
                            draft |-> [cells |-> 0, pct |-> 0]] : w \in Wards}]
    /\ req = [q \in Reqs |-> NoReq]
    /\ made = 0 /\ edits = 0 /\ mess = {}

Api(q) == \/ CheckDraft(q) \/ ReadConfig(q) \/ CopyRead(q) \/ CopyNext(q) \/ WriteCells(q)
          \/ WriteParams(q) \/ Reread(q) \/ AddVersion(q) \/ Mark(q) \/ BillRead(q)
          \/ BillWrite(q) \/ Dies(q)

\* After the last request nothing is done in a workspace
Workspace(p) ==
    /\ made < MaxRateReq
    /\ \/ Load(p)
       \/ \E w \in Wards : SelectWard(p, w)
       \/ \E v \in Rates : EditCell(p, v)
       \/ \E q \in Reqs : \/ TimerFires(p, q) \/ AskPublish(p, q) \/ AskCopy(p, q)
                          \/ \E v \in Rates : EditPct(p, q, v)

RatesNext == (\E q \in Reqs : Api(q)) \/ (\E p \in Pages : Workspace(p))

RatesSpec == RatesInit /\ [][RatesNext]_rateVars

-----------------------------------------------------------------------------
(* Properties.                                                             *)

\* The configurations, their versions and the workspaces hold what they may hold
RatesTypeOK ==
    /\ \A w \in Wards : /\ cfg[w].st \in {"none", "DRAFT", "PUBLISHED"}
                        /\ cfg[w].ver \in Nat \ {0} /\ RatesOf(cfg[w]) \in Draft
                        /\ hist[w] \subseteq [ver : Nat \ {0}, cells : Rates, pct : Rates]
                        /\ bill[w] \subseteq Draft
    /\ \A p \in Pages : page[p].draft \in Draft

Settled(w) == w \notin mess /\ \A q \in Reqs : w \notin Targets(req[q])

\* A published configuration carries a version its history has a row of, whatever
\* requests overlap and wherever they die; and where none did, that row is the
\* configuration, whatever sequence of saves, publishes and copies led to it: a rate
\* is never changed behind the back of the history.  (Nothing locks or rolls back, so
\* not when two requests overlapped on the ward or one was cut short.)
RatesAreVersioned ==
    \A w \in Wards : cfg[w].st = "PUBLISHED" =>
        \E h \in hist[w] : /\ h.ver = cfg[w].ver
                           /\ Settled(w) => RatesOf(h) = RatesOf(cfg[w])

\* When a publish, or a copy from a published ward, is done with a ward
\* undisturbed, the ward's demands are billed at exactly the rates that the
\* workspace showed when the button was pressed, and so is its configuration.
BilledAsShown ==
    [][\A q \in Reqs :
          LET r == req[q] IN
          At(q, "billing") /\ req'[q].pc # "billing" /\ Targets(r) \cap mess' = {} =>
              bill'[r.cur] = {r.want} /\ RatesOf(cfg'[r.cur]) = r.want]_rateVars
=============================================================================
