# Property-tax payments and demands: a TLA+ model

The repository is the platform of a town council: staff survey properties, the API
computes and publishes a yearly tax demand for each, citizens pay it online through
the Atom NDPS gateway or at the counter, and at the end of a year what is unpaid is
carried into the next. This directory models where the money moves, where the
surveys, rates and sessions behind it are kept, and the pages through which people
move them; it checks the model with TLC and proves all of its invariants and action
properties, and the refinement of the survey registry, with TLAPS; of the six
statements that the code breaks it proves what it takes to keep them.

## 1. Inventory

The API (`apps/api`, NestJS over PostgreSQL with Prisma, Redis and a BullMQ
queue) holds all the state; the staff portal (`apps/portal`) and the citizen
site (`apps/web`) are user interfaces over it. Components interact through the
database: a service reads rows, awaits, and writes rows, and any other request
may run at each await. The only messages are HTTP requests, the gateway's
reports and the import queue.

| Component | State | Operations | What is hard | What makes it correct |
|---|---|---|---|---|
| Online payments (`payments`, `public-property-tax`) | `payment`, `payment_callback`, `property_demand` | staff and citizen checkout, callback, browser return, requery, citizen status sync | reports repeated and reordered; status decided before an await and written after it | a payment looks paid only if it is; a paid one is credited, once; success stays |
| Refunds | `payment.refundableAmount`, `payment_refund` | refund | a gateway call between check and write; a crash after it | never more refunded than paid; balance backed by rows |
| Counter collections | `payment`, `property_demand` | createOffline, the collection wizard | cashiers at the same time; retries behind a time-out | never above the dues; one payment per pass, and its own receipt |
| Gateway (external) and its provider | its orders; none | token, report, requery, refund | many forms of one answer; paise and rupees | books on both sides agree |
| Demand publishing (`demands`) | `property_demand` | publish, publishForWard | no lock between read and write | keeps what is paid and in arrears |
| Year-end closing | `year_end_run`, `demand_arrear`, `property_demand` | preview, commit, the page | a long transaction at READ COMMITTED; a preview outside it | all or nothing, once, complete; commits what was previewed |
| Tax calculation, receipts (`tax`, `receipt-allocation`) | none (pure) | assessment, zone map, allocation over heads | rounding, caps, zero; part payments | the papers of a property agree |
| Tax configurations | drafts, cells, versions, demands | edit, publish, copy, the workspace | publishes without a transaction; debounced edits | a version for what is published; bills at the rates shown |
| Assessment years, adjustments | years, rules | edit, activate, publish, archive | check and write apart | ranges disjoint; a published rule should stand, and an edit under way can still change it |
| Survey imports | `import_job`, queue, surveys | upload, preview, start, process, reprocess, prune | worker restart over a half-done job; two executions | the ward becomes the file; a started job ends |
| Surveys | surveys, floors, ids | create, read with repair, update, remove | stale writes of part of an identity; soft-deleted ids | ids match and are never lost |
| Sessions, login protection | session rows, Redis cache, reset tokens, counters | login, guard, rotate, revoke, reset; lock | a cache beside a table; answers lost; attempts overlapping | an ended session stays ended; the browser holds the current token |
| Users, roles | users, roles, permissions | update, deactivate, matrix | delete and create without a transaction | what was saved holds |
| Lists and dashboard of the portal, citizen site | queries on display | type, filter, page; search, pay, return | answers out of order, stale pages, tabs | what is shown belongs together |
| Settlements, audit, storage, health, configuration, spreadsheets | append-only or none | CRUD, read-only | little | - |

## 2. Modules

Money and demands:

- `Payments`: one demand ledger with everything that writes to a payment: both
  checkouts, gateway reports, requeries, refunds, counter collections and
  publishes. `MCPayments` instantiates it.
- `YearEnd`: demands over several years: single and ward publishes, payments
  and the closing. `MCYearEnd` instantiates it.
- `Assessment`: what a survey is billed and what every paper says about it.
- `Gateway`: one payment on the wire between the provider and Atom.

Records behind them:

- `Surveys`: the survey table, operators, and import jobs; `Registry`: what the
  registry promises, which `Surveys` implements. `MCSurveys` instantiates both.
- `TaxRates`: tax configurations, their versions, bills and the workspace.
- `TaxReference`: assessment years and adjustment rules.
- `Sessions`, `LoginProtection`: sign-in; `MCSessions` instantiates them.
- `Access`: the two "replace all rows" saves of the settings and signing in.

Pages over them:

- `CounterDesk`: the collection wizard and its request.
- `CitizenSite`: search, and checkouts in several tabs up to the return page.
- `Screens`: the list pages; `Figures`: the dashboard.
- `FloorsEditor`: the floors of a survey; `ClosingPage`: the year-end page.
- `MCOffice` instantiates `TaxRates`, `TaxReference`, `CounterDesk`,
  `CitizenSite`, `Screens`, `Access`, `Assessment`, `Gateway`, `FloorsEditor`,
  `ClosingPage` and `Figures`.

Theorems:

- `FiniteSums`: lemmas about sums over finite sets, least numbers and counting by
  parts, that the others use.
- `PaymentsProofs`, `YearEndProofs`: about `Payments` and `YearEnd`, and under which
  conditions what six runs show violated does hold.
- `SurveysProofs`: about `Surveys`, and that it implements `Registry`.
- `SessionsProofs`: about `LoginProtection` and `Sessions`.
- `TaxProofs`: about `TaxReference`, `TaxRates` and `Assessment`.
- `SiteProofs`: about `Gateway` and `CitizenSite`.
- `OfficeProofs`: about `CounterDesk`, `ClosingPage`, `Screens`, `Access`,
  `Figures` and `FloorsEditor`, and about the sum of parts in `MCOffice`.

### Payments

`demand`, `pay`, `seen` and `refunds` are the tables (`seen[p]`: a processed
callback row for p's `merchTxnId` exists; `refunds[p]`: the sum of p's successful
refund rows), `recent` the payments younger than the fifteen-minute window of
`payment-in-progress.util.ts`. `req` holds the requests in flight; a request's
record carries what it read (`saw`) from one await to the next. `gw`, `sent` and
`returned` are the gateway's side; `credits` is a history variable, and
`published` only bounds the publishes.

| Code | Actions |
|---|---|
| `createOnline`, citizen `createPayment`, `createOnlinePayment` | `StaffOnline`, `CitizenOnline`, `CreatePayment`, `CheckoutRefused`, `CheckoutIssued` |
| `handleCallback`, `handleGatewayReturn` | `CallbackStart`, `CallbackCommit`, `CallbackConflict` |
| `requery`, `syncCitizenPaymentByMerchTxnId`, `finalizeRequerySuccess` | `RequeryStart`, `SyncStart`, `RequerySuccess`, `RequeryUnsuccessful` |
| `refund` | `RefundStart`, `RefundAccepted`, `RefundRefused`, `RefundRecord`, `RefundApply` |
| `createOffline` | `OfflineStart`, `OfflineCommit`, `OfflineRejected` |
| `upsertPublishedDemandForSurvey` | `PublishStart`, `PublishWrite`, `PublishConflict` |
| time, gateway, process death | `WindowExpires`, `GatewayPaid`, `GatewayDeclined`, `Crash` |

Abstractions. A Prisma transaction takes the demand row `FOR UPDATE` before it
reads what it depends on and is one action; the reads a request makes before its
first write or call are one read. Receipt numbers, snapshots and gateway ids are
set or not set. Money is whole units: the code rounds every sum to paise, and
nothing here divides. A callback's idempotency key is the order number (a key
given in the payload is not modelled). The gateway is truthful; it may answer
late, repeat itself and reorder; a customer can pay only once the token has been
returned; a success report names its transaction, an unsuccessful one may. It
does not police the sum of refunds: where the real one does, `over_refund` ends
in its refusal. Audit rows are left out. `DRAFT` demands, which only a closing
makes, and the closing itself are in `YearEnd`; the balance theorem of `Payments`
is about the other writers.

### YearEnd

`demand[s][y]`, `arrear[s][y][f]`, `run[f][y]` are the tables `property_demand`,
`demand_arrear` and `year_end_run`, `succ[s][y]` the sum of successful payments,
`task` the publishes and closings in flight.

| Code | Actions |
|---|---|
| `publish`, `publishForWard` | `PublishOne`, `PublishWard`, `PublishRead`, `PublishWrite`, `PublishFailed` |
| collections and confirmed payments | `Pay` |
| `previewYearEnd`, `commitYearEnd` | `CloseStart`, `CarryRead`, `CarrySkip`, `CarryWrite`, `CloseCommit`, `CloseAborted` |

The closing runs at the database's default isolation: it reads committed rows,
its own writes (`writes`) are invisible and lock their rows until the commit, and
an abort drops them. The unique keys of the three tables are guards. An
assessment may compute any current demand of `Currents`; rebate, penalty and the
order of a ward's surveys are abstracted, and a ward's first failure ends the
request (what it has published stays).

### Surveys and Registry

`survey` is the table; a row's id is ward, number and use letter, and 0 is the
placeholder ward of old workbooks. `job`, `errs` are the import tables, `queue`
the BullMQ entries with how often each has stalled, `exec` what each process is
executing, `req` what each operator page is doing, `seen` the status an import
page shows. An execution keeps what `processJob` reads once: the rows and the
strategy. `quiet`, `calm`, `lost` are history: executions that were alone
with the table since they began, those since whose beginning only executions of
their own job wrote it, and jobs nobody will finish.

| Code | Actions |
|---|---|
| list, `findOne` with `ensureResolvedSurveyId`, detail page and form | `ListSurveys`, `OpenSurvey`, `OpenForm`, `Find`, `Repair`, `Show`, `FillFromRecord` |
| `create`, `update`, `remove`, archive and restore | `CreateCheck`, `CreateInsert`, `Save`, `Patch`, `DeleteSurvey`, `Remove`, `ArchiveOrRestore` |
| `createUpload`, `start`, `reprocessJob`, the job page | `Upload`, `Start`, `Enqueue`, `Reprocess`, `Poll` |
| `processJob`, `reconcileWardOrphans` | `Take`, `Begin`, `ReadRow`, `Keep`, `Update`, `Insert`, `ListOrphans`, `PruneOrphans`, `Finish`, `JobThrows` |
| `preview` | `PreviewClass`, `StartOffered` |
| process death, stalled-job redelivery | `Crash` |

A request or an execution reads in one step and writes in another. Two groups of
calls are one step each: the lookups of `findImportDuplicate`, and an import's
insert with the lookup and the rewrite it falls back to. `JobThrows` may come at any
step: a workbook that cannot be read, an error row, the reconciliation or the final
update that fails; BullMQ makes one attempt, so nobody takes the job up again. The
refinement maps the table to `[Ids -> {"absent", "live", "deleted"}]`; a repair or
edit that changes an id is the abstract `Move`, a prune one `Retire` of at most the
cap, an import over a deleted survey `Revive`. Attachments, masking, neighbours and
the errors workbook are left out; a survey's other fields are one value written by
the import and one (`x`) that only operators write.

### Sessions and LoginProtection

`row` is the session table, `cache` the Redis entries, `jar` the browser's cookie; a
token is `<<sid, gen>>`. `call[c]` is what the browser waits for and `exec[c][a]`
the API's work on attempt `a`, which goes on after the proxy stopped waiting. Each
Redis or database call is a step, except that `Touch` writes cache and row together:
`Lookup`, `ExpireCache`, `DbRead`, `ExpireRow`, `Fill`, `Refresh`, `RotDel`,
`RotSet`, `Touch` (guard and `refreshSessionIfNeeded`), `Revoke*`, `Logout*`,
`Login`, `CreateSession`, `CreateCache`, `AdminUpdate`, `Issue*`, `Reset*`. Around
them `Timeout`, `Answer`, `Discard` (the answer is lost), `CacheDown`, `Crash`,
`Evict` and `Tick`. The clock moves only while no request runs: a request is short
against a session's life. `LoginProtection` has the throttle's separate Redis
commands for attempts that overlap, `CutOff` and `Expire`.

### TaxRates and TaxReference

`cfg[w]`, `hist[w]`, `bill[w]` are a ward's configuration, its version rows and its
demand; `req` the requests call by call (`ReadConfig`, `WriteCells`, `WriteParams`,
`AddVersion`, `Mark`, `BillRead`, `BillWrite`, `Copy*`, `Dies`); `page` the workspace
with its debounced cell edits (`EditCell`, `TimerFires`). `TaxReference` has `year`,
`rule`, one request per clerk (a check and a write: `CheckYear`, `WriteYear`,
`CheckRule`, `WriteRule`) and the lists each page last loaded (`grid`).

### Assessment, Gateway

`Assessment` writes `computePropertyAssessment`, `computeFloorAlv`, the rebates and
penalties, `buildReceiptAllocation`, the notice, the dues card, the ward report and
the dashboard's demand as operators over records, and moves one account through
publishes, collections, checkouts, carried arrears and changed rules. Money is in
paise. `Gateway` has one `charge` (our row), `ndps` (Atom's order) and `refund`, and
an action for each request and answer with the forms an answer may have: amount
present or not, text or number, encrypted, unreadable, lost.

### Access

The role matrix and the user form share a shape: `DeleteRows` and `CreateRows`
outside a transaction, for a user between `WriteStatus` and `RevokeSessions`, with
a sign-in (`LookAtStatus`, `CreateSession`) beside it.

### Pages

`CounterDesk`: `desk` is the wizard with the key of `idempotencyKeyRef`, `sent` the
requests, `coll` the recorded collections; a page may give up waiting while the API
goes on. `CitizenSite`: `tab`, `order`, `check` (the public API's createPayment in
steps), `srch`; `calls` are the status requests of pages, the gateway's reports and
the office's requeries between their read and their write, which is where an older
status is written over a newer one; `Followed` tabs poll on the return page. One
report and one requery are under way at a time, beside a status request per tab.
`Screens` has one list screen whose record of traits says what each of the portal's
lists does differently (own pager, debounce, preset filter, kept list).
`FloorsEditor` has the form's rows, the draft, the row under edit and the PATCHes
under way. `ClosingPage` has the two chosen years, the preview on display, and the
calls under way. `Figures` has the tables at each moment of a summary request, and
the answers the page keeps.

## 3. Runs

No run checks for deadlock: with everything paid or the bounds used up the
system rests.

| Run | Instance | Shows |
|---|---|---|
| `online` | 1 demand, 1 payment, 2 requests, total 2, refunds of 1 and 2, failed and unknown reports, 1 publish | `TypeOK`, `SettledMoneyReceived`, `SettledHasReceipt`, `SuccessIsCredited`, `RefundBacked` hold in 1.7 million states |
| `counter` | 1 demand, 2 payments, 2 requests, 1 key, collections of 1 and 2, 2 publishes | `BalanceConsistent`, `KeyCollectsOnce`, `LedgerComplete`, `OfflineWithinDues` hold in 2.1 million states |
| `closing` | 2 surveys, 2 years, 2 tasks, 2 publishes, payments | `TypeOK`, `ArrearsByCommittedRun`, `CarriedOnce`, `PreviewIsCarried`, `PublishedStays` hold in 0.57 million states |
| `sessions` | 1 user, 2 calls, 1 retry each, 2 sessions, 1 rotation, 3 reset links, 1 fault; and 3 sign-in attempts with a limit of 3 | `RevokedIsForgotten`, `CookieIsCurrent`, `MutationOnce`, `GuessesBounded`, `EveryCallAnswered`, `CurrentIsKept` hold in 0.99 million states |
| `surveys` | 5 rows, 2 wards, 2 numbers, 4 workbooks (update, skip, create, a repeated row), 2 processes, 1 crash or throw, or 2 operators | `IdCarriesNumber`, `FileIsTheWard`, `PruneSparesTheFile`, `StartedJobEnds` hold and `Registry` is implemented, in 0.44 million states |
| `office` | the parts of `MCOffice`, below | fifteen properties hold in 0.99 million states |
| `double_credit` | 1 payment, 2 requests | `CreditedOnce` is violated: requery and callback credit the same payment |
| `success_lost` | the same | `SuccessKept` is violated: a stale status is written over SUCCESS |
| `over_refund` | the same, refunds | `RefundsWithinAmount` is violated: two refunds spend one balance |
| `republish` | 1 payment, 2 publishes | `PaidNeverDrops` is violated: a publish writes a sum older than a collection |
| `arrears_dropped` | 1 survey, 2 years, 2 tasks | `WardKeepsArrears` is violated: a ward publish writes arrears older than a closing |
| `carry_limit` | 2 surveys, preview of 1 | `UnpaidIsCarried` is violated: what the preview leaves out is never carried |

Bounds. Every race in this code is between two requests that read the same row,
so two request slots (reused any number of times) show each of them; the second
payment of `counter` gives two collectors of one demand. A total of 2 with
amounts of 1 and 2 tells part payment, full payment and over-payment apart.
`MaxReturned` is one above the total, so that over-refunding is reachable;
`MaxPublish` of 2 gives a publish before and one during a collection. In
`YearEnd` two years close into each other in both directions and two surveys let
a closing stop half-way. Payments, requests, surveys, years and tasks are
interchangeable, hence the symmetry sets. The theorems have none of these bounds.

In `sessions` two calls with a retry each give up to four executions of the API
beside each other, which is what a lost answer, a revocation and a cache fill need;
the time limits of 2 let a session become idle, expire and be rotated. In `surveys`
the workbooks hold an invalid row, a repeated row, a placeholder id and a deleted
survey; the prune floor of 1 makes both sides of the cap reachable; requests and
crashes are combined as `Spent` says (two requests, one request beside a start, or
two starts and a crash), because operators racing operators and executions racing
executions are different questions.

`MCOffice` is a sum: a behaviour chooses one `part` at first, the others stand
still in one initial state of theirs. The parts share no state within a step (what
they share in the program, the demand row for instance, is in `Payments` and
`YearEnd`), so a product would only multiply. The parts and their bounds:

| Part | Instance | Property |
|---|---|---|
| rates | 2 wards, 2 values, 1 workspace, 2 requests, 1 edit | `RatesAreVersioned`, `BilledAsShown` |
| reference | 2 years, 1 rule, 2 days, 2 clerks, 2 requests | `YearsDisjoint` |
| desk | 1 parcel owing 2, 2 requests, 2 submissions, 1 late answer | `PassCollectsOnce` |
| site, return, search | 2 tabs, 2 orders, requeries of the first; 1 tab followed to the return page, reports, requeries, 1 failure; 3 searches of 2 terms | `NoOpenOrderPassedBy`, `SuccessShownIsPaid`, `ConfirmingEnds`, `ResultsAnswerQuery` |
| screens, figures | lists of 2 pages, 2 texts, 2 filters; 2 wards, 2 surveys, 1 payment, 2 writes, 1 request over 2 moments | `ScreensAgree` |
| access | 2 grants, 2 admins, 2 saves, 1 death | `AccessIsAsSaved` |
| bill, pay | all surveys of up to 2 floors over 4 use classes, 2 rate tables, 2 books of rules; 2 receipts | `PapersAgree` |
| gateway | charges with and without paise, 3 refunds | `BooksAgree` |
| floors | 2 storeys, 2 rows, 2 changes, 2 submits | `FloorsAsMeant` |
| closing | 2 years, 3 previews, 2 commits | `CommitsWhatIsShown` |

Two actors and two requests at a time show each race of a read with a write; one
more of each change or submission than the race needs lets it happen again after
the first is over. Part `return` starts from an open checkout, the state the
`site` part reaches, and orders no more, so that the liveness graph stays small:
requeries are in both parts (in `site` of the first order only), reports and failures
in `return` only; the theorems are
about `SiteSpec`, which has all of them together. In `desk` the receipt of another
confirmation is one of another amount; in `bill` and `pay` notices are printed before
payments only. Other properties, and notices between payments, are in the theorems
`OncePerPass` and `PapersStayAgreed`. `Figures` lets one
request see two moments: every pair of queries then disagrees in every way one
write allows.

### Fairness and liveness

- `EveryCallAnswered`: weak fairness of `Timeout` and `Answer` of each call: the
  proxy's timer fires and its answer is delivered. Nothing is assumed of the API.
- `StartedJobEnds`: weak fairness of `Process(e)`, the steps of a running worker,
  and of an open job page's polling. A job whose executor died is given out again
  by the queue (`Take`), once; a lost job is the exception the property names.
- `ConfirmingEnds`: weak fairness of a followed tab's `Poll` (`refetchInterval`) and
  of the answer to it (`Finish` of the call it awaits; the API answers or the request
  fails). The gateway's reports are not fair: the property holds though none arrives,
  and though other calls write the older status back in between.

### Exceptions the properties name

Some properties hold only with an exception that the code has and that the run
reaches; each is stated in the property's comment.

- `RatesAreVersioned`, `YearsDisjoint`, `BilledAsShown`, `AccessIsAsSaved`: requests
  that overlapped between a check and its write, or that died between two writes.
- `NoOpenOrderPassedBy`: an order inserted, or opened again by a status read before it
  failed, after the check of the younger one.
- `RevokedIsForgotten`, `CookieIsCurrent`: sessions at which executions overlapped,
  broke off or crashed, and for the cookie answers lost, late or given to a page
  render. What is left is the order of writes of an undisturbed session.
- `StartedJobEnds`: jobs lost by a start that died before it queued them, an execution
  that threw, or the last delivery's death.
- `CurrentIsKept`: "sign out others" also ends the current session when the guard
  rotated its token on the way (`auth.controller.ts:194` looks it up by the old
  one).
- `PassCollectsOnce`: after an unanswered but recorded submission, another property
  or amount confirmed under the same key gets the old receipt.
- `ResultsAnswerQuery`: the answer of a search under way at a Reset.
- `ScreensAgree`: rows that went, Next on the list kept from the search before, and
  the ledger's default year, set behind a page already chosen. That default also
  makes "All years" unreachable there.
- `FloorsAsMeant`: removing the last floor is not sent, so it comes back; nor is
  a total of 0, so the old area stays; a PATCH
  given up on may be applied after a later one; an edit aimed at a row whose
  identity has moved changes another row or none.
- `CommitsWhatIsShown`: a preview answered after the years were changed.
- `BooksAgree`: a refund is asked for in whole rupees though its row has paise, and a
  refund whose answer was lost has no row. Payments of another amount than the order's
  are not explored.
- `PapersAgree`: a republish between part payments moves what was attributed to a
  head; an overpaying late checkout puts the excess on one.

The six violated properties each quote a sentence of the repository; the traces
need an overlap of two requests (or, for `carry_limit`, more unpaid demands than
the preview's 5000) and are described under "findings" in `PROJECT.json`.

## 4. Proofs

Every theorem is about the specification the runs check, for every value of its
constants: any sets of demands, wards, clerks or requests and any bound on them.
A proof has one lemma per action or kind of action; the last steps combine
`Init => Inv`, `Inv /\ [Next]_vars => Inv'` and `Inv => P`.

| Module | Theorem | What it states |
|---|---|---|
| `PaymentsProofs` | `Invariance` | the inductive invariant |
| | `TypeCorrect`, `BalancesConsistent`, `NoReceiptWithoutMoney`, `ReceiptForSettled`, `SuccessCredited`, `KeysCollectOnce`, `RefundsBacked` | `TypeOK`, `BalanceConsistent`, `SettledMoneyReceived`, `SettledHasReceipt`, `SuccessIsCredited`, `KeyCollectsOnce`, `RefundBacked` |
| | `NoCreditLost` | `LedgerComplete`: what a demand was credited with since its last publish is in its amount paid |
| | `CollectionsFit` | the action property `OfflineWithinDues` |
| | `OnceUnlessOverlapping`, `KeptUnlessOverlapping`, `RefundsFitUnlessOverlapping`, `PaidGrowsUnlessOverlapping` | `CreditedOnce`, `SuccessKept`, `RefundsWithinAmount`, `PaidNeverDrops`, each where its requests do not overlap |
| `YearEndProofs` | `Invariance`, `TypeCorrect`, `ArrearsCommitted` | the invariant, `TypeOK`, `ArrearsByCommittedRun` |
| | `CarriesOnce`, `PreviewCarried`, `StaysPublished` | the action properties `CarriedOnce`, `PreviewIsCarried`, `PublishedStays` |
| | `ArrearsKeptUnlessOverlapping`, `CarriedUnlessMoving` | `WardKeepsArrears`, `UnpaidIsCarried`, where nothing overlaps and the preview has room |
| | `SumsStand` | demands add up where no row moves under a closing's hands |
| `SurveysProofs` | `RegistryInvariance`, `NumbersAgree` | the invariant, `IdCarriesNumber` |
| | `RegistryRefined` | `RegistryImplemented`: `Surveys` implements `Registry` |
| | `FileIsSpared`, `FileBecomesWard` | the action properties `PruneSparesTheFile`, `FileIsTheWard` |
| `SessionsProofs` | `GuessesStayBounded` | `GuessesBounded` |
| | `SessionsTyped`, `MutatedOnce` | the types, `MutationOnce` |
| | `ForgottenWhenRevoked`, `CookieStaysCurrent` | `RevokedIsForgotten`, `CookieIsCurrent` |
| | `CurrentSurvives` | the action property `CurrentIsKept` |
| `TaxProofs` | `ReferenceInvariance`, `DayHasOneYear` | the invariant, `YearsDisjoint` |
| | `RatesInvariance`, `VersionsTell`, `BillsAsShown` | the invariant, `RatesAreVersioned`, the action property `BilledAsShown` |
| | `AssessInvariance`, `PapersStayAgreed` | the invariant, `PapersAgree` |
| | `ReferenceTyped`, `RatesTyped` | the types of years, rules, rates |
| `OfficeProofs` | `DeskInvariance`, `OncePerPass` | the invariant, `PassCollectsOnce` |
| | `CommitsAsShown`, `GrantsAsSaved` | `CommitsWhatIsShown`, `AccessIsAsSaved` |
| | `PagesExist`, `DashboardAddsUp` | the halves of `ScreensAgree` about lists and about the dashboard |
| | `FloorsInvariance`, `FloorsStayAsMeant` | the invariant, `FloorsAsMeant` |
| | `ScreensStayAgreed`, `OfficeTyped`, `OfficeHolds` | `ScreensAgree`, `OfficeTypeOK` and all the office run's other invariants and action properties, of the very specification it checks |
| `SiteProofs` | `BooksStayEven`, `ResultsAreOurs`, `NoneIsPassedBy`, `ShownSuccessIsPaid` | `BooksAgree`, `ResultsAnswerQuery`, `NoOpenOrderPassedBy`, `SuccessShownIsPaid` |
| | `GatewayTyped`, `SiteTyped` | the types of the gateway's books and the citizen's browser |

### The arguments

No property below is inductive as it stands. In each module the reason is the
same, a request writes by what it read some steps ago, and the invariant says how
much of what it read still holds.

*Payments.* `SawOK`: the remembered row has the same demand and amount as the one in
the table, and what was settled or had a snapshot when it was read still has its
receipt and snapshot, although the status may have moved anywhere. `RequestOK` adds,
per kind of request, that a success report in hand means money at the gateway, and
that a refund's remembered balance plus its own amount is covered by the refund
rows. `GatewayOK` and `LinkedOK` tie payments to the gateway and to published
demands, `SoleCheckout` says no two requests wait for one token. Four lemmas do most
of the work: `RequestStep` (only a request moves), `RowStep` (a payment row is
rewritten), `FreshRow` (one is created) and `RequestsKept` (the gateway or the
refund table moves). `NoCreditLost` puts `Ledger` on top: what a demand counts as
paid is at least the sum of the weights of its payments, where only what was
credited since the last publish weighs anything. What a publish itself may have
missed is in run `republish` and in `PaidGrowsUnlessOverlapping`. `FiniteSums`
states what `MapThenSumSet` computes for every finite set, by an induction over the
subsets of the set (`SubsetInduction`, from the well-foundedness of the strict
subset ordering): the sum changes with one summand by the difference, and is the
same for functions that agree.

*Year end.* A closing decides what to skip and what to write long before it
commits. `TaskOK`: every survey of its preview is still to do, at hand, written,
or has been carried by somebody already; a demand it is about to create is still
absent. `Exclusive`: no two closings into one year have written the same survey's
row, because written rows are locked.

*Surveys.* Rows are never taken away. So a row that a request, a repair or an import
once read is still there when it writes to it (`ReqOK`, `ExecOK`); with unique ids
and `IdCarriesNumber` each write is then `Move`, `Revive`, a change of the fields,
or none, of `Registry`; and what is pruned was counted against the cap, which is
monotone. The cap of `Registry` is that of all rows, which the assumption on
`PruneFloor` makes positive. `FileIsSpared` follows a calm execution of a plain file
(`OwnIds`: a row's Survey Id is of its own parcel; `OneUse`: a parcel has one use
letter) through `CalmOK`: for every row it is through with there is a row of the
table that it touched and that is live under the file's id (`Covered`); what its
lookup found is still what the table has, or has become what another execution of
the same job makes of it (`LookupHolds`); what it is about to prune was not touched
(`Surplus`). A write by another execution of the job rewrites a row to what the file
says and so keeps all three (`RewriteStands`), and a prune takes only rows under no
id of the file (`PruneStands`). Both conditions on the file are needed: where a file
gives one parcel under two use letters, TLC finds one of its rows pruned by the
second execution. `FileBecomesWard` follows an execution that is alone, for which
more holds (`QuietOK`): its lookup is what the table has (`Looked`); each row it is
through with, but for those a later row gave again, is stored with the file's values
(`Landed`); of the rows to come, the preview's new ones and no others are absent
(`Foreseen`); what it listed for pruning is all there is to prune, or too much
(`Reconciled`). The recursive function of `Repeated` is characterised without
induction over the file: of the good rows with one number the first is no
repetition, by the least element of a set of numbers (`RepeatedIs`). TLC checked
`CalmOK` and `QuietOK` as invariants over a wider instance, with two wards and two
use letters in one file, before they were proved.

*Login throttle.* Guesses are counted where the attempts are: every guess has been
counted, is about to be, or was cut off (`GuessesCounted`); while nothing is
locked those beyond the limit belong to attempts about to be counted or to lock
(`UnlockedGuesses`); and an attempt past the lock check has room for its guess
(`RoomForVerifying`). The cardinalities are related by adding and removing one
attempt at a time.

*Sessions.* A call that is not a read has one execution, that execution is at the
call's operation, and before its handler it has had no effect (`CallSound`,
`Early`). The three properties that except disturbed sessions rest on what the
exception buys. `StoreInv`: an undisturbed session is used by one execution at
most (`OneUser`), and what that execution knows of row and cache at each step
still holds (`Fits`); the cache has the entry of the current token or nothing
(`Even`), except while a guard is between rotating the row and deleting the old
token (`rotDel`). A revocation that listed the session has its entry to delete
(`RevokerKnows`); a guard that did not rotate finds the session a second time
(`FindsAgain`, for `CurrentIsKept`). Executions that start or end are the
delicate steps: `JoinStep` shows that a newcomer either disturbs the session or
finds it with nobody at it, `LeaveStep` that one cut off disturbs what it leaves
half done. `CookieInv` follows a rotated token to the browser: no token is ahead of
its row; the new token of an undisturbed session is with the execution that made
it and nowhere else (`SoleBearer`), so nobody can rotate once more; and that
execution is waited for, or its session is disturbed (`WaitedFor`). TLC checked
`StoreInv` and `CookieInv` as invariants, on instances like `sessions` and with
two rotations and three calls, before they were proved.

*Years.* As long as no two requests on years overlapped, one at most is under way,
and what its check found holds until it writes (`CheckStands`).

*Rates.* A ward that no two requests shared and where none died has one request at
most, and nothing moves under what it has read. `Holds` says what that request has
established step by step: the cells, then the percentages are those it was sent;
the version row says the same before the configuration is marked; what is billed
is what was read. Outside the steps from the first write to the mark the version
tells the configuration (`VersionTells`, `Changing`). `Backed`, which needs no such
quiet, says that a version about to be marked exists, whoever overlaps.
`BillsAsShown` adds that only the request at `BillWrite` moves on from there and
writes a bill.

*Counter.* A pass through the wizard has one key, made for its first submission;
what is known of a key is known of a pass (`KeysOfPasses`), the unique key makes a
pass collect once, and `PageKnows` ties the receipt on the page to the pass.
*Year-end page.* What is shown is of the chosen years or is marked late, and a pair
known to be committed stays so. *Lists.* While nothing has gone astray, the page
asked for and those linked to exist. *Roles and users.* A save between its two
statements has the rows to itself or they are spoiled; a user made inactive who
still has a session is in the hands of a request that will end it.

*Gateway.* `RefundsAdded`: the refundable balance and the refund rows add up to the
amount, and what the gateway gave is within 99 paise per row of the rows and the
unheard answers; `OrderIsOurs` and `SettledIsPaid`: it was asked for our amount and
a status read as success is about a paid order. *Citizen site.* A request between
its check and its insert has met every order that came to be open since, inserted or
opened again, so that the one it inserts carries them in `with`; a status written
back adds to it (`OrdersInv`). An order's status is `SUCCESS`, a call in hand tells
of a success, or a page shows one, only if the gateway has the money; and where a
call has read `SUCCESS` or a page shows it, nothing is owed any more, which no step
undoes (`MoneyInv`). A search under way is the awaited one or was cut off by a Reset
(`SearchInv`).

*Dashboard.* A summary's queries each see the tables at one of the moments since
the request was sent. With one moment there is one table, and its wards, states and
modes are partitions of what is counted, so the parts add up (`CountByParts` of
`FiniteSums`, an induction over the wards); with more, a write has overlapped, the
property's exception.

*Floors.* The form's text read back is the floors meant, and the ids of the row
under edit and the row to be deleted carry the place that was pressed (`RowsKept`);
a PATCH that is answered is what the survey holds (`SavedKept`). The taxed area is
the sum of the floors of the same value wherever one is kept: in the form, its base,
the loaded and the stored survey, and every PATCH that may yet be applied
(`AreasAddUp`). What may make these differ is recorded in `odd`, the exceptions.

*Papers.* `AssessInv`: the account was billed under some published table and book,
the notice was printed under such a table, and as long as nothing has moved the
receipts run on from each other, each starting where the last one ended. Preview,
bill, notice, dues page, dashboard and report then compute the same from the same
survey. What the allocation pours into a head telescopes: for one due, the share of
a later payment is what the head has got by its end less what it had got at its
start (`PourMore`), and never more than it owed (`PourIs`).

*Types.* They are not conjuncts of the invariants above where the code counts:
versions count from 1 and a request about to write one is ahead of the history; a
search is numbered; what the gateway gives back stays within what it was asked.

*Parts together.* `MCOffice` moves one part and leaves the others still, so a step
is a step or a stutter of every part, and a theorem about a part's specification is
one about the sum (`OfficeHolds`). The `return` part starts in a browser with an
open order; that its invariant holds there is proved from `MCInit`.

*Overlaps.* Six runs show what requests that overlap can do. The theorems named
after them are implications, `Spec /\ []Alone => []Property`: where the requests
named do not overlap, the property holds of every behaviour. Each follows from an
invariant of what a request under way remembers: a report knows of a success and a
snapshot (`ReportKnows`), a refund remembers the balance as it is, and rows and
balance add up but for the refund between its two writes (`RefundInv`), a publish
will write no less than the demand counts and no more than was paid
(`PublishKnows`), or the arrears that are there (`WardKnows`), a closing holds what
is unpaid (`ClosesWith`), and the sums it has written go with a row that is locked
(`SumsKnown`). The hypotheses are what a lock on the row, or a transaction around
the read and the write, would guarantee; they exclude those overlaps, and nothing
else: other requests, failures and repetitions stay. What each takes:

| Theorem | Hypotheses |
|---|---|
| `OnceUnlessOverlapping`, `KeptUnlessOverlapping` | one callback or requery of a payment at a time |
| `RefundsFitUnlessOverlapping` | one refund of a payment at a time, and none cut off between its row and the payment's balance |
| `PaidGrowsUnlessOverlapping` | the first, no refunds, and no credit, collection or second publish of a demand between a publish's reads and its write |
| `ArrearsKeptUnlessOverlapping` | no second publish of the row and no closing into its year while a ward publish has it in hand |
| `CarriedUnlessMoving` | a preview with room for every survey; no demand of a year moves while that year is closed |
| `SumsStand` | no row moves between a closing's read of it and the write of its sums |

### Assumptions

All are named `ASSUME`s of the module that declares the constants, and TLC
evaluates them in the runs.

- Amounts, limits and bounds are natural numbers, limits positive where the code
  has them so. Values that mean "none" or "all" (`NoKey`, `All`, `Blank`) are not
  among the others; decline codes are codes. Sets from which something is chosen
  (demands, wards, workspaces, years, rules, values, days, parcels) are not empty.
- `IsFiniteSet` of `Payments`, `Years`, `Logins`, `Rows` and `Calls`: their sums and
  cardinalities are taken, and a table, or the calls in flight, are finite.
- `SurveyConstants`: workbooks are finite sequences of rows with the columns the
  import reads, a job's strategy is one of the three, and the prune floor is
  positive (10 in `import-reconcile.ts:37`).
  `LegacyConstants`: the survey table starts with rows whose ids are unique, as
  the database's key demands, and carry their number.

- `FigureConstants`: wards, surveys and payments are finite; the mark for all wards
  is none of them.
- `FloorsAssumption`, `RecordsAssumption`: what the clerk types is a floor's fields,
  and a survey starts with a built-up area that is the sum of its floors and with a
  use that agrees with them.
- `AssessmentAssumption`: rates, percentages and values of rules are natural numbers
  (`@Min(0)` in their DTOs), a book of rules is finite, and so are a survey's areas:
  `survey.dto.ts` has no `@Min` for them, and negative areas are not among the states
  modelled.
- `SomeOrder`: the instance of the return page has an order to return from.

### Only model-checked

- Liveness: `StartedJobEnds`, `EveryCallAnswered`, `ConfirmingEnds`; fairness and
  ENABLED are out of the prover's reach.
- The six violated properties are false as they stand; what is proved of them is
  above.

## 5. Plan

What this plan had is done: every invariant and action property of the passing runs
is a theorem. What is left:

1. Liveness stays with TLC.
2. The order of a ward's surveys in a publish, and rebates and penalties of a carried
   demand, are abstract in `YearEnd`; a composition with `Assessment` would make
   them concrete.
3. Settlements and the spreadsheet export, if they come to decide anything.

## 6. Not modelled

- Ciphers, signatures and field layouts of the gateway's messages, PDF and
  spreadsheet layout and parsing, number words, masking: formatting. Binary
  fractions: `roundMoney` is exact here.
- Settlements (rows nothing reads back), the audit log's rows, file storage and
  attachments, health, configuration and HTTP middleware.
- What the code does that no property is about, met while modelling: a year's
  deletion leaves its published rules without a year, that is, for every year
  (`reference.service.ts:236`); an edit that found a rule a draft changes it after its
  publication (`tax-adjustments.service.ts:89`; a property that excepts the edit under
  way would only repeat its test); an import compares only the audited fields, so a
  row that differs in others counts as a success and is not written
  (`imports.service.ts:650`); two parcels whose old ids coincide are one row to an
  import (`imports.service.ts:939`); a survey created under a deleted one's id is
  refused; a copy from a draft raises the version of wards already published
  without billing them; a debounced cell edit is saved to the ward on display when
  it fires; the status request names the payment's day while the order names the
  day it was sent, so an order across midnight is not found; every refund of a
  payment has the same `prodRefundId`; a form of a user or role opened before the
  roles arrive saves none; the audit log's search looks at the latest hundred rows.
- Coarser than the code: the workspace of the rates shows a ward's cached
  configuration while it loads, here nothing (`SelectWard`); a year with
  payments but neither a configuration nor a demand is not explored (the check refuses
  to delete it, the foreign key would let it go); a payment in `CitizenSite` is neither
  refunded nor credited twice (both in `Payments`).
- The dashboard's pending sums, quality counts and photographs; the create page of
  a survey (the edit page is modelled); single-row writes of users, roles and
  surveys' side tables.

`PROJECT.json` lists every component with its status, every hazard with the
properties that cover it, and every definition with the lines it models.
