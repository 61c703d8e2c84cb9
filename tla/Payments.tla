------------------------------ MODULE Payments ------------------------------
(***************************************************************************)
(* Property-tax payments of the API (apps/api/src/payments and the citizen *)
(* entry point in apps/api/src/public-property-tax): the `payment`,        *)
(* `payment_callback`, `payment_refund` and `property_demand` tables, and  *)
(* the HTTP requests that change them.                                     *)
(*                                                                         *)
(* A request is a small state machine.  Every `await` of the code is a     *)
(* point where other requests may run, so a request first READS rows,      *)
(* remembers what it saw (`saw`), and later WRITES by what it remembers.   *)
(* A Prisma $transaction takes the demand row FOR UPDATE before it reads   *)
(* anything it depends on, so one transaction is one action.               *)
(*                                                                         *)
(* Money is counted in whole units.  The gateway (Atom NDPS) is external:  *)
(* it is truthful, it may report an order any number of times and in any   *)
(* order, and it never reports success before the customer has paid.       *)
(***************************************************************************)
EXTENDS Integers, FiniteSets, FiniteSetsExt

CONSTANTS
    Demands,       \* (survey, assessment year) pairs: at most one demand row each
    Payments,      \* ids available for payment rows
    Requests,      \* slots for requests in flight
    Keys,          \* client idempotency keys of offline collections
    NoKey,         \* an offline collection without a key
    Totals,        \* what an assessment may compute as totalPayable
    OfflineAmounts,\* what a cashier may key in
    RefundAmounts, \* what an accountant may key in
    DeclineCodes,  \* which unsuccessful status codes the gateway reports
    MaxPublish,    \* bound: how often a demand is published
    MaxReturned    \* bound: how much the gateway gives back for one payment

ASSUME DemandsAssumption  == Demands # {}
ASSUME PaymentsAssumption == IsFiniteSet(Payments)
ASSUME KeyAssumption      == NoKey \notin Keys
ASSUME AmountsAssumption  == /\ Totals \subseteq Nat
                             /\ OfflineAmounts \subseteq Nat
                             /\ RefundAmounts \subseteq Nat
ASSUME CodesAssumption    == DeclineCodes \subseteq {"FAIL", "UNKNOWN"}

VARIABLES
    demand,    \* property_demand rows
    pay,       \* payment rows
    seen,      \* seen[p]: a processed payment_callback row exists for p's merchTxnId
    recent,    \* payments created inside CITIZEN_PAYMENT_IN_PROGRESS_WINDOW_MS
    refunds,   \* refunds[p]: sum of p's payment_refund rows with status SUCCESS
    published, \* number of publishes so far (only to bound them)
    gw,        \* the gateway's own record of each order
    sent,      \* sent[p]: status codes the gateway has reported for p
    returned,  \* returned[p]: money the gateway has given back
    credits,   \* history: times p was added to its demand since its last publish
    req        \* requests in flight

dbVars == <<demand, pay, seen, recent, refunds, published>>
gwVars == <<gw, sent, returned>>
vars   == <<dbVars, gwVars, credits, req>>

-----------------------------------------------------------------------------
(* Rows *)

DemandRow == [status: {"ABSENT", "PUBLISHED"}, total: Nat, paid: Nat, outstanding: Nat]

PaymentStatus ==
    {"NONE", "INITIATED", "PENDING", "SUCCESS", "FAILED", "REFUNDED", "PARTIALLY_REFUNDED"}

(* "NONE" is an id no row uses yet.  dem is the (survey, year) paid for    *)
(* and linked says whether propertyDemandId holds that demand's id.        *)
(* atomTxn, receipt and snapshot say whether atomTxnId, receiptNumber and  *)
(* receiptSnapshot are set; their text is a function of the row.           *)
PaymentRow ==
    [status: PaymentStatus, mode: {"ONLINE", "OFFLINE"}, dem: Demands, amount: Nat,
     refundable: Nat, linked: BOOLEAN, atomTxn: BOOLEAN, receipt: BOOLEAN, snapshot: BOOLEAN,
     key: Keys \cup {NoKey}]

Codes == {"OK", "FAIL", "UNKNOWN"}

Request ==
    [op: {"idle"}]
    \cup [op: {"online"}, dem: Demands, amount: Nat, linked: BOOLEAN]
    \cup [op: {"gateway"}, pay: Payments]
    \cup [op: {"callback"}, pay: Payments, code: Codes, saw: PaymentRow, known: BOOLEAN]
    \cup [op: {"requery"}, pay: Payments, saw: PaymentRow]
    \cup [op: {"refund", "refundRecord", "refundApply"}, pay: Payments, saw: PaymentRow,
          amount: Nat]
    \cup [op: {"offline"}, dem: Demands, amount: Nat, key: Keys \cup {NoKey}]
    \cup [op: {"publish"}, dem: Demands, existed: BOOLEAN, total: Nat, paid: Nat]

Settled == {"SUCCESS", "REFUNDED", "PARTIALLY_REFUNDED"}
Open    == {"INITIATED", "PENDING"}

Idle(r) == req[r] = [op |-> "idle"]
Begin(r, q) == Idle(r) /\ req' = [req EXCEPT ![r] = q]
Become(r, q) == req' = [req EXCEPT ![r] = q]
Done(r) == req' = [req EXCEPT ![r] = [op |-> "idle"]]
Exists(p) == pay[p].status # "NONE"

Init ==
    /\ demand = [d \in Demands |->
                    [status |-> "ABSENT", total |-> 0, paid |-> 0, outstanding |-> 0]]
    /\ pay = [p \in Payments |->
                [status |-> "NONE", mode |-> "ONLINE", dem |-> CHOOSE d \in Demands : TRUE,
                 amount |-> 0, refundable |-> 0, linked |-> FALSE, atomTxn |-> FALSE, receipt |-> FALSE,
                 snapshot |-> FALSE, key |-> NoKey]]
    /\ seen = [p \in Payments |-> FALSE]
    /\ recent = {}
    /\ refunds = [p \in Payments |-> 0]
    /\ published = 0
    /\ gw = [p \in Payments |-> "none"]
    /\ sent = [p \in Payments |-> {}]
    /\ returned = [p \in Payments |-> 0]
    /\ credits = [p \in Payments |-> 0]
    /\ req = [r \in Requests |-> [op |-> "idle"]]

-----------------------------------------------------------------------------
(* What is due, and the demand's balance *)

Outstanding(total, paid) == IF paid >= total THEN 0 ELSE total - paid

(* Mutation: amountPaid moves, outstanding is left as it was. *)
MutAfterPaymentKeepsOutstanding(row, amount) == [row EXCEPT !.paid = row.paid + amount]

(* Mutation: what was paid before is forgotten. *)
MutAfterPaymentForgets(row, amount) ==
    [row EXCEPT !.paid = amount, !.outstanding = Outstanding(row.total, amount)]

(* computeOutstandingAfterPayment: the demand row after `amount` more is paid. *)
AfterPayment(row, amount) ==
    [row EXCEPT !.paid = row.paid + amount,
                !.outstanding = Outstanding(row.total, row.paid + amount)]

(* applyOnlineSuccessToDemand finds the payment's demand by id or by       *)
(* (survey, year), locks it, and does nothing unless it is PUBLISHED.      *)
Creditable(row) == demand[row.dem].status = "PUBLISHED"

(* Mutation: only a PENDING payment counts as succeeding for the first time. *)
MutFirstSuccessPending(saw) == saw.status = "PENDING" /\ ~saw.snapshot

(* firstSuccess, decided from the row the request read before its          *)
(* transaction began.                                                      *)
FirstSuccess(saw) == saw.status # "SUCCESS" /\ ~saw.snapshot

(* Mutation: the receipt number comes with the demand's credit only. *)
MutReceiptWithCredit(row, credit) ==
    [row EXCEPT !.status = "SUCCESS", !.atomTxn = TRUE, !.receipt = @ \/ credit,
                !.snapshot = @ \/ credit, !.linked = @ \/ credit]

(* The payment row after a gateway success: status, atomTxnId, receipt     *)
(* number and - when the demand is credited - snapshot and demand id.      *)
SucceededRow(row, credit) ==
    [row EXCEPT !.status = "SUCCESS", !.atomTxn = TRUE, !.receipt = TRUE,
                !.snapshot = @ \/ credit, !.linked = @ \/ credit]

(* A committed gateway success: the payment row and, on the first success  *)
(* with a published demand, the demand's balance.                          *)
RecordSuccess(p, saw) ==
    LET credit == FirstSuccess(saw) /\ Creditable(saw)
    IN  /\ pay' = [pay EXCEPT ![p] = SucceededRow(@, credit)]
        /\ demand' = IF credit
                       THEN [demand EXCEPT ![saw.dem] = AfterPayment(@, saw.amount)]
                       ELSE demand
        /\ credits' = IF credit THEN [credits EXCEPT ![p] = @ + 1] ELSE credits

(* A write of a status decided from the row read earlier; `atomTxnId ??    *)
(* payment.atomTxnId` takes the id of the unsuccessful answer, if it has   *)
(* one, or writes the remembered id back.                                  *)
WriteBack(p, saw, status) ==
    /\ \E atomTxn \in {saw.atomTxn, TRUE} :
         pay' = [pay EXCEPT ![p] = [@ EXCEPT !.status = status, !.atomTxn = atomTxn]]
    /\ UNCHANGED <<demand, credits>>

-----------------------------------------------------------------------------
(* Online payments: creation *)

(* What is asked of the payer: the published demand's outstanding amount,  *)
(* or the recomputed assessment when no demand is published yet.           *)
Payable(d) ==
    IF demand[d].status = "PUBLISHED"
    THEN {demand[d].outstanding} \ {0}
    ELSE Totals \ {0}

AskFor(r, d) ==
    \E a \in Payable(d) :
        Begin(r, [op |-> "online", dem |-> d, amount |-> a,
                  linked |-> demand[d].status = "PUBLISHED"])

(* createOnline (staff): resolveSurveyPayableAmount. *)
StaffOnline(r, d) ==
    /\ AskFor(r, d)
    /\ UNCHANGED <<dbVars, gwVars, credits>>

(* isAlreadyPaidForYear without a published demand: some SUCCESS payment. *)
PaidForYear(d) ==
    /\ demand[d].status # "PUBLISHED"
    /\ \E p \in Payments : pay[p].status = "SUCCESS" /\ pay[p].dem = d

(* hasRecentOpenCitizenPayment *)
PaymentInProgress(d) ==
    \E p \in recent : /\ pay[p].status \in Open
                      /\ pay[p].mode = "ONLINE"
                      /\ pay[p].dem = d

(* createPayment of the citizen site: dues, paid-for-year, open checkout.  *)
CitizenOnline(r, d) ==
    /\ ~PaidForYear(d)
    /\ ~PaymentInProgress(d)
    /\ AskFor(r, d)
    /\ UNCHANGED <<dbVars, gwVars, credits>>

(* createOnlinePayment, up to the call of the provider. *)
CreatePayment(r, p) ==
    /\ req[r].op = "online"
    /\ ~Exists(p)
    /\ pay' = [pay EXCEPT ![p] =
                 [status |-> "INITIATED", mode |-> "ONLINE", dem |-> req[r].dem,
                  amount |-> req[r].amount, refundable |-> req[r].amount,
                  linked |-> req[r].linked, atomTxn |-> FALSE, receipt |-> FALSE, snapshot |-> FALSE, key |-> NoKey]]
    /\ recent' = recent \cup {p}
    /\ Become(r, [op |-> "gateway", pay |-> p])
    /\ UNCHANGED <<demand, seen, refunds, published, gwVars, credits>>

(* The provider throws or issues no token: the payment is FAILED. *)
CheckoutRefused(r) ==
    /\ req[r].op = "gateway"
    /\ pay' = [pay EXCEPT ![req[r].pay] = [@ EXCEPT !.status = "FAILED"]]
    /\ Done(r)
    /\ UNCHANGED <<demand, seen, recent, refunds, published, gwVars, credits>>

(* The provider issues a token.  The payer gets it with the response, so   *)
(* the order is open for payment from here on.                             *)
CheckoutIssued(r) ==
    /\ req[r].op = "gateway"
    /\ pay' = [pay EXCEPT ![req[r].pay] = [@ EXCEPT !.status = "PENDING"]]
    /\ gw' = [gw EXCEPT ![req[r].pay] = "open"]
    /\ Done(r)
    /\ UNCHANGED <<demand, seen, recent, refunds, published, sent, returned, credits>>

(* Fifteen minutes pass. *)
WindowExpires(p) ==
    /\ p \in recent
    /\ recent' = recent \ {p}
    /\ UNCHANGED <<demand, pay, seen, refunds, published, gwVars, credits, req>>

-----------------------------------------------------------------------------
(* The gateway *)

GatewayPaid(p) ==
    /\ gw[p] = "open"
    /\ gw' = [gw EXCEPT ![p] = "paid"]
    /\ sent' = [sent EXCEPT ![p] = @ \cup {"OK"}]
    /\ UNCHANGED <<dbVars, returned, credits, req>>

(* An attempt fails, or is reported without a status code. *)
GatewayDeclined(p, code) ==
    /\ gw[p] = "open"
    /\ code \notin sent[p]
    /\ sent' = [sent EXCEPT ![p] = @ \cup {code}]
    /\ UNCHANGED <<dbVars, gw, returned, credits, req>>

-----------------------------------------------------------------------------
(* Gateway reports: server callback and browser return *)

(* shouldReprocessProcessedCallback *)
ShouldReprocess(processed, code, status) ==
    \/ ~processed
    \/ code = "OK" /\ status \notin Settled

(* handleCallback / handleGatewayReturn, up to the transaction.  An        *)
(* unparsable report, one for an unknown order or another amount, and a    *)
(* duplicate change nothing.                                               *)
CallbackStart(r, p, code) ==
    /\ code \in sent[p]
    /\ Exists(p)
    /\ ShouldReprocess(seen[p], code, pay[p].status)
    /\ Begin(r, [op |-> "callback", pay |-> p, code |-> code, saw |-> pay[p],
                 known |-> seen[p]])
    /\ UNCHANGED <<dbVars, gwVars, credits>>

(* Mutation: a report without a status code counts as a success. *)
MutUnknownSucceeds(saw, code) ==
    IF saw.status = "SUCCESS" \/ code = "UNKNOWN" THEN "SUCCESS" ELSE "FAILED"

(* nextStatus and effectiveStatus of an unsuccessful report. *)
StatusAfterReport(saw, code) ==
    IF saw.status = "SUCCESS" \/ code = "UNKNOWN" THEN saw.status ELSE "FAILED"

(* handleCallback's transaction. *)
CallbackCommit(r) ==
    LET q == req[r]
    IN  /\ q.op = "callback"
        /\ q.known \/ ~seen[q.pay]
        /\ IF q.code = "OK"
           THEN RecordSuccess(q.pay, q.saw)
           ELSE WriteBack(q.pay, q.saw, StatusAfterReport(q.saw, q.code))
        /\ seen' = [seen EXCEPT ![q.pay] = TRUE]
        /\ Done(r)
        /\ UNCHANGED <<recent, refunds, published, gwVars>>

(* Another report inserted the callback row first: the unique key aborts   *)
(* the transaction and the report is dropped.                              *)
CallbackConflict(r) ==
    /\ req[r].op = "callback"
    /\ ~req[r].known /\ seen[req[r].pay]
    /\ Done(r)
    /\ UNCHANGED <<dbVars, gwVars, credits>>

-----------------------------------------------------------------------------
(* Requery: staff, and the citizen return page *)

(* requery (staff): any online payment, whatever its status. *)
RequeryStart(r, p) ==
    /\ Exists(p) /\ pay[p].mode = "ONLINE"
    /\ Begin(r, [op |-> "requery", pay |-> p, saw |-> pay[p]])
    /\ UNCHANGED <<dbVars, gwVars, credits>>

(* syncCitizenPaymentByMerchTxnId returns early on a final status. *)
SyncStart(r, p) ==
    /\ Exists(p) /\ pay[p].mode = "ONLINE"
    /\ pay[p].status \notin {"SUCCESS", "FAILED", "REFUNDED"}
    /\ Begin(r, [op |-> "requery", pay |-> p, saw |-> pay[p]])
    /\ UNCHANGED <<dbVars, gwVars, credits>>

(* finalizeRequerySuccess, the gateway having answered success. *)
RequerySuccess(r) ==
    /\ req[r].op = "requery"
    /\ gw[req[r].pay] = "paid"
    /\ RecordSuccess(req[r].pay, req[r].saw)
    /\ Done(r)
    /\ UNCHANGED <<seen, recent, refunds, published, gwVars>>

(* finalizeRequerySuccess, the gateway having answered anything else (its  *)
(* answer may be older than the payment): the status read is written back. *)
RequeryUnsuccessful(r) ==
    /\ req[r].op = "requery"
    /\ WriteBack(req[r].pay, req[r].saw, req[r].saw.status)
    /\ Done(r)
    /\ UNCHANGED <<seen, recent, refunds, published, gwVars>>

-----------------------------------------------------------------------------
(* Refunds *)

(* Mutation: the refundable balance is not checked. *)
MutRefundUnchecked(r, p, a) ==
    /\ pay[p].status = "SUCCESS"
    /\ pay[p].atomTxn
    /\ Begin(r, [op |-> "refund", pay |-> p, saw |-> pay[p], amount |-> a])
    /\ UNCHANGED <<dbVars, gwVars, credits>>

(* refund: the checks on the row read. *)
RefundStart(r, p, a) ==
    /\ pay[p].status = "SUCCESS"
    /\ pay[p].atomTxn
    /\ a <= pay[p].refundable
    /\ Begin(r, [op |-> "refund", pay |-> p, saw |-> pay[p], amount |-> a])
    /\ UNCHANGED <<dbVars, gwVars, credits>>

(* The gateway pays the money back. *)
RefundAccepted(r) ==
    /\ req[r].op = "refund"
    /\ returned[req[r].pay] + req[r].amount <= MaxReturned
    /\ returned' = [returned EXCEPT ![req[r].pay] = @ + req[r].amount]
    /\ Become(r, [req[r] EXCEPT !.op = "refundRecord"])
    /\ UNCHANGED <<dbVars, gw, sent, credits>>

(* Mutation: canApplyRefundToPayment is not asked. *)
MutRefusedIsApplied(r) ==
    /\ req[r].op = "refund"
    /\ Become(r, [req[r] EXCEPT !.op = "refundApply"])
    /\ UNCHANGED <<dbVars, gwVars, credits>>

(* It does not: a FAILED payment_refund row, and the payment is kept.      *)
RefundRefused(r) ==
    /\ req[r].op = "refund"
    /\ Done(r)
    /\ UNCHANGED <<dbVars, gwVars, credits>>

(* paymentRefund.create *)
RefundRecord(r) ==
    /\ req[r].op = "refundRecord"
    /\ refunds' = [refunds EXCEPT ![req[r].pay] = @ + req[r].amount]
    /\ Become(r, [req[r] EXCEPT !.op = "refundApply"])
    /\ UNCHANGED <<demand, pay, seen, recent, published, gwVars, credits>>

(* payment.update: the balance read before the gateway call, less this one. *)
RefundApply(r) ==
    LET q == req[r]
        remaining == q.saw.refundable - q.amount
    IN  /\ q.op = "refundApply"
        /\ pay' = [pay EXCEPT ![q.pay] =
                     [@ EXCEPT !.refundable = remaining,
                               !.status = IF remaining <= 0 THEN "REFUNDED"
                                          ELSE "PARTIALLY_REFUNDED"]]
        /\ Done(r)
        /\ UNCHANGED <<demand, seen, recent, refunds, published, gwVars, credits>>

-----------------------------------------------------------------------------
(* Counter collections *)

(* assertOfflineAmountAgainstOutstanding *)
WithinOutstanding(amount, row) == amount > 0 /\ row.outstanding > 0 /\ amount <= row.outstanding

(* Mutation: clientIdempotencyKey is stored but neither looked up nor unique. *)
MutKeyIgnored(k) == FALSE

KeyUsed(k) == k # NoKey /\ \E p \in Payments : Exists(p) /\ pay[p].key = k

(* createOffline, up to the transaction.  A key already used returns the   *)
(* payment it made.                                                        *)
OfflineStart(r, d, a, k) ==
    /\ ~KeyUsed(k)
    /\ demand[d].status = "PUBLISHED"
    /\ WithinOutstanding(a, demand[d])
    /\ Begin(r, [op |-> "offline", dem |-> d, amount |-> a, key |-> k])
    /\ UNCHANGED <<dbVars, gwVars, credits>>

(* Mutation: the transaction trusts the check made before it. *)
MutOfflineUnlocked(r, p) ==
    LET q == req[r]
    IN  /\ q.op = "offline"
        /\ ~Exists(p)
        /\ ~KeyUsed(q.key)
        /\ pay' = [pay EXCEPT ![p] =
                     [status |-> "SUCCESS", mode |-> "OFFLINE", dem |-> q.dem,
                      amount |-> q.amount, refundable |-> q.amount, linked |-> TRUE,
                      atomTxn |-> FALSE, receipt |-> TRUE, snapshot |-> TRUE, key |-> q.key]]
        /\ demand' = [demand EXCEPT ![q.dem] = AfterPayment(@, q.amount)]
        /\ credits' = [credits EXCEPT ![p] = 1]
        /\ Done(r)
        /\ UNCHANGED <<seen, recent, refunds, published, gwVars>>

(* createOffline's transaction, on the locked demand row. *)
OfflineCommit(r, p) ==
    LET q == req[r]
    IN  /\ q.op = "offline"
        /\ ~Exists(p)
        /\ ~KeyUsed(q.key)
        /\ demand[q.dem].status = "PUBLISHED"
        /\ WithinOutstanding(q.amount, demand[q.dem])
        /\ pay' = [pay EXCEPT ![p] =
                     [status |-> "SUCCESS", mode |-> "OFFLINE", dem |-> q.dem,
                      amount |-> q.amount, refundable |-> q.amount, linked |-> TRUE,
                      atomTxn |-> FALSE, receipt |-> TRUE, snapshot |-> TRUE, key |-> q.key]]
        /\ demand' = [demand EXCEPT ![q.dem] = AfterPayment(@, q.amount)]
        /\ credits' = [credits EXCEPT ![p] = 1]
        /\ Done(r)
        /\ UNCHANGED <<seen, recent, refunds, published, gwVars>>

(* The transaction is rolled back: the demand no longer admits the amount, *)
(* the key was used meanwhile (the payment it made is returned), or the    *)
(* receipt number is taken.                                                *)
OfflineRejected(r) ==
    /\ req[r].op = "offline"
    /\ Done(r)
    /\ UNCHANGED <<dbVars, gwVars, credits>>

-----------------------------------------------------------------------------
(* Publishing a demand *)

(* sumSuccessPayments *)
SuccessPayments(d) ==
    LET paidFor == {p \in Payments : pay[p].dem = d /\ pay[p].status = "SUCCESS"}
    IN  MapThenSumSet(LAMBDA p : pay[p].amount, paidFor)

(* upsertPublishedDemandForSurvey: the existing row, the sum of successful *)
(* payments and the assessment are read without a lock ...                 *)
PublishStart(r, d, t) ==
    /\ published < MaxPublish
    /\ published' = published + 1
    /\ Begin(r, [op |-> "publish", dem |-> d, existed |-> demand[d].status # "ABSENT",
                 total |-> t, paid |-> SuccessPayments(d)])
    /\ UNCHANGED <<demand, pay, seen, recent, refunds, gwVars, credits>>

(* ... and written over whatever the row holds by then. *)
PublishWrite(r) ==
    LET q == req[r]
    IN  /\ q.op = "publish"
        /\ q.existed \/ demand[q.dem].status = "ABSENT"
        /\ demand' = [demand EXCEPT ![q.dem] =
                        [status |-> "PUBLISHED", total |-> q.total, paid |-> q.paid,
                         outstanding |-> Outstanding(q.total, q.paid)]]
        /\ credits' = [p \in Payments |-> IF pay[p].dem = q.dem THEN 0 ELSE credits[p]]
        /\ Done(r)
        /\ UNCHANGED <<pay, seen, recent, refunds, published, gwVars>>

(* Two first publishes: the unique (survey, year) key refuses the second.  *)
PublishConflict(r) ==
    /\ req[r].op = "publish"
    /\ ~req[r].existed /\ demand[req[r].dem].status # "ABSENT"
    /\ Done(r)
    /\ UNCHANGED <<dbVars, gwVars, credits>>

-----------------------------------------------------------------------------
(* The API process dies, or its client is cut off by an error, between two *)
(* steps of a request: what it has written stays, the rest never happens.  *)
Crash(r) ==
    /\ ~Idle(r)
    /\ Done(r)
    /\ UNCHANGED <<dbVars, gwVars, credits>>

Creation(r) ==
    \/ \E d \in Demands : StaffOnline(r, d) \/ CitizenOnline(r, d)
    \/ \E p \in Payments : CreatePayment(r, p)
    \/ CheckoutRefused(r)
    \/ CheckoutIssued(r)

Report(r) ==
    \/ \E p \in Payments, code \in Codes : CallbackStart(r, p, code)
    \/ CallbackCommit(r)
    \/ CallbackConflict(r)

Requery(r) ==
    \/ \E p \in Payments : RequeryStart(r, p) \/ SyncStart(r, p)
    \/ RequerySuccess(r)
    \/ RequeryUnsuccessful(r)

Refund(r) ==
    \/ \E p \in Payments, a \in RefundAmounts : RefundStart(r, p, a)
    \/ RefundAccepted(r)
    \/ RefundRefused(r)
    \/ RefundRecord(r)
    \/ RefundApply(r)

Offline(r) ==
    \/ \E d \in Demands, a \in OfflineAmounts, k \in Keys \cup {NoKey} : OfflineStart(r, d, a, k)
    \/ \E p \in Payments : OfflineCommit(r, p)
    \/ OfflineRejected(r)

Publish(r) ==
    \/ \E d \in Demands, t \in Totals : PublishStart(r, d, t)
    \/ PublishWrite(r)
    \/ PublishConflict(r)

Environment ==
    \/ \E p \in Payments : WindowExpires(p) \/ GatewayPaid(p)
    \/ \E p \in Payments, code \in DeclineCodes : GatewayDeclined(p, code)

Next ==
    \/ \E r \in Requests : \/ Creation(r) \/ Report(r) \/ Requery(r) \/ Refund(r)
                           \/ Offline(r) \/ Publish(r) \/ Crash(r)
    \/ Environment

Spec == Init /\ [][Next]_vars

-----------------------------------------------------------------------------
(* Properties *)

(* Every table, gateway record and request in flight holds values of its type. *)
TypeOK ==
    /\ demand \in [Demands -> DemandRow]
    /\ pay \in [Payments -> PaymentRow]
    /\ seen \in [Payments -> BOOLEAN]
    /\ recent \subseteq Payments
    /\ refunds \in [Payments -> Nat]
    /\ published \in Nat
    /\ gw \in [Payments -> {"none", "open", "paid"}]
    /\ sent \in [Payments -> SUBSET Codes]
    /\ returned \in [Payments -> Nat]
    /\ credits \in [Payments -> Nat]
    /\ req \in [Requests -> Request]

(* Whoever wrote a demand last - counter, callback, requery or publish -   *)
(* its outstanding amount is the total less what is paid, never below 0.   *)
BalanceConsistent ==
    \A d \in Demands : demand[d].outstanding = Outstanding(demand[d].total, demand[d].paid)

(* No online payment is shown as paid, has a receipt or is credited to a   *)
(* demand unless the gateway took the money, however reports, requeries    *)
(* and refunds overlap.                                                    *)
SettledMoneyReceived ==
    \A p \in Payments :
        /\ pay[p].mode = "ONLINE"
        /\ pay[p].status \in Settled \/ pay[p].receipt \/ pay[p].snapshot
        => gw[p] = "paid"

(* A payment that is shown as paid or refunded has a receipt number, also  *)
(* when its status was written back by a request that read it earlier.     *)
SettledHasReceipt ==
    \A p \in Payments : pay[p].status \in Settled => pay[p].receipt

(* A payment taken for a published demand and confirmed by the gateway has *)
(* been credited to that demand (it has the receipt snapshot that the      *)
(* crediting transaction writes): no order of failed, unknown, successful  *)
(* and repeated reports skips the credit.                                  *)
SuccessIsCredited ==
    \A p \in Payments : pay[p].receipt /\ pay[p].linked => pay[p].snapshot

(* A payment row that a step creates at the counter fits its demand.       *)
CollectionFits ==
    \A p \in Payments :
        ~Exists(p) /\ Exists(p)' /\ pay'[p].mode = "OFFLINE"
        => demand'[pay'[p].dem].paid <= demand'[pay'[p].dem].total

(* Counter collections never take a demand beyond its total: two cashiers, *)
(* or a cashier and an online payer, cannot both collect the last rupee.   *)
OfflineWithinDues == [][CollectionFits]_vars

(* A client idempotency key makes at most one payment, however often and   *)
(* however simultaneously the cashier's browser sends it.                  *)
KeyCollectsOnce ==
    \A p, q \in Payments :
        Exists(p) /\ Exists(q) /\ pay[p].key = pay[q].key /\ pay[p].key # NoKey => p = q

(* No update is lost on a demand: every payment credited since its last    *)
(* publish is in amountPaid.  Of those before, a publish may have summed   *)
(* too few (PaidNeverDrops).                                               *)
LedgerComplete ==
    \A d \in Demands :
        demand[d].paid >= MapThenSumSet(LAMBDA p : credits[p] * pay[p].amount,
                                        {p \in Payments : pay[p].dem = d})

(* The refundable balance never shrinks by more than was refunded: every   *)
(* reduction is backed by refund rows, whatever refunds overlap, whatever  *)
(* a requery writes in between and wherever the API dies.                  *)
RefundBacked ==
    \A p \in Payments : pay[p].amount - pay[p].refundable <= refunds[p]

-----------------------------------------------------------------------------
(* What the repository says of the code and the code does not do *)

(* "On first SUCCESS: lock published demand, increment amountPaid": a      *)
(* payment is added to its demand at most once.                            *)
CreditedOnce == \A p \in Payments : credits[p] <= 1

(* "does not reprocess a later FAILED after SUCCESS": a payment known to   *)
(* be successful does not go back to open or failed.                       *)
SuccessKept ==
    [][\A p \in Payments :
         pay[p].status = "SUCCESS" => pay'[p].status \in Settled]_vars

(* "Refund amount exceeds refundable balance" is refused: refunds recorded *)
(* for a payment never add up to more than it.                             *)
RefundsWithinAmount == \A p \in Payments : refunds[p] <= pay[p].amount

(* "preserves existing arrears and amount paid when updating": publishing  *)
(* a demand again never lowers the amount paid on it.                      *)
PaidNeverDrops == [][\A d \in Demands : demand'[d].paid >= demand[d].paid]_vars

=============================================================================
