--------------------------- MODULE PaymentsProofs ---------------------------
(***************************************************************************)
(* Proofs about Payments, for any number of demands, payments, requests    *)
(* and keys and for any amounts.                                           *)
(***************************************************************************)
EXTENDS Payments, FiniteSums

-----------------------------------------------------------------------------
(* The inductive invariant.  The properties alone are not inductive: a     *)
(* request writes by the row it remembers, so the invariant says how far   *)
(* that row may be from the one in the table.                              *)

(* The gateway knows only online payments, and reports success only for    *)
(* the ones it was paid.                                                   *)
GatewayOK ==
    \A p \in Payments :
        /\ gw[p] # "none" => Exists(p) /\ pay[p].mode = "ONLINE"
        /\ sent[p] # {} => gw[p] # "none"
        /\ "OK" \in sent[p] => gw[p] = "paid"
        /\ pay[p].atomTxn => Exists(p) /\ pay[p].mode = "ONLINE"

(* A payment carries a demand's id only once that demand is published.     *)
LinkedOK ==
    \A p \in Payments : pay[p].linked => demand[pay[p].dem].status = "PUBLISHED"

(* What a request remembers of payment p, against p's row now: identity is *)
(* kept, and what was settled, captured or credited then still is.         *)
SawOK(p, saw) ==
    /\ Exists(p) /\ pay[p].mode = "ONLINE"
    /\ saw.status # "NONE"
    /\ saw.dem = pay[p].dem
    /\ saw.amount = pay[p].amount
    /\ saw.status \in Settled => pay[p].receipt /\ gw[p] = "paid"
    /\ saw.snapshot => pay[p].snapshot

RefundOps == {"refund", "refundRecord", "refundApply"}

(* What holds of a request in flight, by kind. *)
RequestOK(q) ==
    /\ q.op = "online" => (q.linked => demand[q.dem].status = "PUBLISHED")
    /\ q.op = "gateway" => /\ Exists(q.pay) /\ pay[q.pay].mode = "ONLINE"
                           /\ gw[q.pay] = "none"
    /\ q.op = "callback" => SawOK(q.pay, q.saw) /\ (q.code = "OK" => gw[q.pay] = "paid")
    /\ q.op = "requery" => SawOK(q.pay, q.saw)
    /\ q.op \in RefundOps => /\ SawOK(q.pay, q.saw)
                             /\ q.saw.status = "SUCCESS"
                             /\ q.amount <= q.saw.refundable
                             /\ q.saw.amount - q.saw.refundable <= refunds[q.pay]
    /\ q.op = "refundApply" =>
            q.saw.amount - q.saw.refundable + q.amount <= refunds[q.pay]

RequestsOK == \A r \in Requests : RequestOK(req[r])

(* Two requests never wait for the gateway's token of the same payment.    *)
SoleCheckout ==
    \A r, s \in Requests :
        req[r].op = "gateway" /\ req[s].op = "gateway" /\ req[r].pay = req[s].pay => r = s

Safe ==
    /\ BalanceConsistent
    /\ SettledMoneyReceived
    /\ SettledHasReceipt
    /\ SuccessIsCredited
    /\ KeyCollectsOnce
    /\ RefundBacked

IInv == TypeOK /\ GatewayOK /\ LinkedOK /\ RequestsOK /\ SoleCheckout /\ Safe

-----------------------------------------------------------------------------
(* Facts used by several actions *)

(* Outstanding is a natural number. *)
LEMMA OutstandingNat ==
    ASSUME NEW t \in Nat, NEW a \in Nat
    PROVE  Outstanding(t, a) \in Nat
BY DEF Outstanding

(* A credited demand row is a row, with its balance right. *)
LEMMA AfterPaymentRow ==
    ASSUME NEW row \in DemandRow, NEW a \in Nat
    PROVE  /\ AfterPayment(row, a) \in DemandRow
           /\ AfterPayment(row, a).status = row.status
           /\ AfterPayment(row, a).total = row.total
           /\ AfterPayment(row, a).paid = row.paid + a
           /\ AfterPayment(row, a).outstanding = Outstanding(row.total, row.paid + a)
<1>1. row.total \in Nat /\ row.paid + a \in Nat
  BY DEF DemandRow
<1>2. Outstanding(row.total, row.paid + a) \in Nat
  BY <1>1, OutstandingNat
<1> QED
  BY <1>1, <1>2 DEF AfterPayment, DemandRow

(* The initial state satisfies the invariant. *)
LEMMA InitIInv == Init => IInv
<1> SUFFICES ASSUME Init PROVE IInv
  OBVIOUS
<1> DEFINE d0 == CHOOSE d \in Demands : TRUE
<1>1. d0 \in Demands
  BY DemandsAssumption
<1>2. TypeOK
  BY <1>1 DEF Init, TypeOK, DemandRow, PaymentRow, PaymentStatus, Codes, Request
<1>3. GatewayOK /\ LinkedOK
  BY DEF Init, GatewayOK, LinkedOK
<1>4. RequestsOK /\ SoleCheckout
  BY DEF Init, RequestsOK, RequestOK, RefundOps, SoleCheckout
<1>5. BalanceConsistent
  BY DEF Init, BalanceConsistent, Outstanding
<1>6. Safe
  BY <1>5 DEF Init, Safe, SettledMoneyReceived, SettledHasReceipt, SuccessIsCredited,
              KeyCollectsOnce, RefundBacked, Settled, Exists
<1> QED
  BY <1>2, <1>3, <1>4, <1>6 DEF IInv

(* A step that only moves one request, to a state that is itself in order. *)
LEMMA RequestStep ==
    ASSUME IInv,
           NEW r \in Requests, NEW q \in Request, RequestOK(q), q.op # "gateway",
           req' = [req EXCEPT ![r] = q],
           UNCHANGED <<demand, pay, seen, recent, refunds, gw, sent, returned, credits>>,
           published' \in Nat
    PROVE  IInv'
<1>1. TypeOK'
  BY DEF IInv, TypeOK
<1>2. GatewayOK' /\ LinkedOK' /\ Safe'
  BY DEF IInv, GatewayOK, LinkedOK, Safe, BalanceConsistent, SettledMoneyReceived,
         SettledHasReceipt, SuccessIsCredited, KeyCollectsOnce, RefundBacked, Exists
<1>3. \A x : RequestOK(x)' = RequestOK(x)
  BY DEF RequestOK, SawOK, Exists
<1>4. \A s \in Requests : req'[s] = IF s = r THEN q ELSE req[s]
  BY DEF IInv, TypeOK
<1>5. RequestsOK'
  BY <1>3, <1>4 DEF IInv, RequestsOK
<1>6. SoleCheckout'
  BY <1>4 DEF IInv, SoleCheckout
<1> QED
  BY <1>1, <1>2, <1>5, <1>6 DEF IInv

(* The same row, later: it keeps its identity, its receipt and its snapshot. *)
RowKept(a, b) ==
    /\ b.status # "NONE"
    /\ b.mode = a.mode /\ b.dem = a.dem /\ b.amount = a.amount /\ b.key = a.key
    /\ a.receipt => b.receipt
    /\ a.snapshot => b.snapshot

(* What the invariant says of one payment row, given its demand and what   *)
(* the gateway and the refund table know of it.                            *)
RowOK(p, row, published1) ==
    /\ row.status \in Settled \/ row.receipt \/ row.snapshot => gw[p] = "paid"
    /\ row.atomTxn => row.mode = "ONLINE"
    /\ row.status \in Settled => row.receipt
    /\ row.receipt /\ row.linked => row.snapshot
    /\ row.linked => published1
    /\ row.amount - row.refundable <= refunds[p]

(* Demand rows move from one consistent set to another, none disappears.   *)
DemandsMoved ==
    /\ demand' \in [Demands -> DemandRow]
    /\ BalanceConsistent'
    /\ \A d \in Demands : demand[d].status = "PUBLISHED" => demand'[d].status = "PUBLISHED"

(* A request ends by rewriting an online payment's row, and maybe demands. *)
LEMMA RowStep ==
    ASSUME IInv,
           NEW r \in Requests, NEW p \in Payments, NEW row \in PaymentRow,
           Exists(p), pay[p].mode = "ONLINE", RowKept(pay[p], row),
           RowOK(p, row, demand'[row.dem].status = "PUBLISHED"),
           pay' = [pay EXCEPT ![p] = row], DemandsMoved, Done(r),
           seen' \in [Payments -> BOOLEAN], credits' \in [Payments -> Nat],
           UNCHANGED <<recent, refunds, published, gw, sent, returned>>
    PROVE  IInv'
<1>1. \A x \in Payments : pay'[x] = IF x = p THEN row ELSE pay[x]
  BY DEF IInv, TypeOK
<1>2. \A s \in Requests : req'[s] = IF s = r THEN [op |-> "idle"] ELSE req[s]
  BY DEF IInv, TypeOK, Done
<1>3. TypeOK'
  <2>1. pay' \in [Payments -> PaymentRow]
    BY DEF IInv, TypeOK
  <2>2. req' \in [Requests -> Request]
    BY DEF IInv, TypeOK, Done, Request
  <2> QED
    BY <2>1, <2>2 DEF IInv, TypeOK, DemandsMoved
<1>4. GatewayOK'
  BY <1>1 DEF IInv, GatewayOK, Exists, RowKept, RowOK
<1>5. LinkedOK'
  BY <1>1 DEF IInv, TypeOK, PaymentRow, LinkedOK, DemandsMoved, RowOK
<1>6. RequestsOK'
  <2>1. ASSUME NEW x \in Payments, NEW w, SawOK(x, w) PROVE SawOK(x, w)'
    BY <2>1, <1>1 DEF SawOK, RowKept, Exists
  <2>2. ASSUME NEW s \in Requests PROVE RequestOK(req[s])'
    <3>1. CASE s = r
      BY <3>1, <1>2 DEF RequestOK, RefundOps
    <3>2. CASE s # r
      <4>1. req[s] \in Request /\ RequestOK(req[s]) /\ req'[s] = req[s]
        BY <3>2, <1>2 DEF IInv, TypeOK, RequestsOK
      <4> DEFINE q == req[s]
      <4>2. q.op = "online" => (q.linked => demand'[q.dem].status = "PUBLISHED")
        BY <4>1 DEF RequestOK, Request, DemandsMoved
      <4>3. q.op = "gateway" => /\ Exists(q.pay)' /\ pay'[q.pay].mode = "ONLINE"
                                /\ gw'[q.pay] = "none"
        BY <4>1, <1>1 DEF RequestOK, Request, Exists, RowKept
      <4>4. q.op \in {"callback", "requery"} \cup RefundOps => q.pay \in Payments
        BY <4>1 DEF Request, RefundOps
      <4>5. q.op \in {"callback", "requery"} \cup RefundOps => SawOK(q.pay, q.saw)'
        BY <4>1, <4>4, <2>1 DEF RequestOK, RefundOps
      <4> QED
        BY <4>1, <4>2, <4>3, <4>5 DEF RequestOK, RefundOps
    <3> QED
      BY <3>1, <3>2
  <2> QED
    BY <2>2 DEF RequestsOK
<1>7. SoleCheckout'
  BY <1>2 DEF IInv, SoleCheckout
<1>8. Safe'
  <2>1. SettledMoneyReceived'
    BY <1>1 DEF IInv, Safe, SettledMoneyReceived, RowOK
  <2>2. SettledHasReceipt' /\ SuccessIsCredited'
    BY <1>1 DEF IInv, Safe, SettledHasReceipt, SuccessIsCredited, RowOK
  <2>3. KeyCollectsOnce'
    BY <1>1 DEF IInv, Safe, KeyCollectsOnce, RowKept, Exists
  <2>4. RefundBacked'
    BY <1>1 DEF IInv, Safe, RefundBacked, RowOK
  <2> QED
    BY <2>1, <2>2, <2>3, <2>4 DEF Safe, DemandsMoved
<1> QED
  BY <1>3, <1>4, <1>5, <1>6, <1>7, <1>8 DEF IInv

(* Unused ids: no request, gateway record or other row refers to them, so  *)
(* a fresh row can be anything that is itself in order.                    *)
LEMMA FreshRow ==
    ASSUME IInv,
           NEW r \in Requests, NEW p \in Payments, NEW row \in PaymentRow, NEW q \in Request,
           ~Exists(p), row.status # "NONE", RowOK(p, row, demand'[row.dem].status = "PUBLISHED")
                                            \/ (row.mode = "OFFLINE" /\ row.status = "SUCCESS"
                                                /\ row.receipt /\ row.snapshot /\ ~row.atomTxn
                                                /\ row.amount = row.refundable
                                                /\ demand'[row.dem].status = "PUBLISHED"),
           row.key # NoKey => ~KeyUsed(row.key),
           q.op = "idle" \/ (q.op = "gateway" /\ q.pay = p /\ row.mode = "ONLINE"),
           pay' = [pay EXCEPT ![p] = row], DemandsMoved, req' = [req EXCEPT ![r] = q],
           recent' \subseteq Payments, credits' \in [Payments -> Nat],
           UNCHANGED <<seen, refunds, published, gw, sent, returned>>
    PROVE  IInv'
<1>1. \A x \in Payments : pay'[x] = IF x = p THEN row ELSE pay[x]
  BY DEF IInv, TypeOK
<1>2. \A s \in Requests : req'[s] = IF s = r THEN q ELSE req[s]
  BY DEF IInv, TypeOK
<1>3. TypeOK'
  <2>1. pay' \in [Payments -> PaymentRow] /\ req' \in [Requests -> Request]
    BY DEF IInv, TypeOK
  <2> QED
    BY <2>1 DEF IInv, TypeOK, DemandsMoved
<1>4. gw[p] = "none" /\ sent[p] = {}
  BY DEF IInv, GatewayOK
<1>5. refunds[p] \in Nat /\ row.amount \in Nat /\ row.refundable \in Nat /\ row.dem \in Demands
  BY DEF IInv, TypeOK, PaymentRow
<1>6. GatewayOK'
  BY <1>1, <1>4 DEF IInv, GatewayOK, Exists, RowOK
<1>7. LinkedOK'
  BY <1>1 DEF IInv, TypeOK, PaymentRow, LinkedOK, DemandsMoved, RowOK
<1>8. ASSUME NEW s \in Requests PROVE req[s].op # "idle" /\ req[s].op # "online"
                                       /\ req[s].op # "offline" /\ req[s].op # "publish"
                                       => req[s].pay \in Payments /\ req[s].pay # p
  BY DEF IInv, TypeOK, Request, RequestsOK, RequestOK, RefundOps, SawOK
<1>9. RequestsOK'
  <2>1. ASSUME NEW x \in Payments, x # p, NEW w, SawOK(x, w) PROVE SawOK(x, w)'
    BY <2>1, <1>1 DEF SawOK, Exists
  <2>2. ASSUME NEW s \in Requests PROVE RequestOK(req[s])'
    <3>1. CASE s = r
      BY <3>1, <1>1, <1>2, <1>4 DEF RequestOK, RefundOps, Exists
    <3>2. CASE s # r
      <4>1. req[s] \in Request /\ RequestOK(req[s]) /\ req'[s] = req[s]
        BY <3>2, <1>2 DEF IInv, TypeOK, RequestsOK
      <4> DEFINE z == req[s]
      <4>2. z.op = "online" => (z.linked => demand'[z.dem].status = "PUBLISHED")
        BY <4>1 DEF RequestOK, Request, DemandsMoved
      <4>3. z.op = "gateway" => /\ Exists(z.pay)' /\ pay'[z.pay].mode = "ONLINE"
                                /\ gw'[z.pay] = "none"
        BY <4>1, <1>1, <1>8 DEF RequestOK, Exists
      <4>4. z.op \in {"callback", "requery"} \cup RefundOps => SawOK(z.pay, z.saw)'
        BY <4>1, <1>8, <2>1 DEF RequestOK, RefundOps
      <4> QED
        BY <4>1, <4>2, <4>3, <4>4 DEF RequestOK, RefundOps
    <3> QED
      BY <3>1, <3>2
  <2> QED
    BY <2>2 DEF RequestsOK
<1>10. SoleCheckout'
  BY <1>2, <1>8 DEF IInv, SoleCheckout
<1>11. Safe'
  <2>1. SettledMoneyReceived'
    BY <1>1 DEF IInv, Safe, SettledMoneyReceived, RowOK
  <2>2. SettledHasReceipt' /\ SuccessIsCredited'
    BY <1>1 DEF IInv, Safe, SettledHasReceipt, SuccessIsCredited, RowOK
  <2>3. KeyCollectsOnce'
    BY <1>1 DEF IInv, Safe, KeyCollectsOnce, KeyUsed, Exists
  <2>4. RefundBacked'
    BY <1>1, <1>5 DEF IInv, Safe, RefundBacked, RowOK
  <2> QED
    BY <2>1, <2>2, <2>3, <2>4 DEF Safe, DemandsMoved
<1> QED
  BY <1>3, <1>6, <1>7, <1>9, <1>10, <1>11 DEF IInv

(* Demand rows that do not move have not moved badly. *)
LEMMA DemandsStay == ASSUME IInv, UNCHANGED demand PROVE DemandsMoved
BY DEF IInv, TypeOK, Safe, BalanceConsistent, DemandsMoved

(* Crediting one demand keeps all of them in order. *)
LEMMA DemandCredited ==
    ASSUME IInv, NEW d \in Demands, NEW a \in Nat,
           demand' = [demand EXCEPT ![d] = AfterPayment(@, a)]
    PROVE  DemandsMoved /\ (\A e \in Demands : demand'[e].status = demand[e].status)
<1>1. demand[d] \in DemandRow
  BY DEF IInv, TypeOK
<1>2. \A e \in Demands : demand'[e] = IF e = d THEN AfterPayment(demand[d], a) ELSE demand[e]
  BY DEF IInv, TypeOK
<1>3. demand' \in [Demands -> DemandRow]
  BY <1>1, AfterPaymentRow DEF IInv, TypeOK
<1>4. BalanceConsistent'
  BY <1>1, <1>2, AfterPaymentRow DEF IInv, Safe, BalanceConsistent
<1>5. \A e \in Demands : demand'[e].status = demand[e].status
  BY <1>1, <1>2, AfterPaymentRow
<1> QED
  BY <1>3, <1>4, <1>5 DEF DemandsMoved

-----------------------------------------------------------------------------
(* The actions, one lemma each family *)

(* Requests that end without writing: conflicts, refusals and crashes. *)
LEMMA EndSteps ==
    ASSUME IInv, NEW r \in Requests,
           \/ CallbackConflict(r) \/ RefundRefused(r) \/ OfflineRejected(r)
           \/ PublishConflict(r) \/ Crash(r)
    PROVE  IInv'
<1> DEFINE q == [op |-> "idle"]
<1>1. q \in Request /\ RequestOK(q) /\ q.op # "gateway"
  BY DEF Request, RequestOK, RefundOps
<1>2. /\ req' = [req EXCEPT ![r] = q]
      /\ UNCHANGED <<demand, pay, seen, recent, refunds, gw, sent, returned, credits>>
      /\ published' = published
  BY DEF CallbackConflict, RefundRefused, OfflineRejected, PublishConflict, Crash, Done,
         dbVars, gwVars
<1>3. published' \in Nat
  BY <1>2 DEF IInv, TypeOK
<1> QED
  BY <1>1, <1>2, <1>3, RequestStep

(* A staff member or a citizen asks for a checkout. *)
LEMMA AskSteps ==
    ASSUME IInv, NEW r \in Requests, NEW d \in Demands, StaffOnline(r, d) \/ CitizenOnline(r, d)
    PROVE  IInv'
<1>1. PICK a \in Payable(d) :
        Begin(r, [op |-> "online", dem |-> d, amount |-> a,
                  linked |-> demand[d].status = "PUBLISHED"])
  BY DEF StaffOnline, CitizenOnline, AskFor
<1>2. a \in Nat
  BY <1>1, AmountsAssumption DEF Payable, IInv, TypeOK, DemandRow
<1> DEFINE q == [op |-> "online", dem |-> d, amount |-> a,
                 linked |-> demand[d].status = "PUBLISHED"]
<1>3. q \in Request
  BY <1>2 DEF Request
<1>4. RequestOK(q) /\ q.op # "gateway"
  BY DEF RequestOK, RefundOps
<1>5. /\ req' = [req EXCEPT ![r] = q]
      /\ UNCHANGED <<demand, pay, seen, recent, refunds, gw, sent, returned, credits>>
      /\ published' = published
  BY <1>1 DEF StaffOnline, CitizenOnline, Begin, dbVars, gwVars
<1>6. published' \in Nat
  BY <1>5 DEF IInv, TypeOK
<1> QED
  BY <1>3, <1>4, <1>5, <1>6, RequestStep

(* A request reads an existing online payment: what it remembers is the row itself. *)
LEMMA SawNow ==
    ASSUME IInv, NEW p \in Payments, Exists(p), pay[p].mode = "ONLINE"
    PROVE  SawOK(p, pay[p])
BY DEF IInv, GatewayOK, Safe, SettledMoneyReceived, SettledHasReceipt, SawOK, Exists

(* A gateway report is read and admitted. *)
LEMMA CallbackStartStep ==
    ASSUME IInv, NEW r \in Requests, NEW p \in Payments, NEW code \in Codes,
           CallbackStart(r, p, code)
    PROVE  IInv'
<1> DEFINE q == [op |-> "callback", pay |-> p, code |-> code, saw |-> pay[p],
                 known |-> seen[p]]
<1>1. q \in Request
  BY DEF Request, IInv, TypeOK
<1>2. SawOK(p, pay[p]) /\ (code = "OK" => gw[p] = "paid")
  BY SawNow DEF CallbackStart, IInv, GatewayOK
<1>3. RequestOK(q) /\ q.op # "gateway"
  BY <1>2 DEF RequestOK, RefundOps
<1>4. /\ req' = [req EXCEPT ![r] = q]
      /\ UNCHANGED <<demand, pay, seen, recent, refunds, gw, sent, returned, credits>>
      /\ published' = published
  BY DEF CallbackStart, Begin, dbVars, gwVars
<1>5. published' \in Nat
  BY <1>4 DEF IInv, TypeOK
<1> QED
  BY <1>1, <1>3, <1>4, <1>5, RequestStep

(* A requery or a return-page sync reads the payment. *)
LEMMA RequeryStartSteps ==
    ASSUME IInv, NEW r \in Requests, NEW p \in Payments, RequeryStart(r, p) \/ SyncStart(r, p)
    PROVE  IInv'
<1> DEFINE q == [op |-> "requery", pay |-> p, saw |-> pay[p]]
<1>1. q \in Request
  BY DEF Request, IInv, TypeOK
<1>2. SawOK(p, pay[p])
  BY SawNow DEF RequeryStart, SyncStart
<1>3. RequestOK(q) /\ q.op # "gateway"
  BY <1>2 DEF RequestOK, RefundOps
<1>4. /\ req' = [req EXCEPT ![r] = q]
      /\ UNCHANGED <<demand, pay, seen, recent, refunds, gw, sent, returned, credits>>
      /\ published' = published
  BY DEF RequeryStart, SyncStart, Begin, dbVars, gwVars
<1>5. published' \in Nat
  BY <1>4 DEF IInv, TypeOK
<1> QED
  BY <1>1, <1>3, <1>4, <1>5, RequestStep

(* A refund is admitted: only a captured online payment passes the checks. *)
LEMMA RefundStartStep ==
    ASSUME IInv, NEW r \in Requests, NEW p \in Payments, NEW a \in RefundAmounts,
           RefundStart(r, p, a)
    PROVE  IInv'
<1> DEFINE q == [op |-> "refund", pay |-> p, saw |-> pay[p], amount |-> a]
<1>1. a \in Nat /\ q \in Request
  BY AmountsAssumption DEF Request, IInv, TypeOK
<1>2. Exists(p) /\ pay[p].mode = "ONLINE"
  BY DEF RefundStart, IInv, GatewayOK
<1>3. SawOK(p, pay[p])
  BY <1>2, SawNow
<1>4. pay[p].amount - pay[p].refundable <= refunds[p]
  BY DEF IInv, Safe, RefundBacked
<1>5. RequestOK(q) /\ q.op # "gateway"
  BY <1>3, <1>4 DEF RequestOK, RefundOps, RefundStart
<1>6. /\ req' = [req EXCEPT ![r] = q]
      /\ UNCHANGED <<demand, pay, seen, recent, refunds, gw, sent, returned, credits>>
      /\ published' = published
  BY DEF RefundStart, Begin, dbVars, gwVars
<1>7. published' \in Nat
  BY <1>6 DEF IInv, TypeOK
<1> QED
  BY <1>1, <1>5, <1>6, <1>7, RequestStep

(* What is summed up as paid is a natural number. *)
LEMMA SuccessPaymentsNat ==
    ASSUME IInv, NEW d \in Demands
    PROVE  SuccessPayments(d) \in Nat
<1> DEFINE S == {p \in Payments : pay[p].dem = d /\ pay[p].status = "SUCCESS"}
           f == [p \in Payments |-> pay[p].amount]
           Adds(g) == g = [s \in SUBSET S |->
                             IF s = {} THEN 0 ELSE pay[PickOf(s)].amount + g[s \ {PickOf(s)}]]
           sums == CHOOSE g : Adds(g)
<1>1. IsFiniteSet(S) /\ S \subseteq S
  BY PaymentsAssumption, FS_Subset
<1>2. \A p \in S : f[p] \in Nat
  BY DEF IInv, TypeOK, PaymentRow
<1>3. SuccessPayments(d) = sums[S]
  BY DEF SuccessPayments, MapThenSumSet, MapThenFoldSet, PickOf
<1>4. ASSUME NEW g PROVE Adds(g) <=> Sums(g, f, S)
  <2>1. \A s \in SUBSET S : s # {} => f[PickOf(s)] = pay[PickOf(s)].amount
    BY DEF PickOf
  <2> HIDE DEF f, S
  <2> QED
    BY <2>1 DEF Sums
<1>5. Sums(sums, f, S)
  <2>1. PICK g : Sums(g, f, S)
    BY <1>1, SumsExist
  <2>2. Adds(g)
    BY <1>4, <2>1
  <2> HIDE DEF Adds
  <2> QED
    BY <1>4, <2>2
<1> HIDE DEF f, S, sums
<1> QED
  BY <1>1, <1>2, <1>3, <1>5, SumIsThat, SumNat

(* A collection passes the first check; a publish has read what it needs.  *)
LEMMA OfflinePublishStartSteps ==
    ASSUME IInv, NEW r \in Requests, NEW d \in Demands,
           \/ \E a \in OfflineAmounts, k \in Keys \cup {NoKey} : OfflineStart(r, d, a, k)
           \/ \E t \in Totals : PublishStart(r, d, t)
    PROVE  IInv'
<1>1. ASSUME NEW a \in OfflineAmounts, NEW k \in Keys \cup {NoKey}, OfflineStart(r, d, a, k)
      PROVE  IInv'
  <2> DEFINE q == [op |-> "offline", dem |-> d, amount |-> a, key |-> k]
  <2>1. q \in Request /\ RequestOK(q) /\ q.op # "gateway"
    BY AmountsAssumption DEF Request, RequestOK, RefundOps
  <2>2. /\ req' = [req EXCEPT ![r] = q]
        /\ UNCHANGED <<demand, pay, seen, recent, refunds, gw, sent, returned, credits>>
        /\ published' = published
    BY <1>1 DEF OfflineStart, Begin, dbVars, gwVars
  <2>3. published' \in Nat
    BY <2>2 DEF IInv, TypeOK
  <2> QED
    BY <2>1, <2>2, <2>3, RequestStep
<1>2. ASSUME NEW t \in Totals, PublishStart(r, d, t)
      PROVE  IInv'
  <2> DEFINE q == [op |-> "publish", dem |-> d, existed |-> demand[d].status # "ABSENT",
                   total |-> t, paid |-> SuccessPayments(d)]
  <2>1. q \in Request /\ RequestOK(q) /\ q.op # "gateway"
    BY SuccessPaymentsNat, AmountsAssumption DEF Request, RequestOK, RefundOps
  <2>2. /\ req' = [req EXCEPT ![r] = q]
        /\ UNCHANGED <<demand, pay, seen, recent, refunds, gw, sent, returned, credits>>
        /\ published' = published + 1
    BY <1>2 DEF PublishStart, Begin, gwVars
  <2>3. published' \in Nat
    BY <2>2 DEF IInv, TypeOK
  <2> QED
    BY <2>1, <2>2, <2>3, RequestStep
<1> QED
  BY <1>1, <1>2

(* A payment row is created. *)
LEMMA CreatePaymentStep ==
    ASSUME IInv, NEW r \in Requests, NEW p \in Payments, CreatePayment(r, p)
    PROVE  IInv'
<1> DEFINE row == [status |-> "INITIATED", mode |-> "ONLINE", dem |-> req[r].dem,
                   amount |-> req[r].amount, refundable |-> req[r].amount,
                   linked |-> req[r].linked, atomTxn |-> FALSE, receipt |-> FALSE,
                   snapshot |-> FALSE, key |-> NoKey]
           q   == [op |-> "gateway", pay |-> p]
<1>1. /\ req[r].dem \in Demands /\ req[r].amount \in Nat /\ req[r].linked \in BOOLEAN
      /\ req[r].linked => demand[req[r].dem].status = "PUBLISHED"
  BY DEF IInv, TypeOK, Request, RequestsOK, RequestOK, CreatePayment
<1>2. row \in PaymentRow
  BY <1>1 DEF PaymentRow, PaymentStatus
<1>3. q \in Request
  BY DEF Request
<1>4. /\ pay' = [pay EXCEPT ![p] = row] /\ req' = [req EXCEPT ![r] = q]
      /\ demand' = demand /\ recent' \subseteq Payments /\ credits' = credits /\ ~Exists(p)
      /\ UNCHANGED <<seen, refunds, published, gw, sent, returned>>
  BY DEF IInv, TypeOK, CreatePayment, Become, gwVars
<1>5. DemandsMoved
  BY <1>4, DemandsStay
<1>6. refunds[p] \in Nat /\ credits \in [Payments -> Nat]
  BY DEF IInv, TypeOK
<1>7. RowOK(p, row, demand'[row.dem].status = "PUBLISHED")
  BY <1>1, <1>4, <1>6 DEF RowOK, Settled
<1>8. credits' \in [Payments -> Nat] /\ row.status # "NONE" /\ row.key = NoKey
      /\ q.op = "gateway" /\ q.pay = p /\ row.mode = "ONLINE"
  BY <1>4, <1>6
<1> HIDE DEF row, q
<1> QED
  BY <1>2, <1>3, <1>4, <1>5, <1>7, <1>8, FreshRow

(* The provider refuses: the payment, open at most, is FAILED. *)
LEMMA CheckoutRefusedStep ==
    ASSUME IInv, NEW r \in Requests, CheckoutRefused(r)
    PROVE  IInv'
<1> DEFINE p   == req[r].pay
           row == [pay[p] EXCEPT !.status = "FAILED"]
<1>1. p \in Payments /\ Exists(p) /\ pay[p].mode = "ONLINE"
  BY DEF IInv, TypeOK, Request, RequestsOK, RequestOK, CheckoutRefused
<1>2. pay[p] \in PaymentRow
  BY <1>1 DEF IInv, TypeOK
<1>3. row \in PaymentRow /\ RowKept(pay[p], row)
  BY <1>2 DEF PaymentRow, PaymentStatus, RowKept
<1>4. RowOK(p, row, demand[row.dem].status = "PUBLISHED")
  BY <1>1, <1>2 DEF PaymentRow, RowOK, Settled, IInv, Safe, GatewayOK, LinkedOK,
     SettledMoneyReceived, SuccessIsCredited, RefundBacked
<1>5. /\ pay' = [pay EXCEPT ![p] = row] /\ demand' = demand /\ Done(r)
      /\ seen' = seen /\ credits' = credits
      /\ UNCHANGED <<recent, refunds, published, gw, sent, returned>>
  BY DEF CheckoutRefused, gwVars
<1>6. DemandsMoved /\ seen' \in [Payments -> BOOLEAN] /\ credits' \in [Payments -> Nat]
  BY <1>5, DemandsStay DEF IInv, TypeOK
<1> HIDE DEF p, row
<1> QED
  BY <1>1, <1>3, <1>4, <1>5, <1>6, RowStep

(* The gateway's success is recorded, by a callback or by a requery. *)
LEMMA RecordSuccessRow ==
    ASSUME IInv, NEW p \in Payments, NEW saw \in PaymentRow, SawOK(p, saw), gw[p] = "paid",
           RecordSuccess(p, saw)
    PROVE  /\ DemandsMoved
           /\ credits' \in [Payments -> Nat]
           /\ \E row \in PaymentRow :
                /\ pay' = [pay EXCEPT ![p] = row]
                /\ RowKept(pay[p], row)
                /\ RowOK(p, row, demand'[row.dem].status = "PUBLISHED")
<1> DEFINE credit == FirstSuccess(saw) /\ Creditable(saw)
           row    == SucceededRow(pay[p], credit)
<1>1. pay[p] \in PaymentRow /\ saw.dem \in Demands /\ saw.amount \in Nat
      /\ credits \in [Payments -> Nat]
  BY DEF IInv, TypeOK, PaymentRow
<1>2. DemandsMoved /\ \A e \in Demands : demand'[e].status = demand[e].status
  <2>1. CASE credit
    BY <2>1, <1>1, DemandCredited DEF RecordSuccess
  <2>2. CASE ~credit
    BY <2>2, DemandsStay DEF RecordSuccess
  <2> QED
    BY <2>1, <2>2
<1>3. credits' \in [Payments -> Nat]
  <2>1. CASE credit
    BY <2>1, <1>1 DEF RecordSuccess
  <2>2. CASE ~credit
    BY <2>2, <1>1 DEF RecordSuccess
  <2> QED
    BY <2>1, <2>2
<1>4. credit \in BOOLEAN
  BY DEF FirstSuccess, Creditable
<1>5. /\ row.status = "SUCCESS" /\ row.atomTxn /\ row.receipt
      /\ row.snapshot = (pay[p].snapshot \/ credit) /\ row.linked = (pay[p].linked \/ credit)
      /\ row.mode = pay[p].mode /\ row.dem = pay[p].dem /\ row.amount = pay[p].amount
      /\ row.key = pay[p].key /\ row.refundable = pay[p].refundable
      /\ row \in PaymentRow
  <2> HIDE DEF credit
  <2> QED
    BY <1>1, <1>4 DEF SucceededRow, PaymentRow, PaymentStatus
<1>6. pay' = [pay EXCEPT ![p] = row]
  BY DEF RecordSuccess
<1>7. RowKept(pay[p], row)
  BY <1>5 DEF RowKept
<1>8. row.linked => demand'[row.dem].status = "PUBLISHED"
  <2>1. pay[p].linked => demand[pay[p].dem].status = "PUBLISHED"
    BY DEF IInv, LinkedOK
  <2>2. credit => demand[pay[p].dem].status = "PUBLISHED"
    BY DEF Creditable, SawOK
  <2> QED
    BY <1>1, <1>2, <1>5, <2>1, <2>2 DEF PaymentRow
<1>9. row.linked => row.snapshot
  <2>1. pay[p].linked => Creditable(saw)
    BY DEF IInv, LinkedOK, SawOK, Creditable
  <2>2. ~FirstSuccess(saw) => pay[p].snapshot \/ pay[p].receipt
    BY DEF FirstSuccess, SawOK, Settled
  <2>3. pay[p].receipt /\ pay[p].linked => pay[p].snapshot
    BY DEF IInv, Safe, SuccessIsCredited
  <2> QED
    BY <1>5, <2>1, <2>2, <2>3
<1>10. pay[p].amount - pay[p].refundable <= refunds[p]
  BY DEF IInv, Safe, RefundBacked
<1>11. RowOK(p, row, demand'[row.dem].status = "PUBLISHED")
  BY <1>5, <1>8, <1>9, <1>10 DEF RowOK, SawOK
<1> QED
  BY <1>2, <1>3, <1>5, <1>6, <1>7, <1>11

(* A status decided from the remembered row is written back. *)
LEMMA WriteBackRow ==
    ASSUME IInv, NEW p \in Payments, NEW saw \in PaymentRow, SawOK(p, saw),
           NEW status \in {saw.status, "FAILED"}, WriteBack(p, saw, status)
    PROVE  /\ DemandsMoved
           /\ credits' \in [Payments -> Nat]
           /\ \E row \in PaymentRow :
                /\ pay' = [pay EXCEPT ![p] = row]
                /\ RowKept(pay[p], row)
                /\ RowOK(p, row, demand'[row.dem].status = "PUBLISHED")
<1>1. pay[p] \in PaymentRow /\ credits \in [Payments -> Nat] /\ saw.atomTxn \in BOOLEAN
  BY DEF IInv, TypeOK, PaymentRow
<1> PICK atomTxn \in {saw.atomTxn, TRUE} :
       pay' = [pay EXCEPT ![p] = [@ EXCEPT !.status = status, !.atomTxn = atomTxn]]
  BY DEF WriteBack
<1> DEFINE row == [pay[p] EXCEPT !.status = status, !.atomTxn = atomTxn]
<1>2. row \in PaymentRow /\ RowKept(pay[p], row)
  BY <1>1 DEF PaymentRow, PaymentStatus, RowKept, SawOK
<1>3. /\ row.status \in Settled => gw[p] = "paid" /\ row.receipt
      /\ row.mode = "ONLINE"
  BY <1>1 DEF PaymentRow, SawOK, Settled
<1>4. /\ row.receipt = pay[p].receipt /\ row.snapshot = pay[p].snapshot
      /\ row.linked = pay[p].linked /\ row.dem = pay[p].dem
      /\ row.amount = pay[p].amount /\ row.refundable = pay[p].refundable
  BY <1>1 DEF PaymentRow
<1>5. demand' = demand /\ credits' = credits /\ pay' = [pay EXCEPT ![p] = row]
  BY DEF WriteBack
<1>6. RowOK(p, row, demand[row.dem].status = "PUBLISHED")
  <2>1. pay[p].receipt \/ pay[p].snapshot => gw[p] = "paid"
    BY DEF SawOK, IInv, Safe, SettledMoneyReceived
  <2>2. /\ pay[p].receipt /\ pay[p].linked => pay[p].snapshot
        /\ pay[p].linked => demand[pay[p].dem].status = "PUBLISHED"
        /\ pay[p].amount - pay[p].refundable <= refunds[p]
    BY DEF IInv, Safe, SuccessIsCredited, LinkedOK, RefundBacked
  <2> HIDE DEF row
  <2> QED
    BY <1>3, <1>4, <2>1, <2>2 DEF RowOK
<1>7. DemandsMoved
  BY <1>5, DemandsStay
<1> QED
  BY <1>1, <1>2, <1>5, <1>6, <1>7

(* A gateway report commits. *)
LEMMA CallbackCommitStep ==
    ASSUME IInv, NEW r \in Requests, CallbackCommit(r)
    PROVE  IInv'
<1> DEFINE p == req[r].pay
           saw == req[r].saw
<1>1. /\ p \in Payments /\ saw \in PaymentRow /\ SawOK(p, saw)
      /\ req[r].code = "OK" => gw[p] = "paid"
  BY DEF IInv, TypeOK, Request, RequestsOK, RequestOK, CallbackCommit
<1>2. /\ seen' \in [Payments -> BOOLEAN] /\ Done(r)
      /\ UNCHANGED <<recent, refunds, published, gw, sent, returned>>
  BY <1>1 DEF IInv, TypeOK, CallbackCommit, gwVars
<1>3. Exists(p) /\ pay[p].mode = "ONLINE"
  BY <1>1 DEF SawOK
<1>4. CASE req[r].code = "OK"
  <2>1. RecordSuccess(p, saw)
    BY <1>4 DEF CallbackCommit
  <2> HIDE DEF p, saw
  <2> QED
    BY <1>1, <1>2, <1>3, <1>4, <2>1, RecordSuccessRow, RowStep
<1>5. CASE req[r].code # "OK"
  <2> DEFINE status == StatusAfterReport(saw, req[r].code)
  <2>1. WriteBack(p, saw, status)
    BY <1>5 DEF CallbackCommit
  <2>2. status \in {saw.status, "FAILED"}
    BY DEF StatusAfterReport
  <2> HIDE DEF p, saw, status
  <2> QED
    BY <1>1, <1>2, <1>3, <2>1, <2>2, WriteBackRow, RowStep
<1> QED
  BY <1>4, <1>5

(* A requery commits, either way. *)
LEMMA RequerySteps ==
    ASSUME IInv, NEW r \in Requests, RequerySuccess(r) \/ RequeryUnsuccessful(r)
    PROVE  IInv'
<1> DEFINE p == req[r].pay
           saw == req[r].saw
<1>1. p \in Payments /\ saw \in PaymentRow /\ SawOK(p, saw)
  BY DEF IInv, TypeOK, Request, RequestsOK, RequestOK, RequerySuccess, RequeryUnsuccessful
<1>2. /\ seen' \in [Payments -> BOOLEAN] /\ Done(r)
      /\ UNCHANGED <<recent, refunds, published, gw, sent, returned>>
  BY DEF IInv, TypeOK, RequerySuccess, RequeryUnsuccessful, gwVars
<1>3. Exists(p) /\ pay[p].mode = "ONLINE"
  BY <1>1 DEF SawOK
<1>4. CASE RequerySuccess(r)
  <2>1. gw[p] = "paid" /\ RecordSuccess(p, saw)
    BY <1>4 DEF RequerySuccess
  <2> HIDE DEF p, saw
  <2> QED
    BY <1>1, <1>2, <1>3, <2>1, RecordSuccessRow, RowStep
<1>5. CASE RequeryUnsuccessful(r)
  <2>1. WriteBack(p, saw, saw.status)
    BY <1>5 DEF RequeryUnsuccessful
  <2> HIDE DEF p, saw
  <2> QED
    BY <1>1, <1>2, <1>3, <2>1, WriteBackRow, RowStep
<1> QED
  BY <1>4, <1>5

(* A refund is applied to the payment row. *)
LEMMA RefundApplyStep ==
    ASSUME IInv, NEW r \in Requests, RefundApply(r)
    PROVE  IInv'
<1> DEFINE q == req[r]
           p == q.pay
           remaining == q.saw.refundable - q.amount
           status == IF remaining <= 0 THEN "REFUNDED" ELSE "PARTIALLY_REFUNDED"
           row == [pay[p] EXCEPT !.refundable = remaining, !.status = status]
<1>1. /\ p \in Payments /\ q.saw \in PaymentRow /\ q.amount \in Nat
      /\ SawOK(p, q.saw) /\ q.saw.status = "SUCCESS" /\ q.amount <= q.saw.refundable
      /\ q.saw.amount - q.saw.refundable + q.amount <= refunds[p]
  BY DEF IInv, TypeOK, Request, RequestsOK, RequestOK, RefundOps, RefundApply
<1>2. pay[p] \in PaymentRow /\ refunds[p] \in Nat
  BY <1>1 DEF IInv, TypeOK
<1>3. remaining \in Nat /\ status \in {"REFUNDED", "PARTIALLY_REFUNDED"}
  BY <1>1 DEF PaymentRow
<1>4. pay' = [pay EXCEPT ![p] = row]
  BY DEF RefundApply
<1>5. /\ row \in PaymentRow
      /\ row.status = status /\ row.refundable = remaining
      /\ row.receipt = pay[p].receipt /\ row.snapshot = pay[p].snapshot
      /\ row.linked = pay[p].linked /\ row.dem = pay[p].dem /\ row.key = pay[p].key
      /\ row.amount = pay[p].amount /\ row.mode = pay[p].mode /\ row.atomTxn = pay[p].atomTxn
  <2> HIDE DEF remaining, status
  <2> QED
    BY <1>2, <1>3 DEF PaymentRow, PaymentStatus
<1>6. Exists(p) /\ pay[p].mode = "ONLINE" /\ gw[p] = "paid" /\ pay[p].receipt
  BY <1>1 DEF SawOK, Settled
<1>7. RowKept(pay[p], row)
  BY <1>3, <1>5 DEF RowKept
<1>8. pay[p].amount - remaining <= refunds[p]
  BY <1>1, <1>2 DEF SawOK, PaymentRow
<1>9. RowOK(p, row, demand[row.dem].status = "PUBLISHED")
  <2>1. /\ pay[p].receipt /\ pay[p].linked => pay[p].snapshot
        /\ pay[p].linked => demand[pay[p].dem].status = "PUBLISHED"
    BY <1>1 DEF IInv, Safe, SuccessIsCredited, LinkedOK
  <2> HIDE DEF row, remaining, status
  <2> QED
    BY <1>5, <1>6, <1>8, <2>1 DEF RowOK
<1>10. /\ demand' = demand /\ Done(r) /\ seen' \in [Payments -> BOOLEAN]
       /\ credits' \in [Payments -> Nat]
       /\ UNCHANGED <<recent, refunds, published, gw, sent, returned>>
  BY DEF RefundApply, gwVars, IInv, TypeOK
<1>11. DemandsMoved
  BY <1>10, DemandsStay
<1> HIDE DEF p, row
<1> QED
  BY <1>1, <1>4, <1>5, <1>6, <1>7, <1>9, <1>10, <1>11, RowStep

(* A counter collection commits. *)
LEMMA OfflineCommitStep ==
    ASSUME IInv, NEW r \in Requests, NEW p \in Payments, OfflineCommit(r, p)
    PROVE  IInv'
<1> DEFINE q == req[r]
           row == [status |-> "SUCCESS", mode |-> "OFFLINE", dem |-> q.dem,
                   amount |-> q.amount, refundable |-> q.amount, linked |-> TRUE,
                   atomTxn |-> FALSE, receipt |-> TRUE, snapshot |-> TRUE, key |-> q.key]
           z == [op |-> "idle"]
<1>1. q.dem \in Demands /\ q.amount \in Nat /\ q.key \in Keys \cup {NoKey}
  BY DEF IInv, TypeOK, Request, OfflineCommit
<1>2. row \in PaymentRow /\ z \in Request
  BY <1>1 DEF PaymentRow, PaymentStatus, Request
<1>3. /\ pay' = [pay EXCEPT ![p] = row] /\ req' = [req EXCEPT ![r] = z] /\ ~Exists(p)
      /\ demand' = [demand EXCEPT ![q.dem] = AfterPayment(@, q.amount)]
      /\ demand[q.dem].status = "PUBLISHED" /\ ~KeyUsed(q.key)
      /\ UNCHANGED <<seen, recent, refunds, published, gw, sent, returned>>
  BY DEF OfflineCommit, Done, gwVars
<1>4. DemandsMoved /\ demand'[q.dem].status = "PUBLISHED"
  BY <1>1, <1>3, DemandCredited
<1>5. recent' \subseteq Payments /\ credits' \in [Payments -> Nat]
  BY DEF OfflineCommit, IInv, TypeOK
<1>6. /\ row.status = "SUCCESS" /\ row.mode = "OFFLINE" /\ row.receipt /\ row.snapshot
      /\ ~row.atomTxn /\ row.amount = row.refundable /\ row.dem = q.dem /\ row.key = q.key
      /\ z.op = "idle"
  OBVIOUS
<1> HIDE DEF row, z
<1> QED
  BY <1>2, <1>3, <1>4, <1>5, <1>6, FreshRow

(* Requests survive a step that settles nothing against them: payments     *)
(* keep identity, receipt and snapshot, the gateway forgets no payment,    *)
(* refunds only grow and demands stay published.                           *)
LEMMA RequestsKept ==
    ASSUME IInv,
           \A x \in Payments : Exists(x) => RowKept(pay[x], pay'[x]),
           \A x \in Payments : gw[x] = "paid" => gw'[x] = "paid",
           \A x \in Payments : refunds'[x] \in Nat /\ refunds[x] <= refunds'[x],
           \A d \in Demands : demand[d].status = "PUBLISHED" => demand'[d].status = "PUBLISHED",
           NEW s \in Requests, req'[s] = req[s],
           req[s].op = "gateway" => gw'[req[s].pay] = gw[req[s].pay]
    PROVE  RequestOK(req[s])'
<1> DEFINE q == req[s]
<1>1. q \in Request /\ RequestOK(q)
  BY DEF IInv, TypeOK, RequestsOK
<1>2. q.op = "online" => (q.linked => demand'[q.dem].status = "PUBLISHED")
  BY <1>1 DEF RequestOK, Request
<1>3. q.op = "gateway" => /\ Exists(q.pay)' /\ pay'[q.pay].mode = "ONLINE"
                          /\ gw'[q.pay] = "none"
  BY <1>1 DEF RequestOK, Request, Exists, RowKept
<1>4. q.op \in {"callback", "requery"} \cup RefundOps =>
        /\ q.pay \in Payments /\ SawOK(q.pay, q.saw)
        /\ q.saw \in PaymentRow
  BY <1>1 DEF Request, RequestOK, RefundOps
<1>5. q.op \in {"callback", "requery"} \cup RefundOps => SawOK(q.pay, q.saw)'
  BY <1>4 DEF SawOK, RowKept, Exists
<1>6. q.op = "callback" => (q.code = "OK" => gw'[q.pay] = "paid")
  BY <1>1, <1>4 DEF RequestOK
<1>7. q.op \in RefundOps =>
        /\ q.amount \in Nat /\ q.saw.amount \in Nat /\ q.saw.refundable \in Nat
        /\ refunds[q.pay] \in Nat
  BY <1>1, <1>4 DEF Request, RefundOps, PaymentRow, IInv, TypeOK
<1>8. q.op \in RefundOps => q.saw.amount - q.saw.refundable <= refunds'[q.pay]
  BY <1>1, <1>4, <1>7 DEF RequestOK
<1>9. q.op = "refundApply" =>
        q.saw.amount - q.saw.refundable + q.amount <= refunds'[q.pay]
  BY <1>1, <1>4, <1>7 DEF RequestOK, RefundOps
<1> QED
  BY <1>1, <1>2, <1>3, <1>5, <1>6, <1>8, <1>9 DEF RequestOK, RefundOps

(* The provider issues a token: the order is open at the gateway. *)
LEMMA CheckoutIssuedStep ==
    ASSUME IInv, NEW r \in Requests, CheckoutIssued(r)
    PROVE  IInv'
<1> DEFINE p   == req[r].pay
           row == [pay[p] EXCEPT !.status = "PENDING"]
<1>1. p \in Payments /\ Exists(p) /\ pay[p].mode = "ONLINE" /\ gw[p] = "none"
  BY DEF IInv, TypeOK, Request, RequestsOK, RequestOK, CheckoutIssued
<1>2. pay[p] \in PaymentRow
  BY <1>1 DEF IInv, TypeOK
<1>3. row \in PaymentRow /\ RowKept(pay[p], row) /\ row.status = "PENDING"
      /\ row.linked = pay[p].linked /\ row.dem = pay[p].dem /\ row.atomTxn = pay[p].atomTxn
      /\ row.refundable = pay[p].refundable /\ row.amount = pay[p].amount
      /\ row.receipt = pay[p].receipt /\ row.snapshot = pay[p].snapshot
  BY <1>2 DEF PaymentRow, PaymentStatus, RowKept
<1>4. /\ pay' = [pay EXCEPT ![p] = row] /\ gw' = [gw EXCEPT ![p] = "open"] /\ Done(r)
      /\ UNCHANGED <<demand, seen, recent, refunds, published, sent, returned, credits>>
  BY DEF CheckoutIssued
<1> HIDE DEF row
<1>5. \A x \in Payments : pay'[x] = IF x = p THEN row ELSE pay[x]
  BY <1>4 DEF IInv, TypeOK
<1>6. \A x \in Payments : gw'[x] = IF x = p THEN "open" ELSE gw[x]
  BY <1>4 DEF IInv, TypeOK
<1>7. \A s \in Requests : req'[s] = IF s = r THEN [op |-> "idle"] ELSE req[s]
  BY <1>4 DEF IInv, TypeOK, Done
<1>8. TypeOK'
  BY <1>3, <1>4 DEF IInv, TypeOK, Done, Request
<1>9. ~pay[p].receipt /\ ~pay[p].snapshot
  BY <1>1 DEF IInv, Safe, SettledMoneyReceived
<1>10. GatewayOK'
  BY <1>1, <1>3, <1>4, <1>5, <1>6, <1>9 DEF IInv, GatewayOK, Exists, RowKept
<1>11. LinkedOK'
  BY <1>3, <1>4, <1>5 DEF IInv, LinkedOK
<1>12. RequestsOK'
  <2>1. ASSUME NEW s \in Requests, s # r PROVE RequestOK(req[s])'
    <3>1. /\ req'[s] = req[s]
          /\ req[s].op = "gateway" => req[s].pay \in Payments /\ req[s].pay # p
      BY <2>1, <1>7 DEF IInv, TypeOK, Request, SoleCheckout, CheckoutIssued
    <3>2. \A x \in Payments : Exists(x) => RowKept(pay[x], pay'[x])
      BY <1>3, <1>5 DEF RowKept, Exists
    <3>3. \A x \in Payments : /\ gw[x] = "paid" => gw'[x] = "paid"
                             /\ refunds'[x] \in Nat /\ refunds[x] <= refunds'[x]
      BY <1>1, <1>4, <1>6 DEF IInv, TypeOK
    <3> QED
      BY <1>4, <1>6, <3>1, <3>2, <3>3, RequestsKept
  <2>2. RequestOK(req[r])'
    BY <1>7 DEF RequestOK, RefundOps
  <2> QED
    BY <2>1, <2>2 DEF RequestsOK
<1>13. SoleCheckout'
  BY <1>7 DEF IInv, SoleCheckout
<1>14. Safe'
  <2>1. BalanceConsistent' /\ SettledMoneyReceived' /\ SettledHasReceipt'
    BY <1>3, <1>4, <1>5, <1>6, <1>9 DEF IInv, Safe, BalanceConsistent, SettledMoneyReceived,
       SettledHasReceipt, Settled
  <2>2. SuccessIsCredited' /\ KeyCollectsOnce' /\ RefundBacked'
    BY <1>1, <1>3, <1>4, <1>5, <1>9 DEF IInv, Safe, SuccessIsCredited, KeyCollectsOnce,
       RefundBacked, RowKept, Exists
  <2> QED
    BY <2>1, <2>2 DEF Safe
<1> QED
  BY <1>8, <1>10, <1>11, <1>12, <1>13, <1>14 DEF IInv

(* The gateway takes money or declines; the fifteen-minute window passes.  *)
LEMMA OutsideSteps ==
    ASSUME IInv, NEW p \in Payments,
           \/ WindowExpires(p) \/ GatewayPaid(p)
           \/ \E code \in DeclineCodes : GatewayDeclined(p, code)
    PROVE  IInv'
<1>1. /\ UNCHANGED <<demand, pay, seen, refunds, published, returned, credits, req>>
      /\ recent' \subseteq Payments
  BY DEF WindowExpires, GatewayPaid, GatewayDeclined, dbVars, gwVars, IInv, TypeOK
<1> DEFINE GatewayMoves ==
      /\ gw' \in [Payments -> {"none", "open", "paid"}] /\ sent' \in [Payments -> SUBSET Codes]
      /\ \A x \in Payments : /\ gw[x] = "paid" => gw'[x] = "paid"
                             /\ gw[x] = "none" => gw'[x] = "none"
                             /\ gw'[x] = "none" => gw[x] = "none"
                             /\ sent'[x] # {} => gw'[x] # "none"
                             /\ "OK" \in sent'[x] => gw'[x] = "paid"
<1>2. GatewayMoves
  <2>0. /\ gw \in [Payments -> {"none", "open", "paid"}] /\ sent \in [Payments -> SUBSET Codes]
        /\ \A x \in Payments : /\ sent[x] # {} => gw[x] # "none"
                               /\ "OK" \in sent[x] => gw[x] = "paid"
    BY DEF IInv, TypeOK, GatewayOK
  <2>1. CASE WindowExpires(p)
    <3>1. gw' = gw /\ sent' = sent
      BY <2>1 DEF WindowExpires, gwVars
    <3> QED
      BY <2>0, <3>1
  <2>2. CASE GatewayPaid(p)
    <3>1. /\ \A x \in Payments : gw'[x] = IF x = p THEN "paid" ELSE gw[x]
          /\ \A x \in Payments : sent'[x] = IF x = p THEN sent[p] \cup {"OK"} ELSE sent[x]
          /\ gw[p] = "open" /\ gw' \in [Payments -> {"none", "open", "paid"}]
          /\ sent' \in [Payments -> SUBSET Codes]
      BY <2>0, <2>2 DEF GatewayPaid, Codes
    <3> QED
      BY <2>0, <3>1
  <2>3. ASSUME NEW code \in DeclineCodes, GatewayDeclined(p, code)
        PROVE  GatewayMoves
    <3>1. code \in Codes /\ code # "OK"
      BY CodesAssumption DEF Codes
    <3>2. /\ gw' = gw /\ gw[p] = "open"
          /\ \A x \in Payments : sent'[x] = IF x = p THEN sent[p] \cup {code} ELSE sent[x]
          /\ sent' \in [Payments -> SUBSET Codes]
      BY <2>0, <2>3, <3>1 DEF GatewayDeclined
    <3> QED
      BY <2>0, <3>1, <3>2
  <2> QED
    BY <2>1, <2>2, <2>3
<1>3. TypeOK'
  BY <1>1, <1>2 DEF IInv, TypeOK
<1>4. GatewayOK' /\ LinkedOK'
  BY <1>1, <1>2 DEF IInv, GatewayOK, LinkedOK, Exists
<1>5. RequestsOK'
  <2>1. ASSUME NEW s \in Requests PROVE RequestOK(req[s])'
    <3>1. req[s].op = "gateway" => req[s].pay \in Payments /\ gw[req[s].pay] = "none"
      BY DEF IInv, TypeOK, Request, RequestsOK, RequestOK
    <3>2. \A x \in Payments : Exists(x) => RowKept(pay[x], pay'[x])
      BY <1>1 DEF RowKept, Exists
    <3>3. \A x \in Payments : refunds'[x] \in Nat /\ refunds[x] <= refunds'[x]
      BY <1>1 DEF IInv, TypeOK
    <3> QED
      BY <1>1, <1>2, <3>1, <3>2, <3>3, RequestsKept
  <2> QED
    BY <2>1 DEF RequestsOK
<1>6. SoleCheckout'
  BY <1>1 DEF IInv, SoleCheckout
<1>7. Safe'
  BY <1>1, <1>2 DEF IInv, Safe, BalanceConsistent, SettledMoneyReceived, SettledHasReceipt,
     SuccessIsCredited, KeyCollectsOnce, RefundBacked, Exists
<1> QED
  BY <1>3, <1>4, <1>5, <1>6, <1>7 DEF IInv

(* The gateway gives money back, or a refund row is written for money it   *)
(* gave back: refunds only grow, and the request moves on.                 *)
LEMMA RefundMoneySteps ==
    ASSUME IInv, NEW r \in Requests, RefundAccepted(r) \/ RefundRecord(r)
    PROVE  IInv'
<1> DEFINE p == req[r].pay
<1>1. /\ p \in Payments /\ req[r].saw \in PaymentRow /\ req[r].amount \in Nat
      /\ req[r].op \in {"refund", "refundRecord"} /\ RequestOK(req[r])
      /\ req[r] \in [op: RefundOps, pay: Payments, saw: PaymentRow, amount: Nat]
      /\ refunds \in [Payments -> Nat] /\ returned \in [Payments -> Nat]
  BY DEF IInv, TypeOK, Request, RequestsOK, RefundAccepted, RefundRecord, RefundOps
<1>2. /\ UNCHANGED <<demand, pay, seen, recent, published, gw, sent, credits>>
      /\ returned' \in [Payments -> Nat]
  BY <1>1 DEF RefundAccepted, RefundRecord, dbVars, gwVars
<1>3. \/ /\ refunds' = refunds /\ req' = [req EXCEPT ![r] = [req[r] EXCEPT !.op = "refundRecord"]]
      \/ /\ refunds' = [refunds EXCEPT ![p] = @ + req[r].amount]
         /\ req' = [req EXCEPT ![r] = [req[r] EXCEPT !.op = "refundApply"]]
  BY DEF RefundAccepted, RefundRecord, Become, dbVars
<1>4. refunds' \in [Payments -> Nat] /\ \A x \in Payments : refunds[x] <= refunds'[x]
  <2> HIDE DEF p
  <2>1. \A x \in Payments : /\ refunds[x] \in Nat
                            /\ refunds'[x] = refunds[x] \/ refunds'[x] = refunds[x] + req[r].amount
    BY <1>1, <1>3
  <2>2. refunds' \in [Payments -> Nat]
    BY <1>1, <1>3
  <2> QED
    BY <1>1, <2>1, <2>2
<1>5. PICK op \in {"refundRecord", "refundApply"} :
        /\ req' = [req EXCEPT ![r] = [req[r] EXCEPT !.op = op]]
        /\ op = "refundApply" => refunds'[p] = refunds[p] + req[r].amount
  BY <1>1, <1>3
<1> DEFINE q == [req[r] EXCEPT !.op = op]
<1>6. /\ q \in [op: RefundOps, pay: Payments, saw: PaymentRow, amount: Nat]
      /\ q.op = op /\ q.pay = p /\ q.saw = req[r].saw /\ q.amount = req[r].amount
  BY <1>1 DEF RefundOps
<1>7. q \in Request
  BY <1>6 DEF Request, RefundOps
<1>8. \A s \in Requests : req'[s] = IF s = r THEN q ELSE req[s]
  BY <1>5 DEF IInv, TypeOK
<1> HIDE DEF q
<1>9. TypeOK'
  <2>1. req' \in [Requests -> Request]
    BY <1>5, <1>7 DEF IInv, TypeOK, q
  <2> QED
    BY <1>2, <1>4, <2>1 DEF IInv, TypeOK
<1>10. GatewayOK' /\ LinkedOK'
  BY <1>2 DEF IInv, GatewayOK, LinkedOK, Exists
<1>11. RequestsOK'
  <2>1. ASSUME NEW s \in Requests, s # r PROVE RequestOK(req[s])'
    <3>1. \A x \in Payments : Exists(x) => RowKept(pay[x], pay'[x])
      BY <1>2 DEF RowKept, Exists
    <3> QED
      BY <1>2, <1>4, <1>8, <2>1, <3>1, RequestsKept
  <2>2. RequestOK(req[r])'
    <3>1. /\ SawOK(p, q.saw) /\ q.saw.status = "SUCCESS" /\ q.amount <= q.saw.refundable
          /\ q.saw.amount - q.saw.refundable <= refunds[p]
      BY <1>1, <1>6 DEF RequestOK, RefundOps
    <3>2. \A x, w : SawOK(x, w)' = SawOK(x, w)
      BY <1>2 DEF SawOK, Exists
    <3>3. q.saw.amount \in Nat /\ q.saw.refundable \in Nat /\ q.amount \in Nat
          /\ refunds[p] \in Nat /\ refunds'[p] \in Nat /\ refunds[p] <= refunds'[p]
      BY <1>1, <1>4, <1>6 DEF PaymentRow
    <3>4. q.saw.amount - q.saw.refundable <= refunds'[p]
      BY <3>1, <3>3
    <3>5. q.op = "refundApply" => q.saw.amount - q.saw.refundable + q.amount <= refunds'[p]
      BY <1>5, <1>6, <3>1, <3>3
    <3>6. req'[r] = q
      BY <1>8
    <3> QED
      BY <1>5, <1>6, <3>1, <3>2, <3>4, <3>5, <3>6 DEF RequestOK, RefundOps
  <2> QED
    BY <2>1, <2>2 DEF RequestsOK
<1>12. SoleCheckout'
  BY <1>6, <1>8 DEF IInv, SoleCheckout, RefundOps
<1>13. Safe'
  <2>1. RefundBacked'
    <3>1. \A x \in Payments : /\ pay[x].amount \in Nat /\ pay[x].refundable \in Nat
                              /\ refunds[x] \in Nat /\ refunds'[x] \in Nat
                              /\ pay[x].amount - pay[x].refundable <= refunds[x]
      BY <1>4 DEF IInv, TypeOK, PaymentRow, Safe, RefundBacked
    <3> QED
      BY <1>2, <1>4, <3>1 DEF RefundBacked
  <2> QED
    BY <1>2, <2>1 DEF IInv, Safe, BalanceConsistent, SettledMoneyReceived, SettledHasReceipt,
       SuccessIsCredited, KeyCollectsOnce, Exists
<1> QED
  BY <1>9, <1>10, <1>11, <1>12, <1>13 DEF IInv

(* A publish writes the demand row over whatever it holds.                 *)
LEMMA PublishWriteStep ==
    ASSUME IInv, NEW r \in Requests, PublishWrite(r)
    PROVE  IInv'
<1> DEFINE d   == req[r].dem
           row == [status |-> "PUBLISHED", total |-> req[r].total, paid |-> req[r].paid,
                   outstanding |-> Outstanding(req[r].total, req[r].paid)]
<1>1. d \in Demands /\ req[r].total \in Nat /\ req[r].paid \in Nat
  BY DEF IInv, TypeOK, Request, PublishWrite
<1>2. Outstanding(req[r].total, req[r].paid) \in Nat
  BY <1>1, OutstandingNat
<1>3. /\ row \in DemandRow /\ row.status = "PUBLISHED"
      /\ row.outstanding = Outstanding(row.total, row.paid)
  <2> DEFINE o == Outstanding(req[r].total, req[r].paid)
  <2>1. row = [status |-> "PUBLISHED", total |-> req[r].total, paid |-> req[r].paid,
               outstanding |-> o]
    OBVIOUS
  <2> HIDE DEF o
  <2>2. row \in DemandRow
    BY <1>1, <1>2, <2>1 DEF DemandRow, o
  <2> QED
    BY <2>1, <2>2 DEF o
<1>4. /\ demand' = [demand EXCEPT ![d] = row]
      /\ UNCHANGED <<pay, seen, recent, refunds, published, gw, sent, returned>>
      /\ Done(r)
  BY DEF PublishWrite, gwVars
<1>5. credits' \in [Payments -> Nat]
  BY DEF PublishWrite, IInv, TypeOK
<1> HIDE DEF d, row
<1>6. \A e \in Demands : demand'[e] = IF e = d THEN row ELSE demand[e]
  BY <1>4 DEF IInv, TypeOK
<1>7. DemandsMoved
  <2>1. demand' \in [Demands -> DemandRow]
    BY <1>1, <1>3, <1>4 DEF IInv, TypeOK
  <2>2. BalanceConsistent'
    BY <1>3, <1>6 DEF IInv, Safe, BalanceConsistent
  <2>3. \A e \in Demands : demand[e].status = "PUBLISHED" => demand'[e].status = "PUBLISHED"
    BY <1>3, <1>6
  <2> QED
    BY <2>1, <2>2, <2>3 DEF DemandsMoved
<1>8. \A s \in Requests : req'[s] = IF s = r THEN [op |-> "idle"] ELSE req[s]
  BY <1>4 DEF IInv, TypeOK, Done
<1>9. TypeOK'
  <2>1. req' \in [Requests -> Request]
    BY <1>4 DEF IInv, TypeOK, Done, Request
  <2> QED
    BY <1>4, <1>5, <1>7, <2>1 DEF IInv, TypeOK, DemandsMoved
<1>10. GatewayOK' /\ LinkedOK'
  BY <1>4, <1>7 DEF IInv, TypeOK, PaymentRow, GatewayOK, LinkedOK, Exists, DemandsMoved
<1>11. RequestsOK'
  <2>1. ASSUME NEW s \in Requests, s # r PROVE RequestOK(req[s])'
    <3>1. \A x \in Payments : Exists(x) => RowKept(pay[x], pay'[x])
      BY <1>4 DEF RowKept, Exists
    <3>2. \A x \in Payments : refunds'[x] \in Nat /\ refunds[x] <= refunds'[x]
      BY <1>4 DEF IInv, TypeOK
    <3> QED
      BY <1>4, <1>7, <1>8, <2>1, <3>1, <3>2, RequestsKept DEF DemandsMoved
  <2>2. RequestOK(req[r])'
    BY <1>8 DEF RequestOK, RefundOps
  <2> QED
    BY <2>1, <2>2 DEF RequestsOK
<1>12. SoleCheckout'
  BY <1>8 DEF IInv, SoleCheckout
<1>13. Safe'
  BY <1>4, <1>7 DEF IInv, Safe, DemandsMoved, SettledMoneyReceived, SettledHasReceipt,
     SuccessIsCredited, KeyCollectsOnce, RefundBacked, Exists
<1> QED
  BY <1>9, <1>10, <1>11, <1>12, <1>13 DEF IInv

-----------------------------------------------------------------------------
(* The theorems *)

(* Every step, and stuttering, keeps the invariant. *)
LEMMA NextIInv == IInv /\ [Next]_vars => IInv'
<1> SUFFICES ASSUME IInv, [Next]_vars PROVE IInv'
  OBVIOUS
<1>1. ASSUME NEW r \in Requests, Creation(r) PROVE IInv'
  BY <1>1, AskSteps, CreatePaymentStep, CheckoutRefusedStep, CheckoutIssuedStep DEF Creation
<1>2. ASSUME NEW r \in Requests, Report(r) PROVE IInv'
  BY <1>2, CallbackStartStep, CallbackCommitStep, EndSteps DEF Report
<1>3. ASSUME NEW r \in Requests, Requery(r) PROVE IInv'
  BY <1>3, RequeryStartSteps, RequerySteps DEF Requery
<1>4. ASSUME NEW r \in Requests, Refund(r) PROVE IInv'
  BY <1>4, RefundStartStep, RefundMoneySteps, EndSteps, RefundApplyStep DEF Refund
<1>5. ASSUME NEW r \in Requests, Offline(r) PROVE IInv'
  BY <1>5, OfflinePublishStartSteps, OfflineCommitStep, EndSteps DEF Offline
<1>6. ASSUME NEW r \in Requests, Publish(r) PROVE IInv'
  BY <1>6, OfflinePublishStartSteps, PublishWriteStep, EndSteps DEF Publish
<1>7. ASSUME NEW r \in Requests, Crash(r) PROVE IInv'
  BY <1>7, EndSteps
<1>8. CASE Environment
  BY <1>8, OutsideSteps DEF Environment
<1>9. CASE UNCHANGED vars
  <2>1. UNCHANGED <<demand, pay, seen, recent, refunds, published, gw, sent, returned,
                    credits, req>>
    BY <1>9 DEF vars, dbVars, gwVars
  <2>2. TypeOK' /\ GatewayOK' /\ LinkedOK' /\ SoleCheckout'
    BY <2>1 DEF IInv, TypeOK, GatewayOK, LinkedOK, SoleCheckout, Exists
  <2>3. RequestsOK'
    BY <2>1 DEF IInv, RequestsOK, RequestOK, SawOK, Exists
  <2>4. Safe'
    BY <2>1 DEF IInv, Safe, BalanceConsistent, SettledMoneyReceived, SettledHasReceipt,
       SuccessIsCredited, KeyCollectsOnce, RefundBacked, Exists
  <2> QED
    BY <2>2, <2>3, <2>4 DEF IInv
<1> QED
  BY <1>1, <1>2, <1>3, <1>4, <1>5, <1>6, <1>7, <1>8, <1>9 DEF Next

(* The inductive invariant holds in every reachable state. *)
THEOREM Invariance == Spec => []IInv
<1>1. Init => IInv
  BY InitIInv
<1>2. IInv /\ [Next]_vars => IInv'
  BY NextIInv
<1> QED
  BY <1>1, <1>2, PTL DEF Spec

(* Tables, gateway records and requests in flight keep their types: in     *)
(* particular no refund, of any amount, makes a refundable balance         *)
(* negative (refund's check against the row it read).                      *)
THEOREM TypeCorrect == Spec => []TypeOK
<1>1. IInv => TypeOK
  BY DEF IInv
<1> QED
  BY <1>1, Invariance, PTL

(* A demand's outstanding amount is always its total less what is paid,    *)
(* floored at zero, whoever wrote the row last.                            *)
THEOREM BalancesConsistent == Spec => []BalanceConsistent
<1>1. IInv => BalanceConsistent
  BY DEF IInv, Safe
<1> QED
  BY <1>1, Invariance, PTL

(* No receipt and no settled status without the gateway's money, for any   *)
(* overlap of reports, requeries, refunds and crashes.                     *)
THEOREM NoReceiptWithoutMoney == Spec => []SettledMoneyReceived
<1>1. IInv => SettledMoneyReceived
  BY DEF IInv, Safe
<1> QED
  BY <1>1, Invariance, PTL

(* A payment shown as paid or refunded has a receipt number. *)
THEOREM ReceiptForSettled == Spec => []SettledHasReceipt
<1>1. IInv => SettledHasReceipt
  BY DEF IInv, Safe
<1> QED
  BY <1>1, Invariance, PTL

(* A confirmed payment that carries a demand's id was credited to it,      *)
(* whatever order the reports came in.                                     *)
THEOREM SuccessCredited == Spec => []SuccessIsCredited
<1>1. IInv => SuccessIsCredited
  BY DEF IInv, Safe
<1> QED
  BY <1>1, Invariance, PTL

(* A client idempotency key collects at most once. *)
THEOREM KeysCollectOnce == Spec => []KeyCollectsOnce
<1>1. IInv => KeyCollectsOnce
  BY DEF IInv, Safe
<1> QED
  BY <1>1, Invariance, PTL

(* The refundable balance shrinks only by what refund rows record. *)
THEOREM RefundsBacked == Spec => []RefundBacked
<1>1. IInv => RefundBacked
  BY DEF IInv, Safe
<1> QED
  BY <1>1, Invariance, PTL

(* Only the counter's transaction creates an OFFLINE row: every other step *)
(* leaves the payments alone, rewrites a row that exists or creates an     *)
(* ONLINE one.                                                             *)
LEMMA OnlyCounterCollects ==
    ASSUME IInv, [Next]_vars, NEW p \in Payments,
           ~Exists(p), Exists(p)', pay'[p].mode = "OFFLINE"
    PROVE  \E r \in Requests : OfflineCommit(r, p)
<1>1. pay \in [Payments -> PaymentRow]
  BY DEF IInv, TypeOK
<1>2. pay' # pay
  BY DEF Exists
<1>3. \A x \in Payments : \A row :
        pay' = [pay EXCEPT ![x] = row] /\ x # p => Exists(p)' = Exists(p)
  BY <1>1 DEF Exists
<1>4. ~Environment /\ ~UNCHANGED vars
  BY <1>2 DEF Environment, WindowExpires, GatewayPaid, GatewayDeclined, dbVars, vars
<1>5. PICK r \in Requests : \/ Creation(r) \/ Report(r) \/ Requery(r) \/ Refund(r)
                            \/ Offline(r) \/ Publish(r) \/ Crash(r)
  BY <1>4 DEF Next
<1>6. /\ req[r].op \in {"gateway", "callback", "requery", "refundApply"}
           => req[r].pay \in Payments /\ Exists(req[r].pay)
  BY DEF IInv, TypeOK, Request, RequestsOK, RequestOK, RefundOps, SawOK
<1>7. ~(\E x \in Payments : CreatePayment(r, x))
  <2> SUFFICES ASSUME NEW x \in Payments, CreatePayment(r, x) PROVE FALSE
    OBVIOUS
  <2>1. x = p
    BY <1>3 DEF CreatePayment
  <2> QED
    BY <1>1, <2>1 DEF CreatePayment
<1>8. ~Creation(r)
  BY <1>2, <1>3, <1>6, <1>7
     DEF Creation, StaffOnline, CitizenOnline, CheckoutRefused, CheckoutIssued, dbVars
<1>9. ~Report(r) /\ ~Requery(r)
  BY <1>2, <1>3, <1>6
     DEF Report, CallbackStart, CallbackCommit, CallbackConflict, Requery, RequeryStart, SyncStart,
         RequerySuccess, RequeryUnsuccessful, RecordSuccess, WriteBack, dbVars
<1>10. ~Refund(r)
  BY <1>2, <1>3, <1>6
     DEF Refund, RefundStart, RefundAccepted, RefundRefused, RefundRecord, RefundApply, dbVars
<1>11. ~Publish(r) /\ ~Crash(r)
  BY <1>2 DEF Publish, PublishStart, PublishWrite, PublishConflict, Crash, dbVars
<1>12. PICK x \in Payments : OfflineCommit(r, x)
  BY <1>2, <1>5, <1>8, <1>9, <1>10, <1>11 DEF Offline, OfflineStart, OfflineRejected, dbVars
<1>13. x = p
  BY <1>3, <1>12 DEF OfflineCommit
<1> QED
  BY <1>12, <1>13

(* A collection made in the locked transaction fits what is due. *)
LEMMA CollectionStep == IInv /\ [Next]_vars => CollectionFits
<1> SUFFICES ASSUME IInv, [Next]_vars, NEW p \in Payments,
                    ~Exists(p), Exists(p)', pay'[p].mode = "OFFLINE"
             PROVE  demand'[pay'[p].dem].paid <= demand'[pay'[p].dem].total
  BY DEF CollectionFits
<1>1. PICK r \in Requests : OfflineCommit(r, p)
  BY OnlyCounterCollects
<1> DEFINE d == req[r].dem
           a == req[r].amount
<1>2. d \in Demands /\ a \in Nat /\ demand[d] \in DemandRow
  BY <1>1 DEF IInv, TypeOK, Request, OfflineCommit
<1>3. pay'[p].dem = d
  BY <1>1 DEF OfflineCommit, IInv, TypeOK
<1>4. demand'[d] = AfterPayment(demand[d], a)
  BY <1>1, <1>2 DEF OfflineCommit, IInv, TypeOK
<1>5. demand[d].outstanding > 0 /\ a <= demand[d].outstanding
  BY <1>1 DEF OfflineCommit, WithinOutstanding
<1>6. demand[d].outstanding = Outstanding(demand[d].total, demand[d].paid)
  BY <1>2 DEF IInv, Safe, BalanceConsistent
<1>7. demand[d].total \in Nat /\ demand[d].paid \in Nat
  BY <1>2 DEF DemandRow
<1>8. demand[d].paid + a <= demand[d].total
  BY <1>2, <1>5, <1>6, <1>7 DEF Outstanding
<1> HIDE DEF d, a
<1> QED
  BY <1>2, <1>3, <1>4, <1>8, AfterPaymentRow

(* However many cashiers and online payers work on one demand, a counter   *)
(* collection never takes it beyond its total.                             *)
THEOREM CollectionsFit == Spec => OfflineWithinDues
<1>1. IInv /\ [Next]_vars => [CollectionFits]_vars
  BY CollectionStep
<1> QED
  BY <1>1, Invariance, PTL DEF Spec, OfflineWithinDues

-----------------------------------------------------------------------------
(* The ledger                                                              *)
(*                                                                         *)
(* LedgerComplete adds up over the payments of a demand; a step moves one  *)
(* payment between demands or adds one credit to it.  So the sum is taken  *)
(* over all payments, those of other demands weighing nothing.             *)

Weight(d) == [p \in Payments |-> IF pay[p].dem = d THEN credits[p] * pay[p].amount ELSE 0]

Ledger == \A d \in Demands : demand[d].paid >= SumOver(Weight(d), Payments)

(* An id no row uses has no credit to take with it. *)
UnusedUncredited == \A p \in Payments : ~Exists(p) => credits[p] = 0

LInv == Ledger /\ UnusedUncredited

LEMMA ProductNat == ASSUME NEW a \in Nat, NEW c \in Nat PROVE c * a \in Nat
OBVIOUS

WeightsNatural == \A d \in Demands : \A p \in Payments : Weight(d)[p] \in Nat

LEMMA WeightNat == IInv => WeightsNatural
<1> SUFFICES ASSUME IInv, NEW d \in Demands, NEW p \in Payments PROVE Weight(d)[p] \in Nat
  BY DEF WeightsNatural
<1>1. credits[p] \in Nat /\ pay[p].amount \in Nat
  BY DEF IInv, TypeOK, PaymentRow
<1>2. credits[p] * pay[p].amount \in Nat
  BY <1>1, ProductNat
<1> QED
  BY <1>2 DEF Weight

(* The ledger says what the property says. *)
LEMMA LedgerIsComplete ==
    ASSUME IInv, Ledger
    PROVE  LedgerComplete
<1> DEFINE S(d) == {p \in Payments : pay[p].dem = d}
           Adds(g, d) == g = [s \in SUBSET S(d) |->
                                IF s = {} THEN 0
                                ELSE credits[PickOf(s)] * pay[PickOf(s)].amount
                                     + g[s \ {PickOf(s)}]]
           sums(d) == CHOOSE g : Adds(g, d)
<1> SUFFICES ASSUME NEW d \in Demands
             PROVE  demand[d].paid >= sums(d)[S(d)]
  BY DEF LedgerComplete, MapThenSumSet, MapThenFoldSet, PickOf
<1> DEFINE f == Weight(d)
<1>1. IsFiniteSet(S(d)) /\ S(d) \subseteq S(d) /\ S(d) \subseteq Payments
  BY PaymentsAssumption, FS_Subset
<1>2. (\A p \in Payments : f[p] \in Int) /\ (\A p \in Payments \ S(d) : f[p] = 0)
  <2>1. \A p \in Payments : f[p] \in Nat
    BY WeightNat DEF WeightsNatural
  <2>2. \A p \in Payments \ S(d) : f[p] = 0
    BY DEF Weight
  <2> HIDE DEF f
  <2> QED
    BY <2>1, <2>2
<1>3. ASSUME NEW g PROVE Adds(g, d) <=> Sums(g, f, S(d))
  <2>1. \A s \in SUBSET S(d) : s # {} => f[PickOf(s)] = credits[PickOf(s)] * pay[PickOf(s)].amount
    BY DEF PickOf, Weight
  <2> HIDE DEF f, S
  <2> QED
    BY <2>1 DEF Sums
<1>4. Sums(sums(d), f, S(d))
  <2>1. PICK g : Sums(g, f, S(d))
    BY <1>1, SumsExist
  <2>2. Adds(g, d)
    BY <1>3, <2>1
  <2> HIDE DEF Adds
  <2> QED
    BY <1>3, <2>2
<1>5. demand[d].paid >= SumOver(f, Payments)
  BY DEF Ledger
<1> HIDE DEF f, S, sums
<1>6. SumOver(f, S(d)) = sums(d)[S(d)] /\ SumOver(f, Payments) = SumOver(f, S(d))
  BY <1>1, <1>2, <1>4, SumIsThat, SumRestrict, PaymentsAssumption
<1> QED
  BY <1>5, <1>6

(* What the step leaves of payment x's share of any sum. *)
Same(x) == credits'[x] = credits[x] /\ pay'[x].dem = pay[x].dem /\ pay'[x].amount = pay[x].amount

(* No share changes and no amount paid drops. *)
LEMMA LedgerStays ==
    ASSUME IInv, Ledger, NEW d \in Demands, demand'[d].paid = demand[d].paid,
           \A x \in Payments : Weight(d)'[x] = Weight(d)[x]
    PROVE  demand'[d].paid >= SumOver(Weight(d)', Payments)
<1>1. demand[d].paid >= SumOver(Weight(d), Payments)
  BY DEF Ledger
<1>2. SumOver(Weight(d)', Payments) = SumOver(Weight(d), Payments)
  BY PaymentsAssumption, SumCongruent
<1> QED
  BY <1>1, <1>2

(* One payment's share of every sum changes, by no more than is paid. *)
LEMMA LedgerMoves ==
    ASSUME IInv, IInv', Ledger, NEW p \in Payments,
           \A x \in Payments : x # p => Same(x),
           \A d \in Demands :
              Weight(d)'[p] - Weight(d)[p] <= demand'[d].paid - demand[d].paid
    PROVE  Ledger'
<1> SUFFICES ASSUME NEW d \in Demands
             PROVE  demand'[d].paid >= SumOver(Weight(d)', Payments)
  BY DEF Ledger
<1> DEFINE f == Weight(d)
           h == Weight(d)'
<1>1. \A x \in Payments : f[x] \in Int /\ h[x] \in Int
  <2>1. \A x \in Payments : f[x] \in Nat
    BY WeightNat DEF WeightsNatural
  <2>2. WeightsNatural'
    BY WeightNat, PTL
  <2>3. \A x \in Payments : h[x] \in Nat
    BY <2>2 DEF WeightsNatural
  <2> HIDE DEF f, h
  <2> QED
    BY <2>1, <2>3
<1>2. \A x \in Payments : x # p => h[x] = f[x]
  BY DEF Same, Weight
<1>3. demand[d].paid \in Nat /\ demand'[d].paid \in Nat
  BY DEF IInv, TypeOK, DemandRow
<1>4. h[p] - f[p] <= demand'[d].paid - demand[d].paid
  OBVIOUS
<1>5. demand[d].paid >= SumOver(f, Payments)
  BY DEF Ledger
<1> HIDE DEF f, h
<1>6. SumOver(h, Payments) = SumOver(f, Payments) + (h[p] - f[p])
  BY <1>1, <1>2, PaymentsAssumption, SumUpdate
<1>7. SumOver(f, Payments) \in Int /\ h[p] \in Int /\ f[p] \in Int
  BY <1>1, PaymentsAssumption, SumInt
<1> QED
  BY <1>3, <1>4, <1>5, <1>6, <1>7 DEF h

(* A step that moves no money, no credit and no payment's demand. *)
LEMMA LedgerUntouched ==
    ASSUME IInv, LInv, UNCHANGED demand,
           \A x \in Payments : Same(x) /\ (Exists(x) => Exists(x)')
    PROVE  LInv'
<1>1. ASSUME NEW d \in Demands
      PROVE  demand'[d].paid >= SumOver(Weight(d)', Payments)
  <2>1. \A x \in Payments : Weight(d)'[x] = Weight(d)[x]
    BY DEF Same, Weight
  <2>2. demand'[d].paid = demand[d].paid
    OBVIOUS
  <2> QED
    BY <2>1, <2>2, LedgerStays DEF LInv
<1>2. Ledger'
  BY <1>1 DEF Ledger
<1>3. UnusedUncredited'
  BY DEF LInv, UnusedUncredited, Same
<1> QED
  BY <1>2, <1>3 DEF LInv

(* One row of an existing payment is rewritten, demand and amount kept. *)
LEMMA LedgerRewritten ==
    ASSUME IInv, LInv, UNCHANGED <<demand, credits>>, NEW p \in Payments, NEW row,
           Exists(p), pay' = [pay EXCEPT ![p] = row], RowKept(pay[p], row)
    PROVE  LInv'
<1>1. \A x \in Payments : pay'[x] = IF x = p THEN row ELSE pay[x]
  BY DEF IInv, TypeOK
<1>2. \A x \in Payments : Same(x) /\ (Exists(x) => Exists(x)')
  BY <1>1 DEF Same, RowKept, Exists
<1> QED
  BY <1>2, LedgerUntouched

(* One credit more is the payment's amount more. *)
LEMMA OneMore ==
    ASSUME NEW c \in Nat, NEW a \in Nat
    PROVE  (c + 1) * a = c * a + a /\ c * a \in Nat
OBVIOUS

(* A success is recorded: with the credit, demand and credits move by the  *)
(* amount of the payment; without it nothing moves.                        *)
LEMMA LedgerRecordSuccess ==
    ASSUME IInv, IInv', LInv, NEW p \in Payments, NEW saw \in PaymentRow, SawOK(p, saw),
           RecordSuccess(p, saw)
    PROVE  LInv'
<1> DEFINE credit == FirstSuccess(saw) /\ Creditable(saw)
           row    == SucceededRow(pay[p], credit)
           a      == pay[p].amount
           d0     == pay[p].dem
<1>1. /\ a \in Nat /\ d0 \in Demands /\ credits[p] \in Nat /\ saw.amount = a /\ saw.dem = d0
      /\ demand[d0] \in DemandRow
  BY DEF IInv, TypeOK, PaymentRow, SawOK
<1>2. pay' = [pay EXCEPT ![p] = row]
  BY DEF RecordSuccess
<1>3. row.dem = d0 /\ row.amount = a /\ row.status = "SUCCESS"
  <2>1. credit \in BOOLEAN /\ pay[p] \in PaymentRow
    BY DEF FirstSuccess, Creditable, IInv, TypeOK
  <2> HIDE DEF credit
  <2> QED
    BY <2>1 DEF SucceededRow, PaymentRow
<1> HIDE DEF row
<1>4. \A x \in Payments : pay'[x] = IF x = p THEN row ELSE pay[x]
  BY <1>2 DEF IInv, TypeOK
<1>5. \A x \in Payments : /\ pay'[x].dem = pay[x].dem /\ pay'[x].amount = pay[x].amount
                          /\ Exists(x) => Exists(x)'
  BY <1>3, <1>4 DEF Exists
<1>6. CASE ~credit
  BY <1>5, <1>6, LedgerUntouched DEF RecordSuccess, Same
<1>7. CASE credit
  <2>1. /\ demand' = [demand EXCEPT ![d0] = AfterPayment(@, a)]
        /\ credits' = [credits EXCEPT ![p] = @ + 1]
    BY <1>1, <1>7 DEF RecordSuccess
  <2>2. \A x \in Payments : credits'[x] = IF x = p THEN credits[p] + 1 ELSE credits[x]
    BY <2>1 DEF IInv, TypeOK
  <2>3. \A e \in Demands : demand'[e] = IF e = d0 THEN AfterPayment(demand[d0], a) ELSE demand[e]
    BY <1>1, <2>1 DEF IInv, TypeOK
  <2>4. demand'[d0].paid = demand[d0].paid + a /\ demand[d0].paid \in Nat
    <3>1. demand'[d0].paid = AfterPayment(demand[d0], a).paid
      BY <1>1, <2>3
    <3>2. AfterPayment(demand[d0], a).paid = demand[d0].paid + a
      BY <1>1, AfterPaymentRow
    <3>3. demand[d0].paid \in Nat
      BY <1>1 DEF DemandRow
    <3> QED
      BY <3>1, <3>2, <3>3
  <2>5. ASSUME NEW d \in Demands
        PROVE  Weight(d)'[p] - Weight(d)[p] <= demand'[d].paid - demand[d].paid
    <3>1. CASE d = d0
      <4>1. Weight(d)[p] = credits[p] * a /\ Weight(d)'[p] = (credits[p] + 1) * a
        BY <1>5, <2>2, <3>1 DEF Weight
      <4> QED
        BY <1>1, <2>4, <3>1, <4>1, OneMore
    <3>2. CASE d # d0
      <4>1. Weight(d)[p] = 0 /\ Weight(d)'[p] = 0
        BY <1>5, <3>2 DEF Weight
      <4>2. demand'[d].paid = demand[d].paid /\ demand[d].paid \in Nat
        BY <2>3, <3>2 DEF IInv, TypeOK, DemandRow
      <4> QED
        BY <4>1, <4>2
    <3> QED
      BY <3>1, <3>2
  <2>6. \A x \in Payments : x # p => Same(x)
    BY <1>5, <2>2 DEF Same
  <2>7. Ledger'
    BY <2>5, <2>6, LedgerMoves DEF LInv
  <2>8. UnusedUncredited'
    BY <1>3, <1>4, <1>5, <2>2 DEF LInv, UnusedUncredited, Exists
  <2> QED
    BY <2>7, <2>8 DEF LInv
<1> QED
  BY <1>6, <1>7

(* A row is taken into use: what it weighs must be paid in the same step. *)
LEMMA LedgerFresh ==
    ASSUME IInv, IInv', LInv, NEW p \in Payments, ~Exists(p), NEW row, row.status # "NONE",
           pay' = [pay EXCEPT ![p] = row],
           \A x \in Payments : x # p => credits'[x] = credits[x],
           \A d \in Demands :
              (IF row.dem = d THEN credits'[p] * row.amount ELSE 0)
                <= demand'[d].paid - demand[d].paid
    PROVE  LInv'
<1>1. \A x \in Payments : pay'[x] = IF x = p THEN row ELSE pay[x]
  BY DEF IInv, TypeOK
<1>2. \A x \in Payments : x # p => Same(x)
  BY <1>1 DEF Same
<1>3. ASSUME NEW d \in Demands
      PROVE  Weight(d)'[p] - Weight(d)[p] <= demand'[d].paid - demand[d].paid
  <2>1. credits[p] = 0 /\ pay[p].amount \in Nat
    BY DEF LInv, UnusedUncredited, IInv, TypeOK, PaymentRow
  <2>2. Weight(d)[p] = 0
    BY <2>1 DEF Weight
  <2>3. Weight(d)'[p] = IF row.dem = d THEN credits'[p] * row.amount ELSE 0
    BY <1>1 DEF Weight
  <2>4. WeightsNatural'
    BY WeightNat, PTL
  <2>5. Weight(d)'[p] \in Nat
    BY <2>4 DEF WeightsNatural
  <2>6. demand[d].paid \in Nat /\ demand'[d].paid \in Nat
    BY DEF IInv, TypeOK, DemandRow
  <2>7. Weight(d)'[p] <= demand'[d].paid - demand[d].paid
    BY <2>3
  <2> QED
    BY <2>2, <2>5, <2>6, <2>7
<1>4. Ledger'
  BY <1>2, <1>3, LedgerMoves DEF LInv
<1>5. UnusedUncredited'
  BY <1>1 DEF LInv, UnusedUncredited, Exists
<1> QED
  BY <1>4, <1>5 DEF LInv

(* A counter collection is a new row with one credit. *)
LEMMA LedgerOfflineCommit ==
    ASSUME IInv, IInv', LInv, NEW r \in Requests, NEW p \in Payments, OfflineCommit(r, p)
    PROVE  LInv'
<1> DEFINE q   == req[r]
           row == [status |-> "SUCCESS", mode |-> "OFFLINE", dem |-> q.dem, amount |-> q.amount,
                   refundable |-> q.amount, linked |-> TRUE, atomTxn |-> FALSE, receipt |-> TRUE,
                   snapshot |-> TRUE, key |-> q.key]
<1>1. /\ ~Exists(p) /\ pay' = [pay EXCEPT ![p] = row]
      /\ demand' = [demand EXCEPT ![q.dem] = AfterPayment(@, q.amount)]
      /\ credits' = [credits EXCEPT ![p] = 1]
  BY DEF OfflineCommit
<1>2. q.dem \in Demands /\ q.amount \in Nat /\ demand[q.dem] \in DemandRow
  BY DEF OfflineCommit, IInv, TypeOK, Request
<1>3. row.status # "NONE" /\ row.dem = q.dem /\ row.amount = q.amount
  OBVIOUS
<1>4. credits'[p] = 1 /\ \A x \in Payments : x # p => credits'[x] = credits[x]
  BY <1>1 DEF IInv, TypeOK
<1> HIDE DEF row
<1>5. ASSUME NEW d \in Demands
      PROVE  (IF row.dem = d THEN credits'[p] * row.amount ELSE 0)
                <= demand'[d].paid - demand[d].paid
  <2>1. CASE d = q.dem
    <3>1. demand'[d] = AfterPayment(demand[d], q.amount)
      BY <1>1, <2>1 DEF IInv, TypeOK
    <3>2. AfterPayment(demand[d], q.amount).paid = demand[d].paid + q.amount
      BY <1>2, <2>1, AfterPaymentRow
    <3>3. demand[d].paid \in Nat
      BY <1>2, <2>1 DEF DemandRow
    <3> HIDE DEF q
    <3> QED
      BY <1>2, <1>3, <1>4, <2>1, <3>1, <3>2, <3>3
  <2>2. CASE d # q.dem
    <3>1. demand'[d] = demand[d] /\ demand[d].paid \in Nat
      BY <1>1, <2>2 DEF IInv, TypeOK, DemandRow
    <3> QED
      BY <1>3, <2>2, <3>1
  <2> QED
    BY <2>1, <2>2
<1>6. \A d \in Demands : (IF row.dem = d THEN credits'[p] * row.amount ELSE 0)
                           <= demand'[d].paid - demand[d].paid
  BY <1>5
<1>7. ~Exists(p) /\ pay' = [pay EXCEPT ![p] = row] /\ row.status # "NONE"
  BY <1>1, <1>3
<1>8. \A x \in Payments : x # p => credits'[x] = credits[x]
  BY <1>4
<1> QED
  BY <1>6, <1>7, <1>8, LedgerFresh

(* An order taken online is a new row without a credit. *)
LEMMA LedgerCreatePayment ==
    ASSUME IInv, IInv', LInv, NEW r \in Requests, NEW p \in Payments, CreatePayment(r, p)
    PROVE  LInv'
<1> DEFINE q   == req[r]
           row == [status |-> "INITIATED", mode |-> "ONLINE", dem |-> q.dem, amount |-> q.amount,
                   refundable |-> q.amount, linked |-> q.linked, atomTxn |-> FALSE,
                   receipt |-> FALSE, snapshot |-> FALSE, key |-> NoKey]
<1>1. ~Exists(p) /\ pay' = [pay EXCEPT ![p] = row] /\ UNCHANGED <<demand, credits>>
  BY DEF CreatePayment
<1>2. row.status # "NONE" /\ row.amount = q.amount /\ q.amount \in Nat
  BY DEF CreatePayment, IInv, TypeOK, Request
<1>3. credits'[p] = 0
  BY <1>1 DEF LInv, UnusedUncredited
<1> HIDE DEF row
<1>4. ASSUME NEW d \in Demands
      PROVE  (IF row.dem = d THEN credits'[p] * row.amount ELSE 0)
                <= demand'[d].paid - demand[d].paid
  <2>1. demand'[d].paid = demand[d].paid /\ demand[d].paid \in Nat
    BY <1>1 DEF IInv, TypeOK, DemandRow
  <2> HIDE DEF q
  <2>2. credits'[p] * row.amount = 0
    BY <1>2, <1>3
  <2> QED
    BY <2>1, <2>2
<1> QED
  BY <1>1, <1>2, <1>4, LedgerFresh

(* A publish writes what it read over whatever was paid since - and starts *)
(* the demand's credits afresh; the other demands keep theirs.             *)
LEMMA LedgerPublishWrite ==
    ASSUME IInv, IInv', LInv, NEW r \in Requests, PublishWrite(r)
    PROVE  LInv'
<1> DEFINE d0 == req[r].dem
<1>1. /\ UNCHANGED pay
      /\ credits' = [p \in Payments |-> IF pay[p].dem = d0 THEN 0 ELSE credits[p]]
      /\ \A d \in Demands : d # d0 => demand'[d] = demand[d]
  BY DEF PublishWrite, IInv, TypeOK
<1>2. ASSUME NEW d \in Demands
      PROVE  demand'[d].paid >= SumOver(Weight(d)', Payments)
  <2>1. CASE d = d0
    <3>1. \A p \in Payments : Weight(d)'[p] = 0
      <4> SUFFICES ASSUME NEW p \in Payments PROVE Weight(d)'[p] = 0
        OBVIOUS
      <4>1. pay'[p].amount \in Nat
        BY DEF IInv, TypeOK, PaymentRow
      <4>2. pay'[p].dem = d => credits'[p] = 0
        BY <1>1, <2>1
      <4> QED
        BY <4>1, <4>2 DEF Weight
    <3>2. SumOver(Weight(d)', Payments) = 0
      BY <3>1, SumZero, PaymentsAssumption
    <3>3. demand'[d].paid \in Nat
      BY DEF IInv, TypeOK, DemandRow
    <3> QED
      BY <3>2, <3>3
  <2>2. CASE d # d0
    <3>1. \A p \in Payments : Weight(d)'[p] = Weight(d)[p]
      BY <1>1, <2>2 DEF Weight
    <3>2. demand'[d].paid = demand[d].paid
      BY <1>1, <2>2
    <3> QED
      BY <3>1, <3>2, LedgerStays DEF LInv
  <2> QED
    BY <2>1, <2>2
<1>3. Ledger'
  BY <1>2 DEF Ledger
<1>4. UnusedUncredited'
  BY <1>1 DEF LInv, UnusedUncredited, Exists
<1> QED
  BY <1>3, <1>4 DEF LInv

(* The steps that rewrite one row keep what the ledger looks at. *)
LEMMA LedgerCheckout ==
    ASSUME IInv, LInv, NEW r \in Requests, CheckoutRefused(r) \/ CheckoutIssued(r)
    PROVE  LInv'
<1> DEFINE p == req[r].pay
<1>1. p \in Payments /\ Exists(p) /\ pay[p] \in PaymentRow
  BY DEF IInv, TypeOK, Request, RequestsOK, RequestOK, CheckoutRefused, CheckoutIssued
<1>2. UNCHANGED <<demand, credits>>
  BY DEF CheckoutRefused, CheckoutIssued
<1>3. PICK status \in {"FAILED", "PENDING"} : pay' = [pay EXCEPT ![p] = [@ EXCEPT !.status = status]]
  BY DEF CheckoutRefused, CheckoutIssued
<1> DEFINE row == [pay[p] EXCEPT !.status = status]
<1>4. RowKept(pay[p], row)
  BY <1>1 DEF RowKept, PaymentRow
<1>5. pay' = [pay EXCEPT ![p] = row]
  BY <1>3
<1> HIDE DEF row, p
<1> QED
  BY <1>1, <1>2, <1>4, <1>5, LedgerRewritten

LEMMA LedgerRefundApply ==
    ASSUME IInv, LInv, NEW r \in Requests, RefundApply(r)
    PROVE  LInv'
<1> DEFINE p == req[r].pay
           remaining == req[r].saw.refundable - req[r].amount
           row == [pay[p] EXCEPT !.refundable = remaining,
                                 !.status = IF remaining <= 0 THEN "REFUNDED"
                                            ELSE "PARTIALLY_REFUNDED"]
<1>1. p \in Payments /\ Exists(p) /\ pay[p] \in PaymentRow
  BY DEF IInv, TypeOK, Request, RequestsOK, RequestOK, RefundOps, SawOK, RefundApply
<1>2. UNCHANGED <<demand, credits>> /\ pay' = [pay EXCEPT ![p] = row]
  BY DEF RefundApply
<1>3. RowKept(pay[p], row)
  BY <1>1 DEF RowKept, PaymentRow
<1> HIDE DEF row, p
<1> QED
  BY <1>1, <1>2, <1>3, LedgerRewritten

LEMMA LedgerWriteBack ==
    ASSUME IInv, LInv, NEW p \in Payments, NEW saw \in PaymentRow, SawOK(p, saw),
           NEW status \in {saw.status, "FAILED"}, WriteBack(p, saw, status)
    PROVE  LInv'
<1>1. PICK row \in PaymentRow : pay' = [pay EXCEPT ![p] = row] /\ RowKept(pay[p], row)
  BY WriteBackRow
<1>2. Exists(p) /\ UNCHANGED <<demand, credits>>
  BY DEF SawOK, WriteBack
<1> QED
  BY <1>1, <1>2, LedgerRewritten

(* A gateway report commits, or a requery ends. *)
LEMMA LedgerReported ==
    ASSUME IInv, IInv', LInv, NEW r \in Requests,
           CallbackCommit(r) \/ RequerySuccess(r) \/ RequeryUnsuccessful(r)
    PROVE  LInv'
<1> DEFINE p == req[r].pay
           saw == req[r].saw
<1>1. p \in Payments /\ saw \in PaymentRow /\ SawOK(p, saw)
  BY DEF IInv, TypeOK, Request, RequestsOK, RequestOK, CallbackCommit, RequerySuccess,
         RequeryUnsuccessful
<1>2. \/ RecordSuccess(p, saw)
      \/ WriteBack(p, saw, StatusAfterReport(saw, req[r].code))
      \/ WriteBack(p, saw, saw.status)
  BY DEF CallbackCommit, RequerySuccess, RequeryUnsuccessful
<1>3. StatusAfterReport(saw, req[r].code) \in {saw.status, "FAILED"}
  BY DEF StatusAfterReport
<1> HIDE DEF p, saw
<1> QED
  BY <1>1, <1>2, <1>3, LedgerRecordSuccess, LedgerWriteBack

(* Every step keeps the ledger. *)
LEMMA NextLInv == IInv /\ IInv' /\ LInv /\ [Next]_vars => LInv'
<1> SUFFICES ASSUME IInv, IInv', LInv, [Next]_vars PROVE LInv'
  OBVIOUS
<1>1. CASE UNCHANGED <<demand, pay, credits>>
  BY <1>1, LedgerUntouched DEF Same, Exists
<1>2. ASSUME NEW r \in Requests, Creation(r) PROVE LInv'
  BY <1>1, <1>2, LedgerCreatePayment, LedgerCheckout
     DEF Creation, StaffOnline, CitizenOnline, dbVars
<1>3. ASSUME NEW r \in Requests, Report(r) \/ Requery(r) PROVE LInv'
  BY <1>1, <1>3, LedgerReported
     DEF Report, CallbackStart, CallbackConflict, Requery, RequeryStart, SyncStart, dbVars
<1>4. ASSUME NEW r \in Requests, Refund(r) PROVE LInv'
  BY <1>1, <1>4, LedgerRefundApply
     DEF Refund, RefundStart, RefundAccepted, RefundRefused, RefundRecord, dbVars
<1>5. ASSUME NEW r \in Requests, Offline(r) PROVE LInv'
  BY <1>1, <1>5, LedgerOfflineCommit DEF Offline, OfflineStart, OfflineRejected, dbVars
<1>6. ASSUME NEW r \in Requests, Publish(r) \/ Crash(r) PROVE LInv'
  BY <1>1, <1>6, LedgerPublishWrite DEF Publish, PublishStart, PublishConflict, Crash, dbVars
<1>7. CASE Environment
  BY <1>1, <1>7 DEF Environment, WindowExpires, GatewayPaid, GatewayDeclined, dbVars
<1>8. CASE UNCHANGED vars
  BY <1>1, <1>8 DEF vars, dbVars
<1> QED
  BY <1>2, <1>3, <1>4, <1>5, <1>6, <1>7, <1>8 DEF Next

(* The credits of a fresh database are all zero. *)
LEMMA InitLInv == Init => LInv
<1> SUFFICES ASSUME Init PROVE LInv
  OBVIOUS
<1>1. IInv
  BY InitIInv
<1>2. ASSUME NEW d \in Demands PROVE demand[d].paid >= SumOver(Weight(d), Payments)
  <2>1. \A p \in Payments : Weight(d)[p] = 0
    BY DEF Init, Weight
  <2>2. SumOver(Weight(d), Payments) = 0
    BY <2>1, SumZero, PaymentsAssumption
  <2>3. demand[d].paid = 0
    BY DEF Init
  <2> QED
    BY <2>2, <2>3
<1>3. UnusedUncredited
  BY DEF Init, UnusedUncredited
<1> QED
  BY <1>2, <1>3 DEF LInv, Ledger

(* What was added to a demand since its last publish is still in           *)
(* amountPaid, whatever callbacks, requeries and cashiers overlap (the row *)
(* lock of applyOnlineSuccessToDemand and of createOffline).  What was     *)
(* added before it is not spoken of: run republish shows it missed.        *)
THEOREM NoCreditLost == Spec => []LedgerComplete
<1>1. Init => LInv
  BY InitLInv
<1>2. IInv /\ IInv' /\ LInv /\ [Next]_vars => LInv'
  BY NextLInv
<1>3. IInv /\ LInv => LedgerComplete
  BY LedgerIsComplete DEF LInv
<1> QED
  BY <1>1, <1>2, <1>3, Invariance, PTL DEF Spec

-----------------------------------------------------------------------------
(* Requests that do not overlap                                            *)
(*                                                                         *)
(* Four runs show what the code does when requests overlap: a demand is    *)
(* credited twice, a success is lost, refunds exceed their payment, an     *)
(* amount paid drops.  The theorems below show that nothing else than such *)
(* overlaps leads there: each assumes what would keep the requests apart,  *)
(* a row lock or a transaction, and proves the property for every instance.*)

(* The requests that report how a payment went at the gateway. *)
ReportOps == {"callback", "requery"}

(* No two gateway reports or requeries of one payment are under way. *)
ReportsAlone ==
    \A r, s \in Requests :
        req[r].op \in ReportOps /\ req[s].op \in ReportOps /\ req[r].pay = req[s].pay => r = s

(* A report under way knows of a success and of a credit. *)
ReportKnows(q) ==
    q.op \in ReportOps =>
        /\ pay[q.pay].status = "SUCCESS" => q.saw.status = "SUCCESS"
        /\ pay[q.pay].snapshot => q.saw.snapshot

(* A payment was credited once if it has its snapshot, else not at all. *)
CreditsTold == \A p \in Payments : credits[p] <= 1 /\ (~pay[p].snapshot => credits[p] = 0)

ReportInv == (\A r \in Requests : ReportKnows(req[r])) /\ CreditsTold

(* A payment keeps whom and how much it is for. *)
Kept(p) ==
    /\ Exists(p)' = Exists(p)
    /\ pay'[p].dem = pay[p].dem /\ pay'[p].amount = pay[p].amount

(* What a step may do to payment p, four ways.  MovesOn: it gains neither  *)
(* a success nor a credit.  AskedOnline: a checkout is created for it.     *)
(* TakenAtCounter: it is collected.  Reported: a report ends, by what it   *)
(* remembers of p.                                                         *)
MovesOn(p) ==
    /\ Kept(p)
    /\ pay[p].status = "SUCCESS" => pay'[p].status \in Settled
    /\ pay'[p].status = "SUCCESS" => pay[p].status = "SUCCESS"
    /\ pay'[p].snapshot = pay[p].snapshot
    /\ credits'[p] \in {credits[p], 0}

AskedOnline(p) ==
    /\ ~Exists(p) /\ pay'[p].status # "SUCCESS" /\ ~pay'[p].snapshot
    /\ credits'[p] = credits[p]

TakenAtCounter(p) == ~Exists(p) /\ pay'[p].snapshot /\ credits'[p] = 1

Reported(p, r) ==
    /\ Kept(p)
    /\ req[r].op \in ReportOps /\ req[r].pay = p /\ req'[r].op = "idle"
    /\ req[r].saw.status = "SUCCESS" => pay'[p].status = "SUCCESS"
    /\ pay[p].snapshot => pay'[p].snapshot
    /\ \/ credits'[p] = credits[p]
       \/ FirstSuccess(req[r].saw) /\ credits'[p] = credits[p] + 1 /\ pay'[p].snapshot

(* A success that is recorded. *)
LEMMA RecordedMoves ==
    ASSUME IInv, NEW p \in Payments, NEW x \in Payments, NEW saw, RecordSuccess(x, saw)
    PROVE  /\ p # x => pay'[p] = pay[p] /\ credits'[p] = credits[p]
           /\ p = x => /\ pay'[p].status = "SUCCESS"
                       /\ pay'[p].dem = pay[p].dem /\ pay'[p].amount = pay[p].amount
                       /\ pay[p].snapshot => pay'[p].snapshot
                       /\ \/ credits'[p] = credits[p]
                          \/ /\ FirstSuccess(saw) /\ credits'[p] = credits[p] + 1
                             /\ pay'[p].snapshot
<1> DEFINE credit == FirstSuccess(saw) /\ Creditable(saw)
<1>0. pay \in [Payments -> PaymentRow] /\ credits \in [Payments -> Nat]
  BY DEF IInv, TypeOK
<1>1. /\ pay' = [pay EXCEPT ![x] = SucceededRow(pay[x], credit)]
      /\ credits' = IF credit THEN [credits EXCEPT ![x] = credits[x] + 1] ELSE credits
  BY DEF RecordSuccess
<1>2. pay[x] \in PaymentRow /\ credit \in BOOLEAN
  BY <1>0 DEF FirstSuccess, Creditable
<1>3. credit => FirstSuccess(saw)
  OBVIOUS
<1> HIDE DEF credit
<1>4. /\ SucceededRow(pay[x], credit).status = "SUCCESS"
      /\ SucceededRow(pay[x], credit).dem = pay[x].dem
      /\ SucceededRow(pay[x], credit).amount = pay[x].amount
      /\ SucceededRow(pay[x], credit).snapshot = (pay[x].snapshot \/ credit)
  BY <1>2 DEF SucceededRow, PaymentRow
<1> QED
  BY <1>0, <1>1, <1>3, <1>4

(* A status that is written back. *)
LEMMA WrittenMoves ==
    ASSUME IInv, NEW p \in Payments, NEW x \in Payments, NEW saw, NEW st, WriteBack(x, saw, st)
    PROVE  /\ p # x => pay'[p] = pay[p]
           /\ p = x => /\ pay'[p].status = st /\ pay'[p].snapshot = pay[p].snapshot
                       /\ pay'[p].dem = pay[p].dem /\ pay'[p].amount = pay[p].amount
           /\ credits' = credits
<1>1. PICK a : pay' = [pay EXCEPT ![x] = [pay[x] EXCEPT !.status = st, !.atomTxn = a]]
  BY DEF WriteBack
<1>2. pay \in [Payments -> PaymentRow]
  BY DEF IInv, TypeOK
<1> QED
  BY <1>1, <1>2 DEF WriteBack, PaymentRow

(* How a payment's row and its credits may move. *)
RowMoved(p) ==
    MovesOn(p) \/ AskedOnline(p) \/ TakenAtCounter(p) \/ \E r \in Requests : Reported(p, r)

(* A payment whose row and credit stand still, or are forgotten by a publish. *)
LEMMA RowStands ==
    ASSUME NEW p \in Payments, pay'[p] = pay[p], credits'[p] \in {credits[p], 0}
    PROVE  MovesOn(p)
BY DEF MovesOn, Settled, Kept, Exists

LEMMA CreationMoves ==
    ASSUME IInv, NEW r \in Requests, Creation(r), NEW p \in Payments
    PROVE  RowMoved(p)
<1>0. pay \in [Payments -> PaymentRow] /\ req \in [Requests -> Request]
  BY DEF IInv, TypeOK
<1>1. CASE \E d \in Demands : StaffOnline(r, d) \/ CitizenOnline(r, d)
  <2>1. pay' = pay /\ credits' = credits
    BY <1>1 DEF StaffOnline, CitizenOnline, dbVars
  <2> QED
    BY <2>1, RowStands DEF RowMoved
<1>2. ASSUME NEW x \in Payments, CreatePayment(r, x) PROVE RowMoved(p)
  <2>1. credits' = credits /\ ~Exists(x)
    BY <1>2 DEF CreatePayment
  <2>2. CASE p = x
    BY <1>0, <1>2, <2>1, <2>2 DEF CreatePayment, RowMoved, AskedOnline
  <2>3. CASE p # x
    <3>1. pay'[p] = pay[p]
      BY <1>0, <1>2, <2>3 DEF CreatePayment
    <3> QED
      BY <2>1, <3>1, RowStands DEF RowMoved
  <2> QED
    BY <2>2, <2>3
<1>3. CASE CheckoutRefused(r) \/ CheckoutIssued(r)
  <2> DEFINE x == req[r].pay
  <2>1. req[r] \in Request /\ req[r].op = "gateway" /\ RequestOK(req[r])
    BY <1>0, <1>3 DEF CheckoutRefused, CheckoutIssued, IInv, RequestsOK
  <2>2. x \in Payments /\ pay[x].status \notin Settled /\ pay[x].status # "NONE"
    BY <2>1 DEF RequestOK, IInv, Safe, SettledMoneyReceived, Request, Exists
  <2>3. PICK st \in {"FAILED", "PENDING"} : pay' = [pay EXCEPT ![x] = [pay[x] EXCEPT !.status = st]]
    BY <1>3 DEF CheckoutRefused, CheckoutIssued
  <2>4. credits' = credits
    BY <1>3 DEF CheckoutRefused, CheckoutIssued
  <2>5. pay[x] \in PaymentRow /\ pay[p] \in PaymentRow
    BY <1>0, <2>2
  <2> HIDE DEF x
  <2>6. pay'[p] = IF p = x THEN [pay[x] EXCEPT !.status = st] ELSE pay[p]
    BY <1>0, <2>3
  <2>7. p = x => /\ pay'[p].status = st /\ pay'[p].snapshot = pay[p].snapshot
                 /\ pay'[p].dem = pay[p].dem /\ pay'[p].amount = pay[p].amount
    BY <2>5, <2>6 DEF PaymentRow
  <2>8. st # "SUCCESS" /\ st \notin Settled /\ st # "NONE"
    BY DEF Settled
  <2>9. p = x => MovesOn(p)
    BY <2>2, <2>4, <2>7, <2>8 DEF MovesOn, Settled, Kept, Exists
  <2> QED
    BY <2>4, <2>6, <2>9, RowStands DEF RowMoved
<1> QED
  BY <1>1, <1>2, <1>3 DEF Creation

LEMMA ReportMoves ==
    ASSUME IInv, NEW r \in Requests, Report(r) \/ Requery(r), NEW p \in Payments
    PROVE  RowMoved(p)
<1>0. pay \in [Payments -> PaymentRow] /\ req \in [Requests -> Request]
  BY DEF IInv, TypeOK
<1>1. CASE pay' = pay /\ credits' = credits
  BY <1>1, RowStands DEF RowMoved
<1>2. CASE CallbackCommit(r) \/ RequerySuccess(r) \/ RequeryUnsuccessful(r)
  <2> DEFINE x == req[r].pay
             saw == req[r].saw
  <2>1. req[r] \in Request /\ req[r].op \in ReportOps /\ req'[r].op = "idle" /\ RequestOK(req[r])
    BY <1>0, <1>2 DEF CallbackCommit, RequerySuccess, RequeryUnsuccessful, Done, ReportOps,
                      IInv, RequestsOK
  <2>2. x \in Payments /\ pay[x].status # "NONE" /\ saw.status # "NONE"
    BY <2>1 DEF Request, ReportOps, RequestOK, SawOK, Exists
  <2>3. CASE RecordSuccess(x, saw)
    <3> HIDE DEF saw
    <3>1. CASE p = x
      <4>1. Reported(p, r)
        BY <2>1, <2>2, <2>3, <3>1, RecordedMoves DEF Reported, saw, Kept, Exists
      <4> QED
        BY <4>1 DEF RowMoved
    <3>2. CASE p # x
      BY <2>2, <2>3, <3>2, RecordedMoves, RowStands DEF RowMoved
    <3> QED
      BY <3>1, <3>2
  <2>4. ASSUME NEW st, st # "NONE", WriteBack(x, saw, st), saw.status = "SUCCESS" => st = "SUCCESS"
        PROVE  RowMoved(p)
    <3> HIDE DEF saw
    <3>1. CASE p = x
      <4>1. Reported(p, r)
        BY <2>1, <2>2, <2>4, <3>1, WrittenMoves DEF Reported, saw, Kept, Exists
      <4> QED
        BY <4>1 DEF RowMoved
    <3>2. CASE p # x
      BY <2>2, <2>4, <3>2, WrittenMoves, RowStands DEF RowMoved
    <3> QED
      BY <3>1, <3>2
  <2>5. \/ RecordSuccess(x, saw)
        \/ \E st : /\ st # "NONE" /\ WriteBack(x, saw, st)
                   /\ saw.status = "SUCCESS" => st = "SUCCESS"
    BY <1>2, <2>2 DEF CallbackCommit, RequerySuccess, RequeryUnsuccessful, StatusAfterReport
  <2> QED
    BY <2>3, <2>4, <2>5
<1>3. \/ CallbackCommit(r) \/ RequerySuccess(r) \/ RequeryUnsuccessful(r)
      \/ pay' = pay /\ credits' = credits
  BY DEF Report, Requery, CallbackStart, CallbackConflict, RequeryStart, SyncStart, dbVars
<1> QED
  BY <1>1, <1>2, <1>3

LEMMA OtherMoves ==
    ASSUME IInv, NEW r \in Requests, Refund(r) \/ Offline(r) \/ Publish(r) \/ Crash(r),
           NEW p \in Payments
    PROVE  RowMoved(p)
<1>0. /\ pay \in [Payments -> PaymentRow] /\ req \in [Requests -> Request]
      /\ credits \in [Payments -> Nat]
  BY DEF IInv, TypeOK
<1>1. CASE pay' = pay /\ credits' = credits
  BY <1>1, RowStands DEF RowMoved
<1>2. CASE PublishWrite(r)
  <2>1. pay' = pay /\ credits'[p] \in {credits[p], 0}
    BY <1>2 DEF PublishWrite
  <2> QED
    BY <2>1, RowStands DEF RowMoved
<1>3. CASE RefundApply(r)
  <2> DEFINE x == req[r].pay
             left == req[r].saw.refundable - req[r].amount
             st == IF left <= 0 THEN "REFUNDED" ELSE "PARTIALLY_REFUNDED"
  <2>1. pay' = [pay EXCEPT ![x] = [pay[x] EXCEPT !.refundable = left, !.status = st]]
    BY <1>3 DEF RefundApply
  <2>2. st \in Settled /\ st # "SUCCESS" /\ st # "NONE"
    BY DEF Settled
  <2>3. credits' = credits /\ x \in Payments /\ pay[x].status # "NONE"
    BY <1>0, <1>3 DEF RefundApply, Request, IInv, RequestsOK, RequestOK, RefundOps, SawOK, Exists
  <2> HIDE DEF x, left, st
  <2>4. p = x => /\ pay'[p].status = st /\ pay'[p].snapshot = pay[p].snapshot
                 /\ pay'[p].dem = pay[p].dem /\ pay'[p].amount = pay[p].amount
    BY <1>0, <2>1, <2>3 DEF PaymentRow
  <2>5. p # x => pay'[p] = pay[p]
    BY <1>0, <2>1
  <2>6. p = x => MovesOn(p)
    BY <2>2, <2>3, <2>4 DEF MovesOn, Kept, Exists
  <2> QED
    BY <2>3, <2>5, <2>6, RowStands DEF RowMoved
<1>4. ASSUME NEW x \in Payments, OfflineCommit(r, x) PROVE RowMoved(p)
  <2>1. p # x => pay'[p] = pay[p] /\ credits'[p] = credits[p]
    BY <1>0, <1>4 DEF OfflineCommit
  <2>2. p = x => ~Exists(p) /\ pay'[p].snapshot /\ credits'[p] = 1
    BY <1>0, <1>4 DEF OfflineCommit
  <2> QED
    BY <2>1, <2>2, RowStands DEF RowMoved, TakenAtCounter
<1>5. \/ PublishWrite(r) \/ RefundApply(r) \/ \E x \in Payments : OfflineCommit(r, x)
      \/ pay' = pay /\ credits' = credits
  BY DEF Refund, RefundStart, RefundAccepted, RefundRefused, RefundRecord, Offline, OfflineStart,
         OfflineRejected, Publish, PublishStart, PublishConflict, Crash, dbVars
<1> QED
  BY <1>1, <1>2, <1>3, <1>4, <1>5

LEMMA RowMoves ==
    ASSUME IInv, [Next]_vars, NEW p \in Payments
    PROVE  RowMoved(p)
<1>1. CASE Environment \/ UNCHANGED vars
  <2>1. pay' = pay /\ credits' = credits
    BY <1>1 DEF Environment, WindowExpires, GatewayPaid, GatewayDeclined, vars, dbVars
  <2> QED
    BY <2>1, RowStands DEF RowMoved
<1> QED
  BY <1>1, CreationMoves, ReportMoves, OtherMoves DEF Next

(* A report that is under way after a step was so before it, or has just   *)
(* read the row, which the step leaves alone.                              *)
LEMMA ReportRead ==
    ASSUME IInv, [Next]_vars, NEW r \in Requests, req'[r].op \in ReportOps, req'[r] # req[r]
    PROVE  pay' = pay /\ req'[r].saw = pay[req'[r].pay]
<1>0. req \in [Requests -> Request]
  BY DEF IInv, TypeOK
<1>1. req' # req
  OBVIOUS
<1>2. ~Environment /\ ~UNCHANGED vars
  BY <1>1 DEF Environment, WindowExpires, GatewayPaid, GatewayDeclined, vars
<1>3. PICK s \in Requests : \/ Creation(s) \/ Report(s) \/ Requery(s) \/ Refund(s)
                            \/ Offline(s) \/ Publish(s) \/ Crash(s)
  BY <1>2 DEF Next
<1>4. \A q : req' = [req EXCEPT ![s] = q] => r = s /\ req'[r] = q
  BY <1>0
<1>5. ~Creation(s)
  BY <1>4 DEF Creation, StaffOnline, CitizenOnline, AskFor, Begin, CreatePayment, Become, CheckoutRefused,
         CheckoutIssued, Done, ReportOps
<1>6. ~Refund(s)
  <2>1. ~RefundAccepted(s)
    BY <1>0, <1>4 DEF RefundAccepted, Become, ReportOps, Request
  <2>2. ~RefundRecord(s)
    BY <1>0, <1>4 DEF RefundRecord, Become, ReportOps, Request
  <2> QED
    BY <2>1, <2>2, <1>4 DEF Refund, RefundStart, Begin, RefundRefused, Done, RefundApply, ReportOps
<1>7. ~Offline(s) /\ ~Publish(s) /\ ~Crash(s)
  BY <1>4 DEF Offline, OfflineStart, Begin, OfflineCommit, OfflineRejected, Done, Publish, PublishStart,
         PublishWrite, PublishConflict, Crash, ReportOps
<1>8. CASE Report(s)
  <2>1. PICK p \in Payments, code \in Codes : CallbackStart(s, p, code)
    BY <1>4, <1>8 DEF Report, CallbackCommit, CallbackConflict, Done, ReportOps
  <2> QED
    BY <1>4, <2>1 DEF CallbackStart, Begin, dbVars
<1>9. CASE Requery(s)
  <2>1. PICK p \in Payments : RequeryStart(s, p) \/ SyncStart(s, p)
    BY <1>4, <1>9 DEF Requery, RequerySuccess, RequeryUnsuccessful, Done, ReportOps
  <2> QED
    BY <1>4, <2>1 DEF RequeryStart, SyncStart, Begin, dbVars
<1> QED
  BY <1>3, <1>5, <1>6, <1>7, <1>8, <1>9

(* A report's row was there when it was read, and still is. *)
LEMMA ReportsRow ==
    ASSUME IInv, NEW r \in Requests, req[r].op \in ReportOps
    PROVE  req[r].pay \in Payments /\ Exists(req[r].pay)
BY DEF IInv, TypeOK, Request, RequestsOK, RequestOK, SawOK, ReportOps

LEMMA NextReportInv ==
    IInv /\ IInv' /\ UnusedUncredited /\ ReportsAlone /\ ReportInv /\ [Next]_vars => ReportInv'
<1> SUFFICES ASSUME IInv, IInv', UnusedUncredited, ReportsAlone, ReportInv, [Next]_vars
             PROVE  ReportInv'
  OBVIOUS
<1>1. ASSUME NEW r \in Requests, req'[r].op \in ReportOps
      PROVE  ReportKnows(req[r])'
  <2>1. CASE req'[r] # req[r]
    BY <1>1, <2>1, ReportRead DEF ReportKnows
  <2>2. CASE req'[r] = req[r]
    <3> DEFINE p == req[r].pay
    <3>1. p \in Payments /\ Exists(p) /\ ReportKnows(req[r])
      BY <1>1, <2>2, ReportsRow DEF ReportInv
    <3>2. ASSUME NEW s \in Requests PROVE ~Reported(p, s)
      BY <1>1, <2>2, <3>2 DEF Reported, ReportsAlone, ReportOps
    <3>3. MovesOn(p)
      BY <3>1, <3>2, RowMoves DEF RowMoved, AskedOnline, TakenAtCounter
    <3> QED
      BY <1>1, <2>2, <3>1, <3>3 DEF ReportKnows, MovesOn
  <2> QED
    BY <2>1, <2>2
<1>2. ASSUME NEW p \in Payments PROVE credits'[p] <= 1 /\ (~pay'[p].snapshot => credits'[p] = 0)
  <2>1. credits[p] \in Nat /\ credits[p] <= 1 /\ (~pay[p].snapshot => credits[p] = 0)
    BY DEF IInv, TypeOK, ReportInv, CreditsTold
  <2>2. CASE MovesOn(p)
    BY <2>1, <2>2 DEF MovesOn
  <2>3. CASE AskedOnline(p)
    BY <2>1, <2>3 DEF AskedOnline, UnusedUncredited
  <2>4. CASE TakenAtCounter(p)
    BY <2>4 DEF TakenAtCounter
  <2>5. ASSUME NEW r \in Requests, Reported(p, r)
        PROVE  credits'[p] <= 1 /\ (~pay'[p].snapshot => credits'[p] = 0)
    <3>1. CASE credits'[p] = credits[p]
      BY <2>1, <2>5, <3>1 DEF Reported
    <3>2. CASE credits'[p] # credits[p]
      <4>1. ~req[r].saw.snapshot /\ credits'[p] = credits[p] + 1 /\ pay'[p].snapshot
        BY <2>5, <3>2 DEF Reported, FirstSuccess
      <4>2. ~pay[p].snapshot
        BY <2>5, <4>1 DEF Reported, ReportInv, ReportKnows
      <4> QED
        BY <2>1, <4>1, <4>2
    <3> QED
      BY <3>1, <3>2
  <2> QED
    BY <2>2, <2>3, <2>4, <2>5, RowMoves DEF RowMoved
<1>3. ASSUME NEW r \in Requests PROVE ReportKnows(req[r])'
  BY <1>1 DEF ReportKnows
<1> QED
  BY <1>2, <1>3 DEF ReportInv, CreditsTold

LEMMA InitReportInv == Init => ReportInv
BY DEF Init, ReportInv, ReportKnows, ReportOps, CreditsTold

(* What of the ledger's invariant is needed here. *)
LEMMA Uncredited == Spec => []UnusedUncredited
<1>1. Init => LInv
  BY InitLInv
<1>2. IInv /\ IInv' /\ LInv /\ [Next]_vars => LInv'
  BY NextLInv
<1>3. LInv => UnusedUncredited
  BY DEF LInv
<1> QED
  BY <1>1, <1>2, <1>3, Invariance, PTL DEF Spec

(* A demand is credited once for a payment as long as no two reports of it *)
(* are under way at the same time: that callback and requery read the      *)
(* payment, ask the gateway and only then write is the one way to credit   *)
(* it twice, however they fail, are repeated or come late.                 *)
THEOREM OnceUnlessOverlapping == Spec /\ []ReportsAlone => []CreditedOnce
<1>1. Init => ReportInv
  BY InitReportInv
<1>2. IInv /\ IInv' /\ UnusedUncredited /\ ReportsAlone /\ ReportInv /\ [Next]_vars => ReportInv'
  BY NextReportInv
<1>3. ReportInv => CreditedOnce
  BY DEF ReportInv, CreditsTold, CreditedOnce
<1> QED
  BY <1>1, <1>2, <1>3, Invariance, Uncredited, PTL DEF Spec

LEMMA SuccessStep ==
    IInv /\ ReportInv /\ [Next]_vars
        => [\A p \in Payments : pay[p].status = "SUCCESS" => pay'[p].status \in Settled]_vars
<1> SUFFICES ASSUME IInv, ReportInv, [Next]_vars, NEW p \in Payments, pay[p].status = "SUCCESS"
             PROVE  pay'[p].status \in Settled
  OBVIOUS
<1>1. ~AskedOnline(p) /\ ~TakenAtCounter(p)
  BY DEF AskedOnline, TakenAtCounter, Exists
<1>2. ASSUME NEW r \in Requests, Reported(p, r) PROVE pay'[p].status \in Settled
  BY <1>2 DEF Reported, ReportInv, ReportKnows, Settled
<1> QED
  BY <1>1, <1>2, RowMoves DEF RowMoved, MovesOn

(* Nor is a success then ever turned into a failure: a report writes back  *)
(* "FAILED" or "PENDING" over a success only if it read the payment before *)
(* another one recorded it.                                                *)
THEOREM KeptUnlessOverlapping == Spec /\ []ReportsAlone => SuccessKept
<1>1. Init => ReportInv
  BY InitReportInv
<1>2. IInv /\ IInv' /\ UnusedUncredited /\ ReportsAlone /\ ReportInv /\ [Next]_vars => ReportInv'
  BY NextReportInv
<1>3. IInv /\ ReportInv /\ [Next]_vars
        => [\A p \in Payments : pay[p].status = "SUCCESS" => pay'[p].status \in Settled]_vars
  BY SuccessStep
<1> QED
  BY <1>1, <1>2, <1>3, Invariance, Uncredited, PTL DEF Spec, SuccessKept

-----------------------------------------------------------------------------
(* No two refunds of one payment are under way. *)
RefundsAlone ==
    \A r, s \in Requests :
        req[r].op \in RefundOps /\ req[s].op \in RefundOps /\ req[r].pay = req[s].pay => r = s

(* A refund whose row is recorded gets to the payment: the API does not die *)
(* between the two writes.                                                 *)
RecordedIsApplied ==
    \A r \in Requests : req[r].op = "refundApply" => req'[r] = req[r] \/ RefundApply(r)

Applying(p, r) == req[r].op = "refundApply" /\ req[r].pay = p

(* Refund rows and refundable balance add up to the amount; between its two *)
(* writes a refund is in both.                                             *)
RowsAndBalance(p) ==
    /\ Exists(p) /\ ~(\E r \in Requests : Applying(p, r))
          => refunds[p] + pay[p].refundable = pay[p].amount
    /\ ~Exists(p) => refunds[p] = 0

(* A refund remembers the balance as it is. *)
RefundKnows(q) ==
    /\ q.op \in RefundOps => q.saw.refundable = pay[q.pay].refundable
    /\ q.op = "refundApply" => refunds[q.pay] + pay[q.pay].refundable = pay[q.pay].amount + q.amount

RefundInv ==
    /\ \A p \in Payments : RowsAndBalance(p)
    /\ \A r \in Requests : RefundKnows(req[r])

(* What a step may do to the balance of payment p, four ways.              *)
(* BalanceStands: nothing.  BalanceMade: the payment is created with it.   *)
(* RowAdded: a refund row is inserted.  BalanceTaken: the refund's amount  *)
(* is taken from what it remembers of the balance.                         *)
BalanceStands(p) ==
    /\ Exists(p)' = Exists(p) /\ refunds'[p] = refunds[p]
    /\ pay'[p].amount = pay[p].amount /\ pay'[p].refundable = pay[p].refundable

BalanceMade(p) ==
    ~Exists(p) /\ Exists(p)' /\ refunds'[p] = refunds[p] /\ pay'[p].refundable = pay'[p].amount

RowAdded(p, r) ==
    /\ req[r].op = "refundRecord" /\ req[r].pay = p
    /\ req'[r] = [req[r] EXCEPT !.op = "refundApply"]
    /\ pay' = pay /\ refunds'[p] = refunds[p] + req[r].amount

BalanceTaken(p, r) ==
    /\ Applying(p, r) /\ req'[r].op = "idle"
    /\ Exists(p)' = Exists(p) /\ refunds'[p] = refunds[p] /\ pay'[p].amount = pay[p].amount
    /\ pay'[p].refundable = req[r].saw.refundable - req[r].amount

BalanceMoved(p) ==
    \/ BalanceStands(p) \/ BalanceMade(p)
    \/ \E r \in Requests : RowAdded(p, r) \/ BalanceTaken(p, r)

LEMMA SameRow ==
    ASSUME NEW p \in Payments, pay'[p] = pay[p], refunds'[p] = refunds[p]
    PROVE  BalanceMoved(p)
BY DEF BalanceMoved, BalanceStands, Exists

(* A row of which only other columns are written. *)
LEMMA OtherColumns ==
    ASSUME IInv, refunds' = refunds, NEW x \in Payments, NEW row,
           pay' = [pay EXCEPT ![x] = row],
           row.amount = pay[x].amount, row.refundable = pay[x].refundable,
           (row.status = "NONE") = (pay[x].status = "NONE"), NEW p \in Payments
    PROVE  BalanceMoved(p)
<1>1. pay \in [Payments -> PaymentRow]
  BY DEF IInv, TypeOK
<1>2. p # x => pay'[p] = pay[p]
  BY <1>1
<1>3. p = x => pay'[p] = row
  BY <1>1
<1>4. p = x => BalanceStands(p)
  BY <1>3 DEF BalanceStands, Exists
<1> QED
  BY <1>2, <1>4, SameRow DEF BalanceMoved

LEMMA CreationBalance ==
    ASSUME IInv, NEW r \in Requests, Creation(r), NEW p \in Payments
    PROVE  BalanceMoved(p)
<1>0. pay \in [Payments -> PaymentRow] /\ req \in [Requests -> Request]
  BY DEF IInv, TypeOK
<1>1. CASE \E d \in Demands : StaffOnline(r, d) \/ CitizenOnline(r, d)
  BY <1>1, SameRow DEF StaffOnline, CitizenOnline, dbVars
<1>2. ASSUME NEW x \in Payments, CreatePayment(r, x) PROVE BalanceMoved(p)
  <2>1. p # x => pay'[p] = pay[p] /\ refunds'[p] = refunds[p]
    BY <1>0, <1>2 DEF CreatePayment
  <2>2. p = x => BalanceMade(p)
    BY <1>0, <1>2 DEF CreatePayment, BalanceMade, Exists
  <2> QED
    BY <2>1, <2>2, SameRow DEF BalanceMoved
<1>3. CASE CheckoutRefused(r) \/ CheckoutIssued(r)
  <2> DEFINE x == req[r].pay
  <2>1. req[r] \in Request /\ req[r].op = "gateway" /\ RequestOK(req[r])
    BY <1>0, <1>3 DEF CheckoutRefused, CheckoutIssued, IInv, RequestsOK
  <2>2. x \in Payments /\ Exists(x)
    BY <2>1 DEF RequestOK, Request
  <2>3. PICK st \in {"FAILED", "PENDING"} : pay' = [pay EXCEPT ![x] = [pay[x] EXCEPT !.status = st]]
    BY <1>3 DEF CheckoutRefused, CheckoutIssued
  <2>4. refunds' = refunds
    BY <1>3 DEF CheckoutRefused, CheckoutIssued
  <2>5. pay[x] \in PaymentRow
    BY <1>0, <2>2
  <2> HIDE DEF x
  <2> DEFINE row == [pay[x] EXCEPT !.status = st]
  <2>6. row.amount = pay[x].amount /\ row.refundable = pay[x].refundable /\ row.status = st
    BY <2>5 DEF PaymentRow
  <2>7. pay' = [pay EXCEPT ![x] = row]
    BY <2>3
  <2> HIDE DEF row
  <2> QED
    BY <2>2, <2>4, <2>6, <2>7, OtherColumns DEF Exists
<1> QED
  BY <1>1, <1>2, <1>3 DEF Creation

LEMMA ReportBalance ==
    ASSUME IInv, NEW r \in Requests, Report(r) \/ Requery(r), NEW p \in Payments
    PROVE  BalanceMoved(p)
<1>0. pay \in [Payments -> PaymentRow] /\ req \in [Requests -> Request]
  BY DEF IInv, TypeOK
<1>1. CASE pay' = pay /\ refunds' = refunds
  BY <1>1, SameRow
<1>2. CASE CallbackCommit(r) \/ RequerySuccess(r) \/ RequeryUnsuccessful(r)
  <2> DEFINE x == req[r].pay
             saw == req[r].saw
  <2>1. req[r] \in Request /\ RequestOK(req[r]) /\ req[r].op \in {"callback", "requery"}
    BY <1>0, <1>2 DEF CallbackCommit, RequerySuccess, RequeryUnsuccessful, IInv, RequestsOK
  <2>2. x \in Payments /\ Exists(x) /\ saw.status # "NONE"
    BY <2>1 DEF Request, RequestOK, SawOK
  <2>3. refunds' = refunds
    BY <1>2 DEF CallbackCommit, RequerySuccess, RequeryUnsuccessful
  <2>4. pay[x] \in PaymentRow
    BY <1>0, <2>2
  <2> HIDE DEF x
  <2>5. CASE RecordSuccess(x, saw)
    <3> DEFINE row == SucceededRow(pay[x], FirstSuccess(saw) /\ Creditable(saw))
    <3>1. pay' = [pay EXCEPT ![x] = row]
      BY <2>5 DEF RecordSuccess
    <3>2. row.amount = pay[x].amount /\ row.refundable = pay[x].refundable /\ row.status = "SUCCESS"
      BY <2>4 DEF SucceededRow, PaymentRow
    <3> HIDE DEF row
    <3> QED
      BY <2>2, <2>3, <3>1, <3>2, OtherColumns DEF Exists
  <2>6. ASSUME NEW st, st # "NONE", WriteBack(x, saw, st) PROVE BalanceMoved(p)
    <3>1. PICK a : pay' = [pay EXCEPT ![x] = [pay[x] EXCEPT !.status = st, !.atomTxn = a]]
      BY <2>6 DEF WriteBack
    <3> DEFINE row == [pay[x] EXCEPT !.status = st, !.atomTxn = a]
    <3>2. row.amount = pay[x].amount /\ row.refundable = pay[x].refundable /\ row.status = st
      BY <2>4 DEF PaymentRow
    <3>3. pay' = [pay EXCEPT ![x] = row]
      BY <3>1
    <3> HIDE DEF row
    <3> QED
      BY <2>2, <2>3, <2>6, <3>2, <3>3, OtherColumns DEF Exists
  <2>7. RecordSuccess(x, saw) \/ \E st : st # "NONE" /\ WriteBack(x, saw, st)
    BY <1>2, <2>2 DEF CallbackCommit, RequerySuccess, RequeryUnsuccessful, StatusAfterReport, x
  <2> QED
    BY <2>5, <2>6, <2>7
<1>3. \/ CallbackCommit(r) \/ RequerySuccess(r) \/ RequeryUnsuccessful(r)
      \/ pay' = pay /\ refunds' = refunds
  BY DEF Report, Requery, CallbackStart, CallbackConflict, RequeryStart, SyncStart, dbVars
<1> QED
  BY <1>1, <1>2, <1>3

(* A refund that is applied takes its amount off the balance it remembers. *)
LEMMA AppliedIsTaken ==
    ASSUME IInv, NEW r \in Requests, RefundApply(r), NEW p \in Payments
    PROVE  /\ p = req[r].pay => BalanceTaken(p, r)
           /\ p # req[r].pay => pay'[p] = pay[p] /\ refunds'[p] = refunds[p]
<1> DEFINE x == req[r].pay
           left == req[r].saw.refundable - req[r].amount
           st == IF left <= 0 THEN "REFUNDED" ELSE "PARTIALLY_REFUNDED"
<1>0. pay \in [Payments -> PaymentRow] /\ req \in [Requests -> Request]
  BY DEF IInv, TypeOK
<1>1. pay' = [pay EXCEPT ![x] = [pay[x] EXCEPT !.refundable = left, !.status = st]]
  BY DEF RefundApply
<1>2. st # "NONE"
  OBVIOUS
<1>3. req[r] \in Request /\ req[r].op = "refundApply" /\ RequestOK(req[r])
  BY <1>0 DEF RefundApply, IInv, RequestsOK
<1>4. x \in Payments /\ pay[x].status # "NONE"
  BY <1>3 DEF Request, RequestOK, RefundOps, SawOK, Exists
<1>5. refunds' = refunds /\ req'[r].op = "idle"
  BY <1>0 DEF RefundApply, Done
<1>6. pay[x] \in PaymentRow
  BY <1>0, <1>4
<1> HIDE DEF left, st
<1>7. p = x => pay'[p].status = st /\ pay'[p].amount = pay[p].amount /\ pay'[p].refundable = left
  BY <1>0, <1>1, <1>6 DEF PaymentRow
<1>8. p # x => pay'[p] = pay[p]
  BY <1>0, <1>1
<1>9. p = x => BalanceTaken(p, r)
  BY <1>2, <1>3, <1>4, <1>5, <1>7 DEF BalanceTaken, Applying, Exists, left
<1> QED
  BY <1>5, <1>8, <1>9

LEMMA OtherBalance ==
    ASSUME IInv, NEW r \in Requests, Refund(r) \/ Offline(r) \/ Publish(r) \/ Crash(r),
           NEW p \in Payments
    PROVE  BalanceMoved(p)
<1>0. /\ pay \in [Payments -> PaymentRow] /\ req \in [Requests -> Request]
      /\ refunds \in [Payments -> Nat]
  BY DEF IInv, TypeOK
<1>1. CASE pay' = pay /\ refunds' = refunds
  BY <1>1, SameRow
<1>2. CASE RefundRecord(r)
  <2>1. req[r] \in Request /\ req[r].op = "refundRecord" /\ pay' = pay
    BY <1>0, <1>2 DEF RefundRecord
  <2>2. req[r].pay \in Payments
    BY <2>1 DEF Request
  <2>3. p # req[r].pay => refunds'[p] = refunds[p]
    BY <1>0, <1>2 DEF RefundRecord
  <2>4. p = req[r].pay => refunds'[p] = refunds[p] + req[r].amount
    BY <1>0, <1>2 DEF RefundRecord
  <2>5. req'[r] = [req[r] EXCEPT !.op = "refundApply"]
    BY <1>0, <1>2 DEF RefundRecord, Become
  <2>6. p = req[r].pay => RowAdded(p, r)
    BY <2>1, <2>4, <2>5 DEF RowAdded
  <2> QED
    BY <2>1, <2>3, <2>6, SameRow DEF BalanceMoved
<1>3. CASE RefundApply(r)
  <2>1. p # req[r].pay => pay'[p] = pay[p] /\ refunds'[p] = refunds[p]
    BY <1>3, AppliedIsTaken
  <2>2. p = req[r].pay => BalanceTaken(p, r)
    BY <1>3, AppliedIsTaken
  <2> QED
    BY <2>1, <2>2, SameRow DEF BalanceMoved
<1>4. ASSUME NEW x \in Payments, OfflineCommit(r, x) PROVE BalanceMoved(p)
  <2>1. p # x => pay'[p] = pay[p] /\ refunds'[p] = refunds[p]
    BY <1>0, <1>4 DEF OfflineCommit
  <2>2. p = x => BalanceMade(p)
    BY <1>0, <1>4 DEF OfflineCommit, BalanceMade, Exists
  <2> QED
    BY <2>1, <2>2, SameRow DEF BalanceMoved
<1>5. \/ RefundRecord(r) \/ RefundApply(r) \/ \E x \in Payments : OfflineCommit(r, x)
      \/ pay' = pay /\ refunds' = refunds
  BY DEF Refund, RefundStart, RefundAccepted, RefundRefused, Offline, OfflineStart,
         OfflineRejected, Publish, PublishStart, PublishWrite, PublishConflict, Crash, dbVars
<1> QED
  BY <1>1, <1>2, <1>3, <1>4, <1>5

LEMMA BalanceMoves ==
    ASSUME IInv, [Next]_vars, NEW p \in Payments
    PROVE  BalanceMoved(p)
<1>1. CASE Environment \/ UNCHANGED vars
  BY <1>1, SameRow DEF Environment, WindowExpires, GatewayPaid, GatewayDeclined, vars, dbVars
<1> QED
  BY <1>1, CreationBalance, ReportBalance, OtherBalance DEF Next

(* Where a refund under way came from. *)
RefundStarted(r) ==
    /\ pay' = pay /\ refunds' = refunds
    /\ req'[r].op = "refund" /\ req'[r].saw = pay[req'[r].pay]

RefundGiven(r) ==
    /\ pay' = pay /\ refunds' = refunds
    /\ req[r].op = "refund" /\ req'[r] = [req[r] EXCEPT !.op = "refundRecord"]

LEMMA RefundMoves ==
    ASSUME IInv, [Next]_vars, NEW r \in Requests, req'[r].op \in RefundOps, req'[r] # req[r]
    PROVE  RefundStarted(r) \/ RefundGiven(r) \/ RowAdded(req[r].pay, r)
<1>0. req \in [Requests -> Request] /\ refunds \in [Payments -> Nat]
  BY DEF IInv, TypeOK
<1>1. req' # req
  OBVIOUS
<1>2. ~Environment /\ ~UNCHANGED vars
  BY <1>1 DEF Environment, WindowExpires, GatewayPaid, GatewayDeclined, vars
<1>3. PICK s \in Requests : \/ Creation(s) \/ Report(s) \/ Requery(s) \/ Refund(s)
                            \/ Offline(s) \/ Publish(s) \/ Crash(s)
  BY <1>2 DEF Next
<1>4. \A q : req' = [req EXCEPT ![s] = q] => r = s /\ req'[r] = q
  BY <1>0
<1>5. ~Creation(s)
  BY <1>4 DEF Creation, StaffOnline, CitizenOnline, AskFor, Begin, CreatePayment, Become, CheckoutRefused,
         CheckoutIssued, Done, RefundOps
<1>6. ~Report(s) /\ ~Requery(s)
  BY <1>4 DEF Report, CallbackStart, CallbackCommit, CallbackConflict, Requery, RequeryStart,
         SyncStart, RequerySuccess, RequeryUnsuccessful, Begin, Done, RefundOps
<1>7. ~Offline(s) /\ ~Publish(s) /\ ~Crash(s)
  BY <1>4 DEF Offline, OfflineStart, Begin, OfflineCommit, OfflineRejected, Done, Publish, PublishStart,
         PublishWrite, PublishConflict, Crash, RefundOps
<1>8. ASSUME NEW p \in Payments, NEW a \in RefundAmounts, RefundStart(s, p, a)
      PROVE  RefundStarted(r)
  BY <1>4, <1>8 DEF RefundStart, Begin, RefundStarted, dbVars
<1>9. CASE RefundAccepted(s)
  BY <1>4, <1>9 DEF RefundAccepted, Become, RefundGiven, dbVars
<1>10. CASE RefundRecord(s)
  <2>1. s = r /\ req'[r] = [req[r] EXCEPT !.op = "refundApply"]
    BY <1>4, <1>10 DEF RefundRecord, Become
  <2>2. req[r] \in Request /\ req[r].op = "refundRecord" /\ pay' = pay
    BY <1>0, <1>10, <2>1 DEF RefundRecord
  <2>3. req[r].pay \in Payments
    BY <2>2 DEF Request
  <2>4. refunds'[req[r].pay] = refunds[req[r].pay] + req[r].amount
    BY <1>0, <1>10, <2>1, <2>3 DEF RefundRecord
  <2> QED
    BY <2>1, <2>2, <2>4 DEF RowAdded
<1>11. ~RefundRefused(s) /\ ~RefundApply(s)
  BY <1>4 DEF RefundRefused, RefundApply, Done, RefundOps
<1> QED
  BY <1>3, <1>5, <1>6, <1>7, <1>8, <1>9, <1>10, <1>11 DEF Refund

(* The payment of a refund under way exists. *)
LEMMA RefundsRow ==
    ASSUME IInv, NEW r \in Requests, req[r].op \in RefundOps
    PROVE  /\ req[r].pay \in Payments /\ Exists(req[r].pay)
           /\ req[r].saw \in PaymentRow /\ req[r].amount \in Nat
           /\ req[r].amount <= req[r].saw.refundable
BY DEF IInv, TypeOK, Request, RequestsOK, RequestOK, SawOK, RefundOps

(* The balance of each payment is a natural number. *)
LEMMA BalanceNat ==
    ASSUME IInv, NEW p \in Payments
    PROVE  refunds[p] \in Nat /\ pay[p].refundable \in Nat /\ pay[p].amount \in Nat
BY DEF IInv, TypeOK, PaymentRow

LEMMA NextRefundInv ==
    IInv /\ RefundsAlone /\ RefundInv /\ [Next]_vars /\ [RecordedIsApplied]_vars => RefundInv'
<1> SUFFICES ASSUME IInv, RefundsAlone, RefundInv, [Next]_vars, [RecordedIsApplied]_vars
             PROVE  RefundInv'
  OBVIOUS
<1>1. ASSUME NEW r \in Requests, req'[r].op \in RefundOps
      PROVE  RefundKnows(req[r])'
  <2>1. CASE req'[r] = req[r]
    <3> DEFINE p == req[r].pay
    <3>1. p \in Payments /\ Exists(p) /\ RefundKnows(req[r])
      BY <1>1, <2>1, RefundsRow DEF RefundInv
    <3>2. ASSUME NEW s \in Requests PROVE ~RowAdded(p, s) /\ ~BalanceTaken(p, s)
      <4>1. RowAdded(p, s) \/ BalanceTaken(p, s) => s = r
        BY <1>1, <2>1 DEF RowAdded, BalanceTaken, Applying, RefundsAlone, RefundOps
      <4>2. ~BalanceTaken(p, r)
        BY <1>1, <2>1 DEF BalanceTaken, RefundOps
      <4>3. ~RowAdded(p, r)
        <5> SUFFICES ASSUME RowAdded(p, r) PROVE FALSE
          OBVIOUS
        <5>1. req[r].op = "refundRecord" /\ req[r] = [req[r] EXCEPT !.op = "refundApply"]
          BY <2>1 DEF RowAdded
        <5>2. req[r] \in [op : {"refund", "refundRecord", "refundApply"}, pay: Payments,
                           saw: PaymentRow, amount: Nat]
          BY <5>1 DEF IInv, TypeOK, Request
        <5> QED
          BY <5>1, <5>2
      <4> QED
        BY <4>1, <4>2, <4>3
    <3>3. BalanceStands(p)
      BY <3>1, <3>2, BalanceMoves DEF BalanceMoved, BalanceMade
    <3> QED
      BY <1>1, <2>1, <3>1, <3>3 DEF RefundKnows, BalanceStands
  <2>2. CASE req'[r] # req[r]
    <3>1. CASE RefundStarted(r)
      BY <3>1 DEF RefundStarted, RefundKnows
    <3>2. req[r].op \in {"refund", "refundRecord"}
             => req[r] \in [op : {"refund", "refundRecord", "refundApply"}, pay: Payments,
                            saw: PaymentRow, amount: Nat]
      BY DEF IInv, TypeOK, Request
    <3>3. CASE RefundGiven(r)
      BY <3>2, <3>3 DEF RefundGiven, RefundKnows, RefundInv, RefundOps
    <3>4. CASE RowAdded(req[r].pay, r)
      <4> DEFINE p == req[r].pay
      <4>1. req[r].op = "refundRecord" /\ req'[r] = [req[r] EXCEPT !.op = "refundApply"]
            /\ pay' = pay /\ refunds'[p] = refunds[p] + req[r].amount
        BY <3>4 DEF RowAdded
      <4>2. p \in Payments /\ Exists(p) /\ req[r].amount \in Nat
        BY <4>1, RefundsRow DEF RefundOps
      <4>3. \A s \in Requests : ~Applying(p, s)
        BY <4>1 DEF Applying, RefundsAlone, RefundOps
      <4>4. refunds[p] + pay[p].refundable = pay[p].amount
        BY <4>2, <4>3 DEF RefundInv, RowsAndBalance
      <4>5. req'[r].pay = p /\ req'[r].amount = req[r].amount /\ req'[r].saw = req[r].saw
        BY <3>2, <4>1
      <4>6. req[r].saw.refundable = pay[p].refundable
        BY <4>1 DEF RefundInv, RefundKnows, RefundOps
      <4>7. refunds[p] \in Nat /\ pay[p].refundable \in Nat /\ pay[p].amount \in Nat
        BY <4>2, BalanceNat
      <4>8. refunds'[p] + pay[p].refundable = pay[p].amount + req[r].amount
        BY <4>1, <4>2, <4>4, <4>7
      <4> HIDE DEF p
      <4> QED
        BY <4>1, <4>5, <4>6, <4>8 DEF RefundKnows
    <3> QED
      BY <1>1, <2>2, <3>1, <3>3, <3>4, RefundMoves
  <2> QED
    BY <2>1, <2>2
<1>2. ASSUME NEW p \in Payments PROVE RowsAndBalance(p)'
  <2>1. RowsAndBalance(p)
    BY DEF RefundInv
  <2>2. ASSUME NEW r \in Requests, Applying(p, r), ~Applying(p, r)' PROVE RowsAndBalance(p)'
    <3>1. req[r].op = "refundApply" /\ req[r].pay = p /\ RefundKnows(req[r])
      BY <2>2 DEF Applying, RefundInv
    <3>2. req'[r] # req[r]
      BY <2>2 DEF Applying
    <3>3. RefundApply(r)
      BY <3>1, <3>2 DEF RecordedIsApplied, vars
    <3>4. BalanceTaken(p, r)
      BY <3>1, <3>3, AppliedIsTaken
    <3>5. Exists(p) /\ req[r].amount \in Nat /\ req[r].saw.refundable = pay[p].refundable
      BY <3>1, RefundsRow DEF RefundKnows, RefundOps
    <3>6. refunds[p] \in Nat /\ pay[p].refundable \in Nat /\ pay[p].amount \in Nat
      BY BalanceNat
    <3>7. refunds[p] + pay[p].refundable = pay[p].amount + req[r].amount
      BY <3>1 DEF RefundKnows
    <3>8. refunds'[p] + pay'[p].refundable = pay'[p].amount
      BY <3>4, <3>5, <3>6, <3>7 DEF BalanceTaken
    <3> QED
      BY <3>4, <3>5, <3>8 DEF RowsAndBalance, BalanceTaken
  <2>3. CASE \A r \in Requests : Applying(p, r) => Applying(p, r)'
    <3>1. CASE BalanceStands(p)
      BY <2>1, <2>3, <3>1 DEF RowsAndBalance, BalanceStands
    <3>2. CASE BalanceMade(p)
      <4>1. refunds[p] = 0 /\ pay'[p].refundable = pay'[p].amount /\ refunds'[p] = 0 /\ Exists(p)'
        BY <2>1, <3>2 DEF RowsAndBalance, BalanceMade
      <4>2. IInv'
        BY NextIInv
      <4>3. pay'[p].amount \in Nat
        BY <4>2 DEF IInv, TypeOK, PaymentRow
      <4> QED
        BY <4>1, <4>3 DEF RowsAndBalance
    <3>3. ASSUME NEW s \in Requests, RowAdded(p, s) PROVE RowsAndBalance(p)'
      <4>1. req[s] \in [op : {"refund", "refundRecord", "refundApply"}, pay: Payments,
                        saw: PaymentRow, amount: Nat]
        BY <3>3 DEF RowAdded, IInv, TypeOK, Request
      <4>2. Applying(p, s)'
        BY <3>3, <4>1 DEF RowAdded, Applying
      <4>3. Exists(p)'
        BY <3>3, RefundsRow DEF RowAdded, RefundOps, Exists
      <4> QED
        BY <4>2, <4>3 DEF RowsAndBalance
    <3>4. ASSUME NEW s \in Requests, BalanceTaken(p, s) PROVE FALSE
      BY <2>3, <3>4 DEF BalanceTaken, Applying
    <3> QED
      BY <3>1, <3>2, <3>3, <3>4, BalanceMoves DEF BalanceMoved
  <2> QED
    BY <2>2, <2>3
<1>3. ASSUME NEW r \in Requests PROVE RefundKnows(req[r])'
  <2>1. CASE req'[r].op \in RefundOps
    BY <1>1, <2>1
  <2>2. CASE req'[r].op \notin RefundOps
    BY <2>2 DEF RefundKnows, RefundOps
  <2> QED
    BY <2>1, <2>2
<1> QED
  BY <1>2, <1>3 DEF RefundInv

LEMMA InitRefundInv == Init => RefundInv
BY DEF Init, RefundInv, RowsAndBalance, RefundKnows, RefundOps, Exists

LEMMA RefundInvFits == IInv /\ RefundInv => RefundsWithinAmount
<1> SUFFICES ASSUME IInv, RefundInv, NEW p \in Payments PROVE refunds[p] <= pay[p].amount
  BY DEF RefundsWithinAmount
<1>1. refunds[p] \in Nat /\ pay[p].refundable \in Nat /\ pay[p].amount \in Nat /\ RowsAndBalance(p)
  BY BalanceNat DEF RefundInv
<1>2. ASSUME NEW r \in Requests, Applying(p, r) PROVE refunds[p] <= pay[p].amount
  <2>1. req[r].op = "refundApply" /\ req[r].pay = p /\ RefundKnows(req[r])
    BY <1>2 DEF Applying, RefundInv
  <2>2. /\ req[r].amount \in Nat /\ req[r].amount <= pay[p].refundable
        /\ refunds[p] + pay[p].refundable = pay[p].amount + req[r].amount
    BY <2>1, RefundsRow DEF RefundKnows, RefundOps
  <2> QED
    BY <1>1, <2>2
<1> QED
  BY <1>1, <1>2 DEF RowsAndBalance

(* Refunds stay within the payment's amount as long as no two of them are  *)
(* under way for one payment and none is cut off between its row and its   *)
(* payment: the balance that a refund checks is then the one it writes.    *)
THEOREM RefundsFitUnlessOverlapping ==
    Spec /\ []RefundsAlone /\ [][RecordedIsApplied]_vars => []RefundsWithinAmount
<1>1. Init => RefundInv
  BY InitRefundInv
<1>2. IInv /\ RefundsAlone /\ RefundInv /\ [Next]_vars /\ [RecordedIsApplied]_vars => RefundInv'
  BY NextRefundInv
<1>3. IInv /\ RefundInv => RefundsWithinAmount
  BY RefundInvFits
<1> QED
  BY <1>1, <1>2, <1>3, Invariance, PTL DEF Spec

-----------------------------------------------------------------------------
(* No payment has been refunded. *)
NothingRefunded ==
    \A p \in Payments : pay[p].status \notin {"REFUNDED", "PARTIALLY_REFUNDED"}

(* While a publish is between its reads and its write, no other request is *)
(* about to write the same demand.                                         *)
WritesDemand(q, d) ==
    \/ q.op \in {"offline", "publish"} /\ q.dem = d
    \/ q.op \in ReportOps /\ pay[q.pay].dem = d

PublishesAlone ==
    \A r, s \in Requests :
        req[r].op = "publish" /\ WritesDemand(req[s], req[r].dem) => r = s

(* The successful payments of d, as a sum over all payments. *)
Successes(d) ==
    [p \in Payments |-> IF pay[p].dem = d /\ pay[p].status = "SUCCESS" THEN pay[p].amount ELSE 0]

SuccessesNatural == \A d \in Demands : \A p \in Payments : Successes(d)[p] \in Nat

LEMMA SuccessesNat == IInv => SuccessesNatural
BY DEF SuccessesNatural, Successes, IInv, TypeOK, PaymentRow

SuccessesSummed == \A d \in Demands : SuccessPayments(d) = SumOver(Successes(d), Payments)

LEMMA SuccessesSum == IInv => SuccessesSummed
<1> SUFFICES ASSUME IInv, NEW d \in Demands
             PROVE  SuccessPayments(d) = SumOver(Successes(d), Payments)
  BY DEF SuccessesSummed
<1> DEFINE S == {p \in Payments : pay[p].dem = d /\ pay[p].status = "SUCCESS"}
           f == Successes(d)
           Adds(g) == g = [s \in SUBSET S |->
                             IF s = {} THEN 0 ELSE pay[PickOf(s)].amount + g[s \ {PickOf(s)}]]
           sums == CHOOSE g : Adds(g)
<1>1. IsFiniteSet(S) /\ S \subseteq S /\ S \subseteq Payments
  BY PaymentsAssumption, FS_Subset
<1>2. (\A p \in Payments : f[p] \in Int) /\ (\A p \in Payments \ S : f[p] = 0)
  <2>1. \A p \in Payments : f[p] \in Nat
    BY SuccessesNat DEF SuccessesNatural
  <2>2. \A p \in Payments \ S : f[p] = 0
    BY DEF Successes
  <2> HIDE DEF f
  <2> QED
    BY <2>1, <2>2
<1>3. SuccessPayments(d) = sums[S]
  BY DEF SuccessPayments, MapThenSumSet, MapThenFoldSet, PickOf
<1>4. ASSUME NEW g PROVE Adds(g) <=> Sums(g, f, S)
  <2>1. \A s \in SUBSET S : s # {} => f[PickOf(s)] = pay[PickOf(s)].amount
    BY DEF PickOf, Successes
  <2> HIDE DEF f, S
  <2> QED
    BY <2>1 DEF Sums
<1>5. Sums(sums, f, S)
  <2>1. PICK g : Sums(g, f, S)
    BY <1>1, SumsExist
  <2>2. Adds(g)
    BY <1>4, <2>1
  <2> HIDE DEF Adds
  <2> QED
    BY <1>4, <2>2
<1> HIDE DEF f, S, sums
<1>6. SumOver(f, S) = sums[S] /\ SumOver(f, Payments) = SumOver(f, S)
  BY <1>1, <1>2, <1>5, SumIsThat, SumRestrict, PaymentsAssumption
<1> QED
  BY <1>3, <1>6 DEF f

(* What was paid successfully stays so. *)
SuccessStays(p) ==
    pay[p].status = "SUCCESS" =>
        /\ pay'[p].status = "SUCCESS"
        /\ pay'[p].dem = pay[p].dem /\ pay'[p].amount = pay[p].amount

LEMMA SuccessesGrow ==
    ASSUME IInv, IInv', \A p \in Payments : SuccessStays(p), NEW d \in Demands
    PROVE  /\ SuccessPayments(d) \in Nat /\ SuccessPayments(d)' \in Nat
           /\ SuccessPayments(d) <= SuccessPayments(d)'
           /\ \A p \in Payments :
                pay[p].status # "SUCCESS" /\ pay'[p].status = "SUCCESS" /\ pay'[p].dem = d
                => SuccessPayments(d) + pay'[p].amount <= SuccessPayments(d)'
<1> DEFINE f == Successes(d)
           h == Successes(d)'
<1>1. \A p \in Payments : f[p] \in Nat
  BY SuccessesNat DEF SuccessesNatural
<1>2. \A p \in Payments : h[p] \in Nat
  <2>1. SuccessesNatural'
    BY SuccessesNat, PTL
  <2> QED
    BY <2>1 DEF SuccessesNatural
<1>3. SuccessPayments(d) = SumOver(f, Payments)
  BY SuccessesSum DEF SuccessesSummed
<1>4. SuccessPayments(d)' = SumOver(h, Payments)
  <2>1. SuccessesSummed'
    BY SuccessesSum, PTL
  <2> QED
    BY <2>1 DEF SuccessesSummed
<1>5. \A p \in Payments : f[p] <= h[p]
  <2> SUFFICES ASSUME NEW p \in Payments PROVE f[p] <= h[p]
    OBVIOUS
  <2>1. CASE f[p] = 0
    BY <1>2, <2>1
  <2>2. CASE f[p] # 0
    <3>1. pay[p].dem = d /\ pay[p].status = "SUCCESS" /\ f[p] = pay[p].amount
      BY <2>2 DEF Successes
    <3>2. h[p] = pay[p].amount
      BY <3>1 DEF SuccessStays, Successes
    <3> QED
      BY <1>1, <3>1, <3>2
  <2> QED
    BY <2>1, <2>2
<1>6. ASSUME NEW p \in Payments, pay[p].status # "SUCCESS", pay'[p].status = "SUCCESS", pay'[p].dem = d
      PROVE  SumOver(f, Payments) + pay'[p].amount <= SumOver(h, Payments)
  <2> DEFINE g == [x \in Payments |-> IF x = p THEN 0 ELSE h[x]]
  <2>1. f[p] = 0 /\ h[p] = pay'[p].amount
    BY <1>6 DEF Successes
  <2> HIDE DEF f, h
  <2>2. \A x \in Payments : g[x] \in Nat /\ f[x] <= g[x]
    BY <1>1, <1>2, <1>5, <2>1
  <2>3. g[p] = 0 /\ \A x \in Payments : x # p => h[x] = g[x]
    OBVIOUS
  <2> HIDE DEF g
  <2>4. SumOver(h, Payments) = SumOver(g, Payments) + (h[p] - g[p])
    BY <1>1, <1>2, <2>2, <2>3, SumUpdate, PaymentsAssumption
  <2>5. SumOver(f, Payments) <= SumOver(g, Payments)
    BY <1>1, <2>2, SumOrder, PaymentsAssumption
  <2>6. SumOver(f, Payments) \in Nat /\ SumOver(g, Payments) \in Nat /\ h[p] \in Nat
    BY <1>1, <1>2, <2>2, SumNat, PaymentsAssumption
  <2>7. SumOver(f, Payments) + h[p] <= SumOver(h, Payments)
    BY <2>3, <2>4, <2>5, <2>6
  <2> QED
    BY <2>1, <2>7
<1> HIDE DEF f, h
<1>7. SumOver(f, Payments) <= SumOver(h, Payments)
  BY <1>1, <1>2, <1>5, SumOrder, PaymentsAssumption
<1>8. SumOver(f, Payments) \in Nat /\ SumOver(h, Payments) \in Nat
  BY <1>1, <1>2, SumNat, PaymentsAssumption
<1> QED
  BY <1>3, <1>4, <1>6, <1>7, <1>8

(* What a step may do to the amount paid of demand d, besides nothing.     *)
(* Credited: an online payment is credited.  Collected: a payment is taken *)
(* at the counter.  Published: a publish writes what it summed up.         *)
Credited(d, p, r) ==
    /\ req[r].op \in ReportOps /\ req[r].pay = p
    /\ pay[p].dem = d /\ pay'[p].dem = d
    /\ FirstSuccess(req[r].saw) /\ pay'[p].status = "SUCCESS"
    /\ demand'[d].paid = demand[d].paid + pay'[p].amount

Collected(d, p, r) ==
    /\ req[r].op = "offline" /\ req[r].dem = d
    /\ ~Exists(p) /\ pay'[p].status = "SUCCESS" /\ pay'[p].dem = d
    /\ demand'[d].paid = demand[d].paid + pay'[p].amount

Published(d, r) ==
    /\ req[r].op = "publish" /\ req[r].dem = d /\ req'[r].op = "idle"
    /\ pay' = pay /\ demand'[d].paid = req[r].paid

PaidMoved(d) ==
    \/ demand'[d].paid = demand[d].paid
    \/ \E r \in Requests : Published(d, r)
    \/ \E p \in Payments, r \in Requests : Credited(d, p, r) \/ Collected(d, p, r)

LEMMA PaidMoves ==
    ASSUME IInv, [Next]_vars, NEW d \in Demands
    PROVE  PaidMoved(d)
<1>0. /\ req \in [Requests -> Request] /\ pay \in [Payments -> PaymentRow]
      /\ demand \in [Demands -> DemandRow]
  BY DEF IInv, TypeOK
<1>1. CASE demand' = demand
  BY <1>1 DEF PaidMoved
<1>2. ASSUME NEW r \in Requests, NEW saw, NEW x \in Payments,
             CallbackCommit(r) \/ RequerySuccess(r), saw = req[r].saw, x = req[r].pay,
             RecordSuccess(x, saw)
      PROVE  PaidMoved(d)
  <2> DEFINE credit == FirstSuccess(saw) /\ Creditable(saw)
  <2>1. req[r].op \in ReportOps /\ RequestOK(req[r])
    BY <1>2 DEF CallbackCommit, RequerySuccess, ReportOps, IInv, RequestsOK
  <2>2. saw.dem = pay[x].dem /\ saw.amount = pay[x].amount
    BY <1>2, <2>1 DEF RequestOK, SawOK, ReportOps
  <2>3. demand' = IF credit THEN [demand EXCEPT ![saw.dem] = AfterPayment(demand[saw.dem], saw.amount)]
                  ELSE demand
    BY <1>2 DEF RecordSuccess
  <2>4. CASE ~credit \/ saw.dem # d
    BY <1>0, <2>3, <2>4 DEF PaidMoved
  <2>5. CASE credit /\ saw.dem = d
    <3>1. demand'[d].paid = demand[d].paid + saw.amount
      <4>1. demand'[d] = AfterPayment(demand[d], saw.amount)
        BY <1>0, <2>3, <2>5
      <4>2. demand[d] \in DemandRow /\ pay[x] \in PaymentRow
        BY <1>0
      <4>3. saw.amount \in Nat
        BY <2>2, <4>2 DEF PaymentRow
      <4> QED
        BY <4>1, <4>2, <4>3, AfterPaymentRow
    <3>2. pay'[x].status = "SUCCESS" /\ pay'[x].dem = pay[x].dem /\ pay'[x].amount = pay[x].amount
      BY <1>2, RecordedMoves
    <3>3. FirstSuccess(saw)
      BY <2>5
    <3>4. Credited(d, x, r)
      BY <1>2, <2>1, <2>2, <2>5, <3>1, <3>2, <3>3 DEF Credited
    <3> QED
      BY <3>4 DEF PaidMoved
  <2> QED
    BY <2>4, <2>5
<1>3. ASSUME NEW r \in Requests, NEW p \in Payments, OfflineCommit(r, p) PROVE PaidMoved(d)
  <2> DEFINE q == req[r]
  <2>1. q \in Request /\ q.op = "offline"
    BY <1>0, <1>3 DEF OfflineCommit
  <2>2. q.dem \in Demands /\ q.amount \in Nat
    BY <2>1 DEF Request
  <2>3. demand' = [demand EXCEPT ![q.dem] = AfterPayment(demand[q.dem], q.amount)]
    BY <1>3 DEF OfflineCommit
  <2>4. CASE q.dem # d
    BY <1>0, <2>3, <2>4 DEF PaidMoved
  <2>5. CASE q.dem = d
    <3>1. demand'[d].paid = demand[d].paid + q.amount
      <4>1. demand'[d] = AfterPayment(demand[d], q.amount) /\ demand[d] \in DemandRow
        BY <1>0, <2>3, <2>5
      <4> QED
        BY <2>2, <4>1, AfterPaymentRow
    <3>2. /\ pay'[p].status = "SUCCESS" /\ pay'[p].dem = q.dem /\ pay'[p].amount = q.amount
          /\ ~Exists(p)
      BY <1>0, <1>3 DEF OfflineCommit
    <3>3. Collected(d, p, r)
      BY <2>1, <2>5, <3>1, <3>2 DEF Collected
    <3> QED
      BY <3>3 DEF PaidMoved
  <2> QED
    BY <2>4, <2>5
<1>4. ASSUME NEW r \in Requests, PublishWrite(r) PROVE PaidMoved(d)
  <2>1. req[r].op = "publish" /\ pay' = pay /\ req'[r].op = "idle"
    BY <1>0, <1>4 DEF PublishWrite, Done
  <2>2. req[r].dem # d => demand'[d] = demand[d]
    BY <1>0, <1>4 DEF PublishWrite
  <2>3. req[r].dem = d => demand'[d].paid = req[r].paid
    BY <1>0, <1>4 DEF PublishWrite
  <2>4. req[r].dem = d => Published(d, r)
    BY <2>1, <2>3 DEF Published
  <2> QED
    BY <2>2, <2>4 DEF PaidMoved
<1>5. CASE Environment \/ UNCHANGED vars
  <2>1. demand' = demand
    BY <1>5 DEF Environment, WindowExpires, GatewayPaid, GatewayDeclined, vars, dbVars
  <2> QED
    BY <1>1, <2>1
<1>6. ASSUME NEW r \in Requests, Creation(r) \/ Refund(r) \/ Crash(r) PROVE PaidMoved(d)
  <2>1. demand' = demand
    BY <1>6 DEF Creation, StaffOnline, CitizenOnline, CreatePayment, CheckoutRefused, CheckoutIssued,
         Refund, RefundStart, RefundAccepted, RefundRefused, RefundRecord, RefundApply, Crash, dbVars
  <2> QED
    BY <1>1, <2>1
<1>7. ASSUME NEW r \in Requests, Report(r) \/ Requery(r) PROVE PaidMoved(d)
  <2>1. \/ demand' = demand
        \/ /\ CallbackCommit(r) \/ RequerySuccess(r)
           /\ RecordSuccess(req[r].pay, req[r].saw)
    BY <1>7 DEF Report, CallbackStart, CallbackCommit, CallbackConflict, Requery, RequeryStart, SyncStart,
         RequerySuccess, RequeryUnsuccessful, WriteBack, dbVars
  <2>2. CallbackCommit(r) \/ RequerySuccess(r) => req[r].pay \in Payments
    BY <1>0 DEF CallbackCommit, RequerySuccess, Request
  <2> QED
    BY <1>1, <1>2, <2>1, <2>2
<1>8. ASSUME NEW r \in Requests, Offline(r) \/ Publish(r) PROVE PaidMoved(d)
  <2>1. \/ demand' = demand \/ PublishWrite(r) \/ \E p \in Payments : OfflineCommit(r, p)
    BY <1>8 DEF Offline, OfflineStart, OfflineRejected, Publish, PublishStart, PublishConflict, dbVars
  <2> QED
    BY <1>1, <1>3, <1>4, <2>1
<1> QED
  BY <1>5, <1>6, <1>7, <1>8 DEF Next

(* A demand counts as paid no more than its successful payments, and a     *)
(* publish under way will write no less than is counted now.               *)
PublishKnows(q) ==
    q.op = "publish" => demand[q.dem].paid <= q.paid /\ q.paid <= SuccessPayments(q.dem)

PaidInv ==
    /\ \A d \in Demands : demand[d].paid <= SuccessPayments(d)
    /\ \A r \in Requests : PublishKnows(req[r])

(* A publish that is under way after a step was so before it, or has just  *)
(* read the payments, and the step changes nothing else.                   *)
LEMMA PublishRead ==
    ASSUME IInv, [Next]_vars, NEW r \in Requests, req'[r].op = "publish", req'[r] # req[r]
    PROVE  /\ pay' = pay /\ demand' = demand
           /\ req'[r].dem \in Demands /\ req'[r].paid = SuccessPayments(req'[r].dem)
<1>0. req \in [Requests -> Request]
  BY DEF IInv, TypeOK
<1>1. req' # req
  OBVIOUS
<1>2. ~Environment /\ ~UNCHANGED vars
  BY <1>1 DEF Environment, WindowExpires, GatewayPaid, GatewayDeclined, vars
<1>3. PICK s \in Requests : \/ Creation(s) \/ Report(s) \/ Requery(s) \/ Refund(s)
                            \/ Offline(s) \/ Publish(s) \/ Crash(s)
  BY <1>2 DEF Next
<1>4. \A q : req' = [req EXCEPT ![s] = q] => r = s /\ req'[r] = q
  BY <1>0
<1>5. ~Creation(s)
  BY <1>4 DEF Creation, StaffOnline, CitizenOnline, AskFor, Begin, CreatePayment, Become, CheckoutRefused,
         CheckoutIssued, Done
<1>6. ~Report(s) /\ ~Requery(s)
  BY <1>4 DEF Report, CallbackStart, CallbackCommit, CallbackConflict, Requery, RequeryStart,
         SyncStart, RequerySuccess, RequeryUnsuccessful, Begin, Done
<1>7. ~Refund(s)
  <2>1. ~RefundAccepted(s)
    BY <1>0, <1>4 DEF RefundAccepted, Become, Request
  <2>2. ~RefundRecord(s)
    BY <1>0, <1>4 DEF RefundRecord, Become, Request
  <2> QED
    BY <2>1, <2>2, <1>4 DEF Refund, RefundStart, Begin, RefundRefused, Done, RefundApply
<1>8. ~Offline(s) /\ ~Crash(s)
  BY <1>4 DEF Offline, OfflineStart, Begin, OfflineCommit, OfflineRejected, Done, Crash
<1>9. PICK d \in Demands, t \in Totals : PublishStart(s, d, t)
  <2>1. Publish(s)
    BY <1>3, <1>5, <1>6, <1>7, <1>8
  <2>2. ~PublishWrite(s) /\ ~PublishConflict(s)
    BY <1>4 DEF PublishWrite, PublishConflict, Done
  <2> QED
    BY <2>1, <2>2 DEF Publish
<1>10. /\ req'[r] = [op |-> "publish", dem |-> d, existed |-> demand[d].status # "ABSENT",
                     total |-> t, paid |-> SuccessPayments(d)]
       /\ pay' = pay /\ demand' = demand
  BY <1>4, <1>9 DEF PublishStart, Begin
<1> QED
  BY <1>10

(* Without overlap and refunds a success stays. *)
LEMMA SuccessesStay ==
    ASSUME IInv, ReportInv, NothingRefunded', [Next]_vars, NEW p \in Payments
    PROVE  SuccessStays(p)
<1> SUFFICES ASSUME pay[p].status = "SUCCESS"
             PROVE  /\ pay'[p].status = "SUCCESS"
                    /\ pay'[p].dem = pay[p].dem /\ pay'[p].amount = pay[p].amount
  BY DEF SuccessStays
<1>1. ~AskedOnline(p) /\ ~TakenAtCounter(p)
  BY DEF AskedOnline, TakenAtCounter, Exists
<1>2. CASE MovesOn(p)
  BY <1>2 DEF MovesOn, Kept, Settled, NothingRefunded
<1>3. ASSUME NEW r \in Requests, Reported(p, r)
      PROVE  /\ pay'[p].status = "SUCCESS"
             /\ pay'[p].dem = pay[p].dem /\ pay'[p].amount = pay[p].amount
  BY <1>3 DEF Reported, Kept, ReportInv, ReportKnows
<1> QED
  BY <1>1, <1>2, <1>3, RowMoves DEF RowMoved

LEMMA NextPaidInv ==
    IInv /\ IInv' /\ ReportInv /\ NothingRefunded' /\ PublishesAlone /\ PaidInv /\ [Next]_vars
        => PaidInv'
<1> SUFFICES ASSUME IInv, IInv', ReportInv, NothingRefunded', PublishesAlone, PaidInv, [Next]_vars
             PROVE  PaidInv'
  OBVIOUS
<1>0. \A p \in Payments : SuccessStays(p)
  BY SuccessesStay
<1>1. ASSUME NEW d \in Demands PROVE demand'[d].paid <= SuccessPayments(d)'
  <2>1. /\ SuccessPayments(d) \in Nat /\ SuccessPayments(d)' \in Nat
        /\ SuccessPayments(d) <= SuccessPayments(d)'
        /\ \A p \in Payments :
             pay[p].status # "SUCCESS" /\ pay'[p].status = "SUCCESS" /\ pay'[p].dem = d
             => SuccessPayments(d) + pay'[p].amount <= SuccessPayments(d)'
    BY <1>0, SuccessesGrow
  <2>2. demand[d].paid <= SuccessPayments(d) /\ demand[d].paid \in Nat
    BY DEF PaidInv, IInv, TypeOK, DemandRow
  <2>3. \A p \in Payments : pay'[p].amount \in Nat
    BY DEF IInv, TypeOK, PaymentRow
  <2>4. ASSUME NEW p \in Payments, NEW r \in Requests, Credited(d, p, r) \/ Collected(d, p, r)
        PROVE  demand'[d].paid <= SuccessPayments(d)'
    <3>1. /\ pay'[p].status = "SUCCESS" /\ pay'[p].dem = d
          /\ demand'[d].paid = demand[d].paid + pay'[p].amount
      BY <2>4 DEF Credited, Collected
    <3>2. pay[p].status # "SUCCESS"
      <4>1. CASE Credited(d, p, r)
        BY <4>1 DEF Credited, FirstSuccess, ReportInv, ReportKnows
      <4>2. CASE Collected(d, p, r)
        BY <4>2 DEF Collected, Exists
      <4> QED
        BY <2>4, <4>1, <4>2
    <3>3. SuccessPayments(d) + pay'[p].amount <= SuccessPayments(d)'
      BY <2>1, <3>1, <3>2
    <3> HIDE DEF SuccessPayments
    <3> QED
      BY <2>1, <2>2, <2>3, <3>1, <3>3
  <2>5. ASSUME NEW r \in Requests, Published(d, r) PROVE demand'[d].paid <= SuccessPayments(d)'
    <3>1. demand'[d].paid <= SuccessPayments(d)
      BY <2>5 DEF Published, PaidInv, PublishKnows
    <3>2. demand'[d].paid \in Nat
      BY DEF IInv, TypeOK, DemandRow
    <3> QED
      BY <2>1, <3>1, <3>2
  <2>6. CASE demand'[d].paid = demand[d].paid
    BY <2>1, <2>2, <2>6
  <2> QED
    BY <2>4, <2>5, <2>6, PaidMoves DEF PaidMoved
<1>2. ASSUME NEW r \in Requests, req'[r].op = "publish" PROVE PublishKnows(req[r])'
  <2>1. CASE req'[r] # req[r]
    <3>1. PICK d \in Demands : d = req'[r].dem
      BY <1>2, <2>1, PublishRead
    <3>2. demand' = demand /\ req'[r].paid = SuccessPayments(d)
      <4>1. demand' = demand /\ req'[r].paid = SuccessPayments(req'[r].dem)
        BY <1>2, <2>1, PublishRead
      <4> QED
        BY <3>1, <4>1
    <3>3. demand[d].paid <= SuccessPayments(d)
      BY DEF PaidInv
    <3>4. SuccessPayments(d) <= SuccessPayments(d)'
      BY <1>0, SuccessesGrow
    <3>5. SuccessPayments(d)' = (SuccessPayments(req[r].dem))'
      BY <3>1 DEF SuccessPayments
    <3> QED
      BY <3>1, <3>2, <3>3, <3>4, <3>5 DEF PublishKnows
  <2>2. CASE req'[r] = req[r]
    <3>1. req[r] \in Request /\ req[r].op = "publish"
      BY <1>2, <2>2 DEF IInv, TypeOK
    <3>2. PICK d \in Demands : d = req[r].dem
      BY <3>1 DEF Request
    <3>3. demand[d].paid <= req[r].paid /\ req[r].paid <= SuccessPayments(d) /\ req[r].paid \in Nat
      BY <3>1, <3>2 DEF PaidInv, PublishKnows, Request
    <3>4. /\ SuccessPayments(d) \in Nat /\ SuccessPayments(d)' \in Nat
          /\ SuccessPayments(d) <= SuccessPayments(d)'
      BY <1>0, SuccessesGrow
    <3>5. ASSUME NEW s \in Requests, Published(d, s) PROVE FALSE
      <4>1. r = s
        BY <3>1, <3>2, <3>5 DEF Published, PublishesAlone, WritesDemand
      <4> QED
        BY <1>2, <3>5, <4>1 DEF Published
    <3>6. ASSUME NEW s \in Requests, NEW p \in Payments, Credited(d, p, s) \/ Collected(d, p, s)
          PROVE  FALSE
      <4>1. WritesDemand(req[s], d)
        BY <3>6 DEF Credited, Collected, WritesDemand
      <4>2. r = s
        BY <3>1, <3>2, <4>1 DEF PublishesAlone
      <4> QED
        BY <3>1, <3>6, <4>2 DEF Credited, Collected, ReportOps
    <3>7. demand'[d].paid = demand[d].paid
      BY <3>5, <3>6, PaidMoves DEF PaidMoved
    <3>8. req[r].paid <= SuccessPayments(d)'
      BY <3>3, <3>4
    <3>9. SuccessPayments(d)' = (SuccessPayments(req[r].dem))'
      BY <2>2, <3>2 DEF SuccessPayments
    <3> QED
      BY <2>2, <3>2, <3>3, <3>7, <3>8, <3>9 DEF PublishKnows
  <2> QED
    BY <2>1, <2>2
<1>3. ASSUME NEW r \in Requests PROVE PublishKnows(req[r])'
  <2>1. CASE req'[r].op = "publish"
    BY <1>2, <2>1
  <2>2. CASE req'[r].op # "publish"
    BY <2>2 DEF PublishKnows
  <2> QED
    BY <2>1, <2>2
<1> QED
  BY <1>1, <1>3 DEF PaidInv

LEMMA InitPaidInv == Init => PaidInv
<1> SUFFICES ASSUME Init PROVE PaidInv
  OBVIOUS
<1>1. ASSUME NEW d \in Demands PROVE demand[d].paid <= SuccessPayments(d)
  <2>1. SuccessPayments(d) \in Nat
    BY InitIInv, SuccessPaymentsNat
  <2> QED
    BY <2>1 DEF Init
<1>2. \A r \in Requests : PublishKnows(req[r])
  BY DEF Init, PublishKnows
<1> QED
  BY <1>1, <1>2 DEF PaidInv

LEMMA PaidStep ==
    IInv /\ PaidInv /\ [Next]_vars
        => [\A d \in Demands : demand'[d].paid >= demand[d].paid]_vars
<1> SUFFICES ASSUME IInv, PaidInv, [Next]_vars, NEW d \in Demands
             PROVE  demand'[d].paid >= demand[d].paid
  OBVIOUS
<1>1. demand[d].paid \in Nat /\ demand'[d].paid \in Nat
  <2>1. IInv'
    BY NextIInv
  <2> QED
    BY <2>1 DEF IInv, TypeOK, DemandRow
<1>2. \A p \in Payments : pay'[p].amount \in Nat
  <2>1. IInv'
    BY NextIInv
  <2> QED
    BY <2>1 DEF IInv, TypeOK, PaymentRow
<1>3. ASSUME NEW r \in Requests, Published(d, r) PROVE demand'[d].paid >= demand[d].paid
  <2>1. req[r] \in Request /\ PublishKnows(req[r])
    BY DEF IInv, TypeOK, PaidInv
  <2>2. demand[d].paid <= demand'[d].paid
    BY <1>3, <2>1 DEF Published, PublishKnows
  <2> QED
    BY <1>1, <2>2
<1>4. ASSUME NEW p \in Payments, NEW r \in Requests, Credited(d, p, r) \/ Collected(d, p, r)
      PROVE  demand'[d].paid >= demand[d].paid
  <2>1. demand'[d].paid = demand[d].paid + pay'[p].amount
    BY <1>4 DEF Credited, Collected
  <2> QED
    BY <1>1, <1>2, <2>1
<1> QED
  BY <1>1, <1>3, <1>4, PaidMoves DEF PaidMoved

(* What a demand counts as paid never drops as long as nothing is refunded,*)
(* no two reports of one payment overlap and no publish overlaps a credit, *)
(* a collection or a publish of its demand: what a publish sums up outside *)
(* a transaction is then no less than what the demand counts already.      *)
THEOREM PaidGrowsUnlessOverlapping ==
    Spec /\ []ReportsAlone /\ []NothingRefunded /\ []PublishesAlone => PaidNeverDrops
<1>1. Init => ReportInv /\ PaidInv
  BY InitReportInv, InitPaidInv
<1>2. IInv /\ IInv' /\ UnusedUncredited /\ ReportsAlone /\ ReportInv /\ [Next]_vars => ReportInv'
  BY NextReportInv
<1>3. IInv /\ IInv' /\ ReportInv /\ NothingRefunded' /\ PublishesAlone /\ PaidInv /\ [Next]_vars
        => PaidInv'
  BY NextPaidInv
<1>4. IInv /\ PaidInv /\ [Next]_vars
        => [\A d \in Demands : demand'[d].paid >= demand[d].paid]_vars
  BY PaidStep
<1> QED
  BY <1>1, <1>2, <1>3, <1>4, Invariance, Uncredited, PTL DEF Spec, PaidNeverDrops

=============================================================================
