----------------------------- MODULE SiteProofs -----------------------------
(* Proofs about what the public and the gateway see: the books of office   *)
(* and gateway, whatever forms the messages between them take.             *)
EXTENDS Gateway, CitizenSite, TLAPS

-----------------------------------------------------------------------------
(* The gateway.                                                            *)

ChargeRow == [st : {"NONE", "INITIATED", "PENDING", "FAILED"} \cup Refundable, amount : Nat,
              day : Nat, refundable : Nat, txn : BOOLEAN, receipt : BOOLEAN, seen : BOOLEAN]
Order == [known : BOOLEAN, asked : Nat, day : Nat, token : BOOLEAN, paid : BOOLEAN,
          said : SUBSET {"waiting", "declined", "paid"}, given : Nat]
RefundBook == [tries : Nat, rows : Nat, sum : Nat, unheard : Nat]

GatewayShape == charge \in ChargeRow /\ ndps \in Order /\ today \in Nat /\ refund \in RefundBook

(* What the gateway knows and says of the order is true of the payment. *)
OrderIsOurs ==
    /\ ndps.known => ndps.asked = charge.amount /\ charge.st # "NONE"
    /\ ndps.token => ndps.known
    /\ ndps.paid => ndps.token
    /\ "paid" \in ndps.said => ndps.paid

SettledIsPaid == charge.st \in Refundable \/ charge.receipt => ndps.paid

(* Nothing is given back before there is a payment. *)
NothingYet ==
    charge.st = "NONE" => charge.amount = 0 /\ charge.refundable = 0 /\ refund.sum = 0

RefundsAdded ==
    /\ charge.refundable + refund.sum = charge.amount
    /\ ndps.given <= refund.sum + refund.unheard
    /\ refund.sum + refund.unheard <= ndps.given + 99 * refund.rows

GatewayInv == GatewayShape /\ OrderIsOurs /\ SettledIsPaid /\ NothingYet /\ RefundsAdded

LEMMA GatewayFields ==
    ASSUME GatewayShape
    PROVE  /\ charge.st \in {"NONE", "INITIATED", "PENDING", "FAILED"} \cup Refundable
           /\ charge.amount \in Nat /\ charge.day \in Nat /\ charge.refundable \in Nat
           /\ charge.txn \in BOOLEAN /\ charge.receipt \in BOOLEAN /\ charge.seen \in BOOLEAN
           /\ ndps.known \in BOOLEAN /\ ndps.asked \in Nat /\ ndps.day \in Nat
           /\ ndps.token \in BOOLEAN /\ ndps.paid \in BOOLEAN
           /\ ndps.said \in SUBSET {"waiting", "declined", "paid"} /\ ndps.given \in Nat
           /\ refund.tries \in Nat /\ refund.rows \in Nat /\ refund.sum \in Nat
           /\ refund.unheard \in Nat
BY DEF GatewayShape, ChargeRow, Order, RefundBook

(* The requests to give back carry all but the paise. *)
LEMMA PaiseAreLost ==
    ASSUME NEW a \in Nat
    PROVE  RefundPayload(a) \in Nat /\ RefundPayload(a) <= a /\ a <= RefundPayload(a) + 99
BY DEF RefundPayload, WholeRupees

(* A message that reads as a success is one about a paid order. *)
LEMMA SuccessIsPaid ==
    ASSUME NEW outcome \in {"waiting", "declined", "paid"}, NEW form \in Forms
    PROVE  LET m == Message(outcome, form) IN
           /\ SuccessCode(StatusOf(m)) \/ m.text = "SUCCESS" => outcome = "paid"
           /\ m.txn \in BOOLEAN
<1> DEFINE code == CASE outcome = "paid" -> "OTS0000" [] outcome = "declined" -> "OTS0600"
                     [] OTHER -> None
           text == CASE outcome = "paid" -> "SUCCESS" [] outcome = "declined" -> "FAILED"
                     [] OTHER -> None
           root == IF form = "flat" THEN code ELSE None
           coded == IF form \in {"full", "noAmount"} THEN code ELSE None
           said == IF form = "flat" THEN None ELSE text
           amount == IF form = "noAmount" THEN {} ELSE {ndps.asked}
           txn == outcome # "waiting"
           m == [root |-> root, code |-> coded, text |-> said, amount |-> amount, txn |-> txn]
<1>1. Message(outcome, form) = m
  BY Zenon DEF Message
<1>2. /\ txn \in BOOLEAN
      /\ outcome # "paid" => /\ root \in {None, "OTS0600"} /\ coded \in {None, "OTS0600"}
                             /\ said \in {None, "FAILED"}
  BY DEF None
<1> HIDE DEF code, text, root, coded, said, amount, txn
<1>3. m.root = root /\ m.code = coded /\ m.text = said /\ m.txn = txn
  OBVIOUS
<1> HIDE DEF m
<1>4. outcome # "paid" => StatusOf(m) \in {"OTS0600", "FAILED", "UNKNOWN"} /\ m.text # "SUCCESS"
  BY <1>2, <1>3 DEF StatusOf, None
<1> QED
  BY <1>1, <1>2, <1>3, <1>4 DEF SuccessCode

(* A step of the payment row alone. *)
LEMMA RowMoves ==
    ASSUME GatewayInv, NEW st \in {"PENDING", "FAILED", charge.st, "SUCCESS"}, NEW txn \in BOOLEAN,
           NEW receipt \in BOOLEAN, NEW seen \in BOOLEAN, charge.st # "NONE",
           charge' = [charge EXCEPT !.st = st, !.txn = txn, !.receipt = receipt, !.seen = seen],
           (st = "SUCCESS" \/ receipt) => (ndps.paid \/ charge.st \in Refundable \/ charge.receipt),
           UNCHANGED <<today, refund>>,
           ndps' \in Order, UNCHANGED <<ndps.paid, ndps.said, ndps.given>>,
           ndps'.known => ndps'.asked = charge.amount,
           ndps'.token => ndps'.known, ndps.token => ndps'.token
    PROVE  GatewayInv'
<1>1. charge \in ChargeRow
  BY DEF GatewayInv, GatewayShape
<1>2. st \in {"NONE", "INITIATED", "PENDING", "FAILED"} \cup Refundable /\ st # "NONE"
  BY GatewayFields DEF GatewayInv, Refundable
<1>3. charge'.st = st /\ charge'.receipt = receipt
  BY <1>1 DEF ChargeRow
<1>4. charge'.amount = charge.amount /\ charge'.refundable = charge.refundable
  BY <1>1 DEF ChargeRow
<1>5. charge' \in ChargeRow
  BY <1>1, <1>2 DEF ChargeRow
<1>6. GatewayShape'
  BY <1>5 DEF GatewayInv, GatewayShape
<1>7. OrderIsOurs'
  BY <1>2, <1>3, <1>4 DEF GatewayInv, OrderIsOurs
<1>8. SettledIsPaid'
  BY <1>3 DEF GatewayInv, SettledIsPaid, Refundable
<1>9. NothingYet'
  BY <1>2, <1>3 DEF NothingYet
<1>10. RefundsAdded'
  BY <1>4 DEF GatewayInv, RefundsAdded
<1> QED
  BY <1>6, <1>7, <1>8, <1>9, <1>10 DEF GatewayInv

LEMMA MessagesMove ==
    ASSUME GatewayInv, NEW outcome \in ndps.said, NEW form \in Forms,
           \/ ndps.known /\ Callback(Message(outcome, form))
           \/ \E settledToo \in BOOLEAN : Requery(StatusAnswer(outcome, form), settledToo)
    PROVE  GatewayInv'
<1>1. /\ outcome \in {"waiting", "declined", "paid"} /\ (outcome = "paid" => ndps.paid)
      /\ charge \in ChargeRow /\ ndps \in Order
  BY GatewayFields DEF GatewayInv, OrderIsOurs, GatewayShape
<1>2. /\ ndps.known => ndps.asked = charge.amount
      /\ ndps.token => ndps.known
  BY DEF GatewayInv, OrderIsOurs
<1>3. CASE ndps.known /\ Callback(Message(outcome, form))
  <2> DEFINE m == Message(outcome, form)
             code == StatusOf(m)
             st == StatusAfter(code)
             txn == charge.txn \/ m.txn
             receipt == charge.receipt \/ SuccessCode(code)
  <2>1. /\ SuccessCode(code) => ndps.paid
        /\ m.txn \in BOOLEAN
    BY <1>1, SuccessIsPaid
  <2>2. /\ charge' = [charge EXCEPT !.st = st, !.seen = TRUE, !.txn = txn, !.receipt = receipt]
        /\ charge.st # "NONE" /\ UNCHANGED <<ndps, today, refund>>
    BY <1>3, Zenon DEF Callback
  <2>3. /\ st \in {"FAILED", charge.st, "SUCCESS"}
        /\ st = "SUCCESS" => SuccessCode(code) \/ charge.st = "SUCCESS"
    BY Zenon DEF StatusAfter
  <2>4. txn \in BOOLEAN /\ receipt \in BOOLEAN
    BY <2>1 DEF SuccessCode
  <2>5. receipt => ndps.paid \/ charge.receipt
    BY <2>1
  <2> HIDE DEF st, txn, receipt, code, m
  <2>6. charge' = [charge EXCEPT !.st = st, !.txn = txn, !.receipt = receipt, !.seen = TRUE]
    BY <1>1, <2>2 DEF ChargeRow
  <2>7. (st = "SUCCESS" \/ receipt) => (ndps.paid \/ charge.st \in Refundable \/ charge.receipt)
    BY <2>1, <2>3, <2>5 DEF Refundable
  <2> QED
    BY <1>1, <1>2, <2>2, <2>3, <2>4, <2>6, <2>7, RowMoves
<1>4. ASSUME NEW settledToo \in BOOLEAN, Requery(StatusAnswer(outcome, form), settledToo)
      PROVE  GatewayInv'
  <2> DEFINE m == StatusAnswer(outcome, form)
             txn == charge.txn \/ m.txn
             success == SuccessCode(StatusOf(m)) \/ m.text = "SUCCESS"
  <2>1. (success => ndps.paid) /\ m.txn \in BOOLEAN
    <3>1. CASE m = Message(outcome, form)
      BY <1>1, <3>1, SuccessIsPaid
    <3> DEFINE text == "NO DATA"
               none == [root |-> None, code |-> "OTS0401", text |-> text, amount |-> {}, txn |-> FALSE]
    <3>2. text # "SUCCESS"
      BY Zenon
    <3>3. m = Message(outcome, form) \/ m = none
      BY Zenon DEF StatusAnswer
    <3> HIDE DEF text
    <3>4. none.root = None /\ none.code = "OTS0401" /\ none.text = text /\ none.txn = FALSE
      OBVIOUS
    <3> HIDE DEF none
    <3>5. StatusOf(none) = "OTS0401"
      BY <3>4 DEF StatusOf, None
    <3>6. CASE m = none
      BY <3>2, <3>4, <3>5, <3>6 DEF SuccessCode
    <3> QED
      BY <3>1, <3>3, <3>6
  <2>2. /\ charge' = IF success THEN [charge EXCEPT !.st = "SUCCESS", !.txn = txn, !.receipt = TRUE]
                     ELSE [charge EXCEPT !.txn = txn]
        /\ charge.st # "NONE" /\ UNCHANGED <<ndps, today, refund>>
    BY <1>4, Zenon DEF Requery
  <2>3. txn \in BOOLEAN
    BY <2>1
  <2> HIDE DEF txn, success, m
  <2>4. charge.st \in {"PENDING", "FAILED", charge.st, "SUCCESS"} /\ charge.seen \in BOOLEAN
        /\ charge.receipt \in BOOLEAN
    BY GatewayFields DEF GatewayInv
  <2>5. CASE success
    <3>1. charge' = [charge EXCEPT !.st = "SUCCESS", !.txn = txn, !.receipt = TRUE, !.seen = charge.seen]
      BY <1>1, <2>2, <2>5 DEF ChargeRow
    <3> QED
      BY <1>1, <1>2, <2>1, <2>2, <2>3, <2>4, <2>5, <3>1, RowMoves
  <2>6. CASE ~success
    <3>1. charge' = [charge EXCEPT !.st = charge.st, !.txn = txn, !.receipt = charge.receipt, !.seen = charge.seen]
      BY <1>1, <2>2, <2>6 DEF ChargeRow
    <3>2. (charge.st = "SUCCESS" \/ charge.receipt) => (ndps.paid \/ charge.st \in Refundable \/ charge.receipt)
      BY DEF Refundable
    <3> QED
      BY <1>1, <1>2, <2>2, <2>3, <2>4, <3>1, <3>2, RowMoves
  <2> QED
    BY <2>5, <2>6
<1> QED
  BY <1>3, <1>4

LEMMA OrderMoves ==
    ASSUME GatewayInv,
           \/ \E contact \in {"complete", "noEmail"} : InvalidAuth(contact)
           \/ \E answer \in {"token", "refused", "unreadable", "lost"} : AuthAnswered(answer)
    PROVE  GatewayInv'
<1>1. /\ charge \in ChargeRow /\ ndps \in Order /\ today \in Nat
      /\ charge.txn \in BOOLEAN /\ charge.receipt \in BOOLEAN /\ charge.seen \in BOOLEAN
      /\ charge.amount \in Nat
  BY GatewayFields DEF GatewayInv, GatewayShape
<1>2. /\ ndps.known => ndps.asked = charge.amount
      /\ ndps.token => ndps.known
  BY DEF GatewayInv, OrderIsOurs
<1>3. ASSUME NEW st \in {"PENDING", "FAILED"}, charge' = [charge EXCEPT !.st = st]
      PROVE  charge' = [charge EXCEPT !.st = st, !.txn = charge.txn, !.receipt = charge.receipt,
                                      !.seen = charge.seen]
  BY <1>1, <1>3 DEF ChargeRow
<1>4. ASSUME NEW contact \in {"complete", "noEmail"}, InvalidAuth(contact)
      PROVE  GatewayInv'
  <2>1. /\ charge.st = "INITIATED" /\ charge' = [charge EXCEPT !.st = "FAILED"]
        /\ UNCHANGED <<ndps, today, refund>>
    BY <1>4 DEF InvalidAuth
  <2> QED
    BY <1>1, <1>2, <1>3, <2>1, RowMoves
<1>5. ASSUME NEW answer \in {"token", "refused", "unreadable", "lost"}, AuthAnswered(answer)
      PROVE  GatewayInv'
  <2> DEFINE st == IF TokenIn(answer) THEN "PENDING" ELSE "FAILED"
             amount == charge.amount
             token == TokenIn(answer)
             o == [ndps EXCEPT !.known = TRUE, !.asked = amount, !.day = today, !.token = token]
  <2>1. AuthPayload(charge.amount).amount = amount /\ AuthPayload(charge.amount).day = today
    BY DEF AuthPayload
  <2>2. /\ charge.st = "INITIATED" /\ ~ndps.known /\ UNCHANGED <<today, refund>>
        /\ charge' = [charge EXCEPT !.st = st]
    BY <1>5 DEF AuthAnswered
  <2>3. ndps' = ndps \/ ndps' = o
    BY <1>5, <2>1 DEF AuthAnswered
  <2>4. token \in BOOLEAN /\ st \in {"PENDING", "FAILED"}
    BY DEF TokenIn
  <2> HIDE DEF token, st, amount
  <2>5. /\ o.known = TRUE /\ o.asked = amount /\ o.token = token
        /\ o.paid = ndps.paid /\ o.said = ndps.said /\ o.given = ndps.given
    BY <1>1 DEF Order
  <2>6. amount \in Nat
    BY <1>1 DEF amount
  <2>7. o \in Order
    BY <1>1, <2>4, <2>6 DEF Order
  <2> HIDE DEF o
  <2>8. charge' = [charge EXCEPT !.st = st, !.txn = charge.txn, !.receipt = charge.receipt, !.seen = charge.seen]
    BY <1>3, <2>2, <2>4
  <2>9. /\ ndps' \in Order /\ UNCHANGED <<ndps.paid, ndps.said, ndps.given>>
        /\ (ndps'.known => ndps'.asked = charge.amount)
        /\ (ndps'.token => ndps'.known) /\ (ndps.token => ndps'.token)
    BY <1>1, <1>2, <2>2, <2>3, <2>5, <2>7 DEF amount
  <2> QED
    BY <1>1, <2>2, <2>4, <2>8, <2>9, RowMoves
<1> QED
  BY <1>4, <1>5

(* A new payment, and what the customer does, leave the sums alone. *)
LEMMA CustomerMoves ==
    ASSUME GatewayInv,
           (\E amount \in Charges : NewCharge(amount)) \/ CustomerDeclined \/ CustomerPaid \/ Midnight
    PROVE  GatewayInv'
<1>1. charge \in ChargeRow /\ ndps \in Order /\ today \in Nat
  BY DEF GatewayInv, GatewayShape
<1>2. ASSUME NEW amount \in Charges, NewCharge(amount)
      PROVE  GatewayInv'
  <2>1. /\ charge.st = "NONE" /\ UNCHANGED <<ndps, today, refund>>
        /\ charge' = [NoCharge EXCEPT !.st = "INITIATED", !.amount = amount, !.day = today, !.refundable = amount]
    BY <1>2 DEF NewCharge
  <2>2. charge' = [st |-> "INITIATED", amount |-> amount, day |-> today, refundable |-> amount,
                   txn |-> FALSE, receipt |-> FALSE, seen |-> FALSE]
    BY <2>1 DEF NoCharge
  <2>3. amount \in Nat
    BY GatewayConstants
  <2>4. charge' \in ChargeRow
    BY <1>1, <2>2, <2>3 DEF ChargeRow
  <2>5. /\ charge'.st = "INITIATED" /\ charge'.amount = amount /\ charge'.refundable = amount
        /\ charge'.receipt = FALSE
    BY <2>2
  <2>6. /\ refund.sum = 0 /\ ~ndps.known /\ charge.amount = 0 /\ charge.refundable = 0
    BY <2>1 DEF GatewayInv, NothingYet, OrderIsOurs
  <2>7. OrderIsOurs'
    BY <2>1, <2>6 DEF GatewayInv, OrderIsOurs
  <2>8. RefundsAdded'
    BY <2>1, <2>3, <2>5, <2>6 DEF GatewayInv, RefundsAdded
  <2> QED
    BY <2>1, <2>4, <2>5, <2>7, <2>8 DEF GatewayInv, GatewayShape, SettledIsPaid, NothingYet, Refundable
<1>3. ASSUME CustomerDeclined \/ CustomerPaid
      PROVE  GatewayInv'
  <2>1. PICK paid \in BOOLEAN, said \in SUBSET {"waiting", "declined", "paid"} :
           /\ ndps' = [ndps EXCEPT !.paid = paid, !.said = said]
           /\ "paid" \in said => paid
           /\ ndps.paid => paid
           /\ ndps.token
    <3>1. CASE CustomerDeclined
      <4> DEFINE said == ndps.said \cup {"declined"}
      <4>1. said \in SUBSET {"waiting", "declined", "paid"} /\ ("paid" \in said => ndps.paid)
        BY GatewayFields DEF GatewayInv, OrderIsOurs
      <4>2. ndps' = [ndps EXCEPT !.said = said] /\ ndps.token /\ ndps.paid \in BOOLEAN
        BY <3>1, GatewayFields DEF CustomerDeclined, GatewayInv
      <4> HIDE DEF said
      <4>3. ndps' = [ndps EXCEPT !.paid = ndps.paid, !.said = said]
        BY <1>1, <4>2 DEF Order
      <4> QED
        BY <4>1, <4>2, <4>3
    <3>2. CASE CustomerPaid
      <4> DEFINE said == ndps.said \cup {"paid"}
      <4>1. said \in SUBSET {"waiting", "declined", "paid"}
        BY GatewayFields DEF GatewayInv
      <4>2. ndps' = [ndps EXCEPT !.paid = TRUE, !.said = said] /\ ndps.token
        BY <3>2 DEF CustomerPaid
      <4> HIDE DEF said
      <4> QED
        BY <4>1, <4>2
    <3> QED
      BY <1>3, <3>1, <3>2
  <2>2. UNCHANGED <<charge, today, refund>>
    BY <1>3 DEF CustomerDeclined, CustomerPaid
  <2>3. /\ ndps' \in Order /\ ndps'.paid = paid /\ ndps'.said = said /\ ndps'.known = ndps.known
        /\ ndps'.asked = ndps.asked /\ ndps'.token = ndps.token /\ ndps'.given = ndps.given
    BY <1>1, <2>1 DEF Order
  <2>4. OrderIsOurs'
    BY <2>1, <2>2, <2>3 DEF GatewayInv, OrderIsOurs
  <2>5. SettledIsPaid'
    BY <2>1, <2>2, <2>3 DEF GatewayInv, SettledIsPaid
  <2>6. RefundsAdded' /\ NothingYet'
    BY <2>2, <2>3 DEF GatewayInv, RefundsAdded, NothingYet
  <2> QED
    BY <2>2, <2>3, <2>4, <2>5, <2>6 DEF GatewayInv, GatewayShape
<1>4. ASSUME Midnight
      PROVE  GatewayInv'
  BY <1>1, <1>4 DEF Midnight, GatewayInv, GatewayShape, OrderIsOurs, SettledIsPaid, NothingYet, RefundsAdded
<1> QED
  BY <1>2, <1>3, <1>4

(* A refund request, whatever becomes of its answer. *)
LEMMA RefundMoves ==
    ASSUME GatewayInv, NEW amount \in Givebacks, NEW gives \in BOOLEAN, NEW heard \in BOOLEAN,
           RefundRequest(amount, gives, heard)
    PROVE  GatewayInv'
<1> DEFINE asked == RefundPayload(amount)
           left == IF heard THEN charge.refundable - amount ELSE charge.refundable
           st == IF ~heard THEN charge.st ELSE IF charge.refundable = amount THEN "REFUNDED"
                                               ELSE "PARTIALLY_REFUNDED"
           given == IF gives THEN ndps.given + asked ELSE ndps.given
           tries == refund.tries + 1
           rows == refund.rows + (IF heard THEN 1 ELSE 0)
           sum == refund.sum + (IF heard THEN amount ELSE 0)
           unheard == refund.unheard + (IF gives /\ ~heard THEN asked ELSE 0)
<1>1. /\ charge \in ChargeRow /\ ndps \in Order /\ today \in Nat
      /\ charge.amount \in Nat /\ charge.refundable \in Nat /\ ndps.given \in Nat
      /\ refund.tries \in Nat /\ refund.rows \in Nat /\ refund.sum \in Nat /\ refund.unheard \in Nat
  BY GatewayFields DEF GatewayInv, GatewayShape
<1>2. amount \in Nat
  BY GatewayConstants
<1>3. asked \in Nat /\ asked <= amount /\ amount <= asked + 99
  BY <1>2, PaiseAreLost
<1>4. /\ charge.st = "SUCCESS" /\ amount <= charge.refundable /\ (heard => gives) /\ today' = today
  BY DEF RefundRequest
<1>5. ndps' = IF gives THEN [ndps EXCEPT !.given = ndps.given + asked] ELSE ndps
  BY Zenon DEF RefundRequest
<1>6. refund' = [tries |-> tries, rows |-> rows, sum |-> sum, unheard |-> unheard]
  BY Zenon DEF RefundRequest
<1>7. charge' = IF heard THEN [charge EXCEPT !.refundable = left, !.st = st] ELSE charge
  <2>1. CASE heard
    <3>1. charge' = [charge EXCEPT !.refundable = charge.refundable - amount,
                              !.st = IF charge.refundable = amount THEN "REFUNDED"
                                     ELSE "PARTIALLY_REFUNDED"]
      BY <2>1, Zenon DEF RefundRequest
    <3> QED
      BY <2>1, <3>1
  <2>2. CASE ~heard
    BY <2>2, Zenon DEF RefundRequest
  <2> QED
    BY <2>1, <2>2
<1>8. /\ left \in Nat /\ given \in Nat /\ tries \in Nat /\ rows \in Nat /\ sum \in Nat /\ unheard \in Nat
      /\ left + sum = charge.refundable + refund.sum
      /\ st \in Refundable
  BY <1>1, <1>2, <1>3, <1>4 DEF Refundable
<1>9. given <= sum + unheard /\ sum + unheard <= given + 99 * rows
  <2>1. ndps.given <= refund.sum + refund.unheard /\ refund.sum + refund.unheard <= ndps.given + 99 * refund.rows
    BY DEF GatewayInv, RefundsAdded
  <2> HIDE DEF asked
  <2>2. CASE heard
    BY <1>1, <1>2, <1>3, <1>4, <2>1, <2>2
  <2>3. CASE ~heard
    BY <1>1, <1>2, <1>3, <1>4, <2>1, <2>3
  <2> QED
    BY <2>2, <2>3
<1>10. ndps' = [ndps EXCEPT !.given = given]
  BY <1>1, <1>5 DEF Order
<1>11. charge' = [charge EXCEPT !.refundable = left, !.st = st]
  <2>1. CASE heard
    BY <1>7, <2>1
  <2>2. CASE ~heard
    <3>1. charge' = charge /\ left = charge.refundable /\ st = charge.st
      BY <1>7, <2>2
    <3> HIDE DEF left, st
    <3> QED
      BY <1>1, <3>1 DEF ChargeRow
  <2> QED
    BY <2>1, <2>2
<1> HIDE DEF asked, left, st, given, tries, rows, sum, unheard
<1>12. /\ refund' \in RefundBook /\ refund'.rows = rows /\ refund'.sum = sum /\ refund'.unheard = unheard
  BY <1>6, <1>8 DEF RefundBook
<1>13. /\ ndps' \in Order /\ ndps'.known = ndps.known /\ ndps'.asked = ndps.asked
       /\ ndps'.token = ndps.token /\ ndps'.paid = ndps.paid /\ ndps'.said = ndps.said
       /\ ndps'.given = given
  BY <1>1, <1>8, <1>10 DEF Order
<1>14. /\ charge'.amount = charge.amount /\ charge'.refundable = left /\ charge'.st = st
       /\ charge'.receipt = charge.receipt
  BY <1>1, <1>11 DEF ChargeRow
<1>15. charge' \in ChargeRow
  BY <1>1, <1>8, <1>11 DEF ChargeRow
<1>16. GatewayShape'
  BY <1>1, <1>4, <1>12, <1>13, <1>15 DEF GatewayShape
<1>17. st # "NONE"
  BY <1>8 DEF Refundable
<1>18. OrderIsOurs' /\ NothingYet'
  BY <1>13, <1>14, <1>17 DEF GatewayInv, OrderIsOurs, NothingYet
<1>19. SettledIsPaid'
  BY <1>4, <1>13, <1>14 DEF GatewayInv, SettledIsPaid, Refundable
<1>20. RefundsAdded'
  <2>1. charge.refundable + refund.sum = charge.amount
    BY DEF GatewayInv, RefundsAdded
  <2>2. left + sum = charge.amount
    BY <1>8, <2>1
  <2> QED
    BY <1>9, <1>12, <1>13, <1>14, <2>2 DEF RefundsAdded
<1> QED
  BY <1>16, <1>18, <1>19, <1>20 DEF GatewayInv

LEMMA GatewayStep == GatewayInv /\ [GatewayNext]_gatewayVars => GatewayInv'
<1> SUFFICES ASSUME GatewayInv, [GatewayNext]_gatewayVars
             PROVE  GatewayInv'
  OBVIOUS
<1>1. CASE UNCHANGED gatewayVars
  BY <1>1 DEF gatewayVars, GatewayInv, GatewayShape, OrderIsOurs, SettledIsPaid, NothingYet, RefundsAdded
<1>2. CASE \/ \E contact \in {"complete", "noEmail"} : InvalidAuth(contact)
           \/ \E answer \in {"token", "refused", "unreadable", "lost"} : AuthAnswered(answer)
  BY <1>2, OrderMoves
<1>3. CASE (\E amount \in Charges : NewCharge(amount)) \/ CustomerDeclined \/ CustomerPaid \/ Midnight
  BY <1>3, CustomerMoves
<1>4. ASSUME NEW outcome \in ndps.said, NEW form \in Forms,
             \/ ndps.known /\ Callback(Message(outcome, form))
             \/ \E settledToo \in BOOLEAN : Requery(StatusAnswer(outcome, form), settledToo)
      PROVE  GatewayInv'
  BY <1>4, MessagesMove
<1>5. ASSUME NEW amount \in Givebacks, NEW gives \in BOOLEAN, NEW heard \in BOOLEAN,
             RefundRequest(amount, gives, heard)
      PROVE  GatewayInv'
  BY <1>5, RefundMoves
<1> QED
  BY <1>1, <1>2, <1>3, <1>4, <1>5 DEF GatewayNext, CallbackRejected

(* The invariant of payment, order and refunds.                            *)
THEOREM GatewayInvariance == GatewaySpec => []GatewayInv
<1>1. GatewayInit => GatewayInv
  <2> SUFFICES ASSUME GatewayInit
               PROVE  GatewayInv
    OBVIOUS
  <2>1. /\ charge = NoCharge /\ ndps = NoOrderYet /\ today = 1
        /\ refund = [tries |-> 0, rows |-> 0, sum |-> 0, unheard |-> 0]
    BY DEF GatewayInit
  <2>2. charge \in ChargeRow /\ charge.st = "NONE" /\ charge.amount = 0 /\ charge.refundable = 0 /\ ~charge.receipt
    BY <2>1 DEF NoCharge, ChargeRow
  <2>3. /\ ndps \in Order /\ ~ndps.known /\ ~ndps.token /\ ~ndps.paid /\ ndps.said = {"waiting"} /\ ndps.given = 0
    BY <2>1 DEF NoOrderYet, Order
  <2>4. refund \in RefundBook /\ refund.sum = 0 /\ refund.unheard = 0 /\ refund.rows = 0
    BY <2>1 DEF RefundBook
  <2> QED
    BY <2>1, <2>2, <2>3, <2>4 DEF GatewayInv, GatewayShape, OrderIsOurs, SettledIsPaid, NothingYet,
                                  RefundsAdded, Refundable
<1> QED
  BY <1>1, GatewayStep, PTL DEF GatewaySpec

(* For every amount and any number of refunds, messages and days: settled  *)
(* only when an order over the payment's amount was paid, the refundable   *)
(* balance short by the refund rows, and each row within 99 paise of what  *)
(* the gateway was asked for, refunds whose answer was lost left out       *)
(* (extractAtomTxnFields, handleCallback, requeryPayment,                  *)
(* buildAtomRefundPayload).                                                *)
THEOREM BooksStayEven == GatewaySpec => []BooksAgree
<1>1. GatewayInv => BooksAgree
  <2> SUFFICES ASSUME GatewayInv
               PROVE  BooksAgree
    OBVIOUS
  <2>1. /\ charge.amount \in Nat /\ charge.refundable \in Nat /\ ndps.given \in Nat
        /\ refund.rows \in Nat /\ refund.sum \in Nat /\ refund.unheard \in Nat
    BY GatewayFields DEF GatewayInv
  <2>2. charge.st \in Refundable \/ charge.receipt => ndps.paid /\ ndps.asked = charge.amount
    BY DEF GatewayInv, SettledIsPaid, OrderIsOurs
  <2>3. charge.amount - charge.refundable = refund.sum
    BY <2>1 DEF GatewayInv, RefundsAdded
  <2>4. refund.sum - (ndps.given - refund.unheard) \in 0 .. 99 * refund.rows
    BY <2>1 DEF GatewayInv, RefundsAdded
  <2> QED
    BY <2>2, <2>3, <2>4 DEF BooksAgree
<1> QED
  BY <1>1, GatewayInvariance, PTL

-----------------------------------------------------------------------------
(* The search of the citizen site.                                         *)

Search == [id : Nat, term : Terms, pg : Int]
SearchPage == [term : SUBSET Terms, active : SUBSET Search, result : SUBSET Search,
               wait : SUBSET Search, flight : SUBSET Search, n : Nat, cut : SUBSET Search]

(* A search under way is the one awaited or was cut off by a Reset. *)
SearchInv ==
    /\ srch \in SearchPage
    /\ srch.wait \subseteq srch.active /\ srch.flight \subseteq srch.wait \cup srch.cut
    /\ srch.wait = {} => srch.result \subseteq srch.active \cup srch.cut

LEMMA SearchFields ==
    ASSUME srch \in SearchPage
    PROVE  /\ srch.term \in SUBSET Terms /\ srch.active \in SUBSET Search
           /\ srch.result \in SUBSET Search /\ srch.wait \in SUBSET Search
           /\ srch.flight \in SUBSET Search /\ srch.n \in Nat /\ srch.cut \in SUBSET Search
BY DEF SearchPage

LEMMA RunKeeps ==
    ASSUME SearchInv, srch.wait = {}, NEW x \in Terms, NEW pg \in Int, RunSearch(x, pg)
    PROVE  SearchInv'
<1> DEFINE n == srch.n + 1
           s == [id |-> n, term |-> x, pg |-> pg]
           flight == srch.flight \cup {s}
           one == {s}
<1>1. srch \in SearchPage /\ n \in Nat /\ srch.flight \in SUBSET Search
  BY SearchFields DEF SearchInv
<1>2. srch' = [srch EXCEPT !.active = one, !.wait = one, !.flight = flight, !.n = n]
  BY Zenon DEF RunSearch
<1> HIDE DEF n
<1>3. s \in Search
  BY <1>1 DEF Search
<1> HIDE DEF s
<1>4. flight \in SUBSET Search /\ one \in SUBSET Search /\ one # {} /\ flight \subseteq one \cup srch.cut
  BY <1>1, <1>3 DEF SearchInv
<1> HIDE DEF flight, one
<1>5. /\ srch' \in SearchPage /\ srch'.active = one /\ srch'.wait = one /\ srch'.flight = flight
      /\ srch'.cut = srch.cut
  BY <1>1, <1>2, <1>4 DEF SearchPage
<1> QED
  BY <1>4, <1>5 DEF SearchInv

LEMMA SearchStep == SearchInv /\ [SiteNext]_siteVars => SearchInv'
<1> SUFFICES ASSUME SearchInv, [SiteNext]_siteVars
             PROVE  SearchInv'
  OBVIOUS
<1>1. srch \in SearchPage
  BY DEF SearchInv
<1>2. CASE srch' = srch
  BY <1>2 DEF SearchInv
<1>3. ASSUME NEW x \in Terms, EditForm(x)
      PROVE  SearchInv'
  <2>1. srch' = [srch EXCEPT !.term = {x}]
    BY <1>3 DEF EditForm
  <2>2. /\ srch' \in SearchPage /\ srch'.active = srch.active /\ srch'.wait = srch.wait
        /\ srch'.flight = srch.flight /\ srch'.cut = srch.cut /\ srch'.result = srch.result
    BY <1>1, <2>1 DEF SearchPage
  <2> QED
    BY <2>2 DEF SearchInv
<1>4. ASSUME HandleSearch
      PROVE  SearchInv'
  <2>1. PICK x \in srch.term : RunSearch(x, 1) /\ srch.wait = {}
    BY <1>4 DEF HandleSearch
  <2>2. x \in Terms
    BY <1>1, <2>1, SearchFields
  <2> QED
    BY <2>1, <2>2, RunKeeps
<1>5. ASSUME GoToPage
      PROVE  SearchInv'
  <2>1. PICK a \in srch.active : RunSearch(a.term, 3 - a.pg) /\ srch.wait = {}
    BY <1>5 DEF GoToPage
  <2>2. a.term \in Terms /\ 3 - a.pg \in Int
    BY <1>1, <2>1, SearchFields DEF Search
  <2> QED
    BY <2>1, <2>2, RunKeeps
<1>6. ASSUME HandleReset
      PROVE  SearchInv'
  <2> DEFINE cut == srch.cut \cup srch.flight
             n == srch.n
             flight == srch.flight
  <2>1. srch' = [NoSearch EXCEPT !.n = n, !.flight = flight, !.cut = cut]
    BY <1>6, Zenon DEF HandleReset
  <2>2. n \in Nat /\ flight \in SUBSET Search /\ cut \in SUBSET Search /\ flight \subseteq cut
    BY <1>1, SearchFields
  <2> HIDE DEF n, flight, cut
  <2>3. srch' = [term |-> {}, active |-> {}, result |-> {}, wait |-> {}, flight |-> flight,
                 n |-> n, cut |-> cut]
    BY <2>1 DEF NoSearch
  <2>4. srch' \in SearchPage /\ srch'.wait = {} /\ srch'.result = {} /\ srch'.flight = flight /\ srch'.cut = cut
    BY <2>2, <2>3 DEF SearchPage
  <2> QED
    BY <2>2, <2>4 DEF SearchInv
<1>7. ASSUME NEW s \in srch.flight, SearchAnswered(s) \/ SearchFailed(s)
      PROVE  SearchInv'
  <2> DEFINE flight == srch.flight \ {s}
             wait == srch.wait \ {s}
  <2>1. PICK result \in SUBSET {s} : srch' = [srch EXCEPT !.result = result, !.flight = flight, !.wait = wait]
    <3>1. CASE SearchAnswered(s)
      BY <3>1, Zenon DEF SearchAnswered
    <3>2. CASE SearchFailed(s)
      BY <3>2, Zenon DEF SearchFailed
    <3> QED
      BY <1>7, <3>1, <3>2
  <2>2. /\ flight \in SUBSET Search /\ wait \in SUBSET Search /\ result \in SUBSET Search
        /\ flight \subseteq wait \cup srch.cut /\ wait \subseteq srch.active
        /\ result \subseteq srch.active \cup srch.cut
    BY <1>1, SearchFields DEF SearchInv
  <2> HIDE DEF flight, wait
  <2>3. /\ srch' \in SearchPage /\ srch'.wait = wait /\ srch'.result = result /\ srch'.flight = flight
        /\ srch'.cut = srch.cut /\ srch'.active = srch.active
    BY <1>1, <2>1, <2>2 DEF SearchPage
  <2> QED
    BY <2>2, <2>3 DEF SearchInv
<1>8. CASE Browsing \/ Ordering \/ Asking \/ Confirming
  <2>1. srch' = srch
    BY <1>8 DEF Browsing, Ordering, Asking, Confirming, OpenDues, Refetch, Leave, PayOnline,
                HandleSubmit, CheckDues, CheckOpen, CreateOrder, OrderIssued, OrderRefused,
                CheckoutOpens, SubmitFailed, Unheard, WindowPasses, OrderPaid, OfficeRequery, Finish,
                BrowserReturns, Poll, ViewReceipt, Report, CallFails
  <2> QED
    BY <1>2, <2>1
<1>9. CASE UNCHANGED siteVars
  BY <1>2, <1>9 DEF siteVars
<1> QED
  BY <1>3, <1>4, <1>5, <1>6, <1>7, <1>8, <1>9 DEF SiteNext, Searching

(* The list under the form answers the search and page last run, unless a  *)
(* Reset cut its search off, for any number of searches (useMutation's     *)
(* onSuccess and the buttons that wait for it).                            *)
THEOREM ResultsAreOurs == SiteSpec => []ResultsAnswerQuery
<1>1. SiteInit => SearchInv
  BY DEF SiteInit, NoSearch, SearchInv, SearchPage
<1>2. SearchInv => ResultsAnswerQuery
  BY DEF SearchInv, ResultsAnswerQuery
<1> QED
  BY <1>1, <1>2, SearchStep, PTL DEF SiteSpec

-----------------------------------------------------------------------------
(* The orders of the citizen site.                                         *)

TabPage == [at : {"search", "dues", "pay", "checkout", "return", "receipt", "closed"},
            payable : BOOLEAN, submitted : BOOLEAN, pid : SUBSET Orders,
            shown : OpenStates \cup {"none", "error", "SUCCESS", "FAILED"}]

CheckRequest == [pc : {"idle", "dues", "open", "create", "gateway", "issued", "refused"},
                 awaited : BOOLEAN, pid : SUBSET Orders, met : SUBSET Orders]
Comings == OpenStates \cup {"SUCCESS", "FAILED"}
OrderRow == [st : Comings \cup {"none"}, recent : BOOLEAN, gw : {"none", "open", "paid"},
             heard : BOOLEAN, with : SUBSET Orders]
CallRow == [kind : {"sync", "report", "requery"}, tab : SUBSET Tabs, pid : Orders,
            says : {"paid", "declined", "unknown"}, read : Comings]

Placed(p) == order[p].st # "none"

\* Orders are placed by number, and only placed ones are heard of
RowsInv ==
    /\ check \in [Tabs -> CheckRequest] /\ order \in [Orders -> OrderRow] /\ calls \subseteq CallRow
    /\ \A p \in Orders : ~Placed(p) => order[p] = NoOrder
    /\ \A p, q \in Orders : p < q /\ Placed(q) => Placed(p)
    /\ \A t \in Tabs : tab[t].pid \cup check[t].pid \subseteq {p \in Orders : Placed(p)}
    /\ \A c \in calls : Placed(c.pid)

(* A request between its check and its insert has met every order that is  *)
(* open; the order of one that waits for the gateway is untouched, whoever *)
(* reads it; and an order knows every open one placed before it.           *)
OrdersInv ==
    /\ RowsInv
    /\ \A t \in Tabs : check[t].pc = "create" =>
          \A p \in Orders : RecentOpen(order[p]) => p \in check[t].met
    /\ \A t \in Tabs : check[t].pc = "gateway" =>
          /\ \A p \in check[t].pid : order[p].st = "INITIATED" /\ order[p].gw = "none"
          /\ \A c \in calls : c.pid \in check[t].pid => c.read = "INITIATED" /\ c.says = "unknown"
          /\ \A u \in Tabs \ {t} : check[u].pc = "gateway" => check[u].pid \cap check[t].pid = {}
    /\ \A p, q \in Orders : p < q /\ RecentOpen(order[p]) /\ Placed(q) => p \in order[q].with

(* Every step but an insert places no order; an order that it opens again  *)
(* becomes known to the later ones and to whoever is past its check.       *)
LEMMA OrdersKept ==
    ASSUME OrdersInv, check' \in [Tabs -> CheckRequest], order' \in [Orders -> OrderRow], calls' \subseteq CallRow,
           \A p \in Orders : /\ Placed(p)' <=> Placed(p)
                             /\ ~Placed(p) => order'[p] = order[p]
                             /\ order[p].with \subseteq order'[p].with,
           \A p \in Orders : RecentOpen(order'[p]) =>
              \/ RecentOpen(order[p])
              \/ /\ \A q \in Orders : p < q /\ Placed(q) => p \in order'[q].with
                 /\ \A t \in Tabs : check'[t].pc = "create" => p \in check'[t].met,
           \A t \in Tabs : check'[t].pc = "create" =>
              \/ check[t].pc = "create" /\ check[t].met \subseteq check'[t].met
              \/ \A p \in Orders : ~RecentOpen(order[p]),
           \A t \in Tabs : tab'[t].pid \cup check'[t].pid \subseteq tab[t].pid \cup check[t].pid,
           \A t \in Tabs : check'[t].pc = "gateway" =>
              /\ check[t].pc = "gateway" /\ check'[t].pid = check[t].pid
              /\ \A p \in check[t].pid : order'[p].st = order[p].st /\ order'[p].gw = order[p].gw,
           \A c \in calls' :
              \/ \E b \in calls : b.pid = c.pid /\ b.read = c.read /\ b.says = c.says
              \/ /\ Placed(c.pid) /\ c.read = order[c.pid].st
                 /\ order[c.pid].gw = "none" => c.says = "unknown"
    PROVE  OrdersInv'
<1>1. /\ check \in [Tabs -> CheckRequest] /\ order \in [Orders -> OrderRow] /\ calls \subseteq CallRow
      /\ \A p \in Orders : ~Placed(p) => order[p] = NoOrder
      /\ \A p, q \in Orders : p < q /\ Placed(q) => Placed(p)
      /\ \A t \in Tabs : tab[t].pid \cup check[t].pid \subseteq {p \in Orders : Placed(p)}
      /\ \A c \in calls : Placed(c.pid)
  BY DEF OrdersInv, RowsInv
<1>2. \A c \in calls' : c.pid \in Orders /\ Placed(c.pid)
  BY <1>1 DEF CallRow
<1>3. \A p \in Orders : Placed(p)' <=> Placed(p)
  OBVIOUS
<1>4. \A p \in Orders : ~Placed(p)' => order'[p] = NoOrder
  BY <1>1
<1>5. \A p, q \in Orders : p < q /\ Placed(q)' => Placed(p)'
  BY <1>1
<1>6. \A t \in Tabs : tab'[t].pid \cup check'[t].pid \subseteq {p \in Orders : Placed(p)'}
  BY <1>1, <1>3
<1>7. \A c \in calls' : Placed(c.pid)'
  BY <1>2, <1>3
<1>8. RowsInv'
  BY <1>4, <1>5, <1>6, <1>7 DEF RowsInv
<1>9. \A t \in Tabs : check'[t].pc = "create" =>
         \A p \in Orders : RecentOpen(order'[p]) => p \in check'[t].met
  BY DEF OrdersInv
<1>10. ASSUME NEW t \in Tabs, check'[t].pc = "gateway"
       PROVE  /\ \A p \in check'[t].pid : order'[p].st = "INITIATED" /\ order'[p].gw = "none"
              /\ \A c \in calls' : c.pid \in check'[t].pid => c.read = "INITIATED" /\ c.says = "unknown"
              /\ \A u \in Tabs \ {t} : check'[u].pc = "gateway" => check'[u].pid \cap check'[t].pid = {}
  <2>1. check[t].pc = "gateway" /\ check'[t].pid = check[t].pid
    BY <1>10
  <2>2. /\ \A p \in check[t].pid : order[p].st = "INITIATED" /\ order[p].gw = "none"
        /\ \A c \in calls : c.pid \in check[t].pid => c.read = "INITIATED" /\ c.says = "unknown"
        /\ \A u \in Tabs \ {t} : check[u].pc = "gateway" => check[u].pid \cap check[t].pid = {}
    BY <2>1 DEF OrdersInv
  <2>3. \A p \in check'[t].pid : order'[p].st = "INITIATED" /\ order'[p].gw = "none"
    BY <1>10, <2>1, <2>2
  <2>4. \A c \in calls' : c.pid \in check'[t].pid => c.read = "INITIATED" /\ c.says = "unknown"
    BY <2>1, <2>2
  <2>5. \A u \in Tabs \ {t} : check'[u].pc = "gateway" => check'[u].pid \cap check'[t].pid = {}
    BY <2>1, <2>2
  <2> QED
    BY <2>3, <2>4, <2>5
<1>11. \A p, q \in Orders : p < q /\ RecentOpen(order'[p]) /\ Placed(q)' => p \in order'[q].with
  BY <1>3 DEF OrdersInv
<1> QED
  BY <1>8, <1>9, <1>10, <1>11 DEF OrdersInv

(* Orders and calls as they are, while a request or a page moves. *)
LEMMA ChecksKept ==
    ASSUME OrdersInv, check' \in [Tabs -> CheckRequest], order' = order, calls' = calls,
           \A t \in Tabs : check'[t].pc = "create" =>
              \/ check[t].pc = "create" /\ check'[t].met = check[t].met
              \/ \A p \in Orders : ~RecentOpen(order[p]),
           \A t \in Tabs : tab'[t].pid \cup check'[t].pid \subseteq tab[t].pid \cup check[t].pid,
           \A t \in Tabs : check'[t].pc = "gateway" =>
              check[t].pc = "gateway" /\ check'[t].pid = check[t].pid
    PROVE  OrdersInv'
<1>1. order' \in [Orders -> OrderRow] /\ calls' \subseteq CallRow /\ \A p \in Orders : Placed(p)' <=> Placed(p)
  BY DEF OrdersInv, RowsInv, Placed
<1> QED
  BY <1>1, OrdersKept

LEMMA ChecksMove ==
    ASSUME OrdersInv, NEW t \in Tabs, order' = order, calls' = calls,
           \A u \in Tabs : tab'[u].pid \subseteq tab[u].pid \cup check[u].pid,
           \/ HandleSubmit(t) \/ CheckDues(t) \/ CheckOpen(t) \/ CheckoutOpens(t)
           \/ SubmitFailed(t) \/ Unheard(t) \/ Leave(t)
    PROVE  OrdersInv'
<1>1. check \in [Tabs -> CheckRequest] /\ check[t] \in CheckRequest
  BY DEF OrdersInv, RowsInv
<1>2. ASSUME NEW n \in CheckRequest, check' = [check EXCEPT ![t] = n],
             n.pc = "create" => \A p \in Orders : ~RecentOpen(order[p]),
             n.pid \subseteq check[t].pid,
             n.pc = "gateway" => check[t].pc = "gateway" /\ n.pid = check[t].pid
      PROVE  OrdersInv'
  <2>1. check' \in [Tabs -> CheckRequest] /\ check'[t] = n /\ \A u \in Tabs \ {t} : check'[u] = check[u]
    BY <1>1, <1>2
  <2>2. \A u \in Tabs : tab'[u].pid \cup check'[u].pid \subseteq tab[u].pid \cup check[u].pid
    BY <1>2, <2>1
  <2> QED
    BY <1>2, <2>1, <2>2, ChecksKept
<1>3. /\ NoCheck \in CheckRequest /\ NoCheck.pc = "idle" /\ NoCheck.pid = {}
      /\ [NoCheck EXCEPT !.pc = "dues", !.awaited = TRUE] \in CheckRequest
      /\ [NoCheck EXCEPT !.pc = "dues", !.awaited = TRUE].pc = "dues"
      /\ [NoCheck EXCEPT !.pc = "dues", !.awaited = TRUE].pid = {}
  BY DEF NoCheck, CheckRequest
<1>4. ASSUME NEW pc \in {"open", "refused", "create"}, check' = [check EXCEPT ![t].pc = pc],
             pc = "create" => \A p \in Orders : ~RecentOpen(order[p])
      PROVE  OrdersInv'
  <2> DEFINE n == [check[t] EXCEPT !.pc = pc]
  <2>1. n \in CheckRequest /\ n.pc = pc /\ n.pid = check[t].pid
    BY <1>1 DEF CheckRequest
  <2>2. check' = [check EXCEPT ![t] = n]
    BY <1>1, <1>4
  <2> HIDE DEF n
  <2> QED
    BY <1>2, <1>4, <2>1, <2>2
<1>5. CASE HandleSubmit(t)
  <2> DEFINE n == [NoCheck EXCEPT !.pc = "dues", !.awaited = TRUE]
  <2>1. check' = [check EXCEPT ![t] = n] /\ n \in CheckRequest /\ n.pc = "dues" /\ n.pid = {}
    BY <1>3, <1>5 DEF HandleSubmit
  <2> HIDE DEF n
  <2> QED
    BY <1>2, <2>1
<1>6. CASE CheckDues(t)
  <2>1. \E pc \in {"open", "refused"} : check' = [check EXCEPT ![t].pc = pc]
    BY <1>6 DEF CheckDues
  <2> QED
    BY <1>4, <2>1
<1>7. CASE CheckOpen(t)
  <2>1. \/ check' = [check EXCEPT ![t].pc = "refused"]
        \/ check' = [check EXCEPT ![t].pc = "create"] /\ \A p \in Orders : ~RecentOpen(order[p])
    BY <1>7 DEF CheckOpen
  <2> QED
    BY <1>4, <2>1
<1>8. CASE CheckoutOpens(t) \/ SubmitFailed(t) \/ Unheard(t)
  <2>1. check' = [check EXCEPT ![t] = NoCheck]
    BY <1>8 DEF CheckoutOpens, SubmitFailed, Unheard
  <2> QED
    BY <1>2, <1>3, <2>1
<1>9. CASE Leave(t)
  <2>1. check' = [check EXCEPT ![t].awaited = FALSE]
    BY <1>9 DEF Leave
  <2>2. /\ check' \in [Tabs -> CheckRequest]
        /\ \A u \in Tabs : check'[u].pc = check[u].pc /\ check'[u].pid = check[u].pid /\ check'[u].met = check[u].met
    <3> DEFINE n == [check[t] EXCEPT !.awaited = FALSE]
    <3>1. n \in CheckRequest /\ n.pc = check[t].pc /\ n.pid = check[t].pid /\ n.met = check[t].met
      BY <1>1 DEF CheckRequest
    <3>2. check' = [check EXCEPT ![t] = n]
      BY <1>1, <2>1
    <3> HIDE DEF n
    <3> QED
      BY <1>1, <3>1, <3>2
  <2> QED
    BY <2>2, ChecksKept
<1> QED
  BY <1>5, <1>6, <1>7, <1>8, <1>9

(* What the gateway and time make of the orders. *)
LEMMA OrdersMove ==
    ASSUME OrdersInv, check' = check, calls' = calls, tab' = tab, NEW p \in Orders,
           WindowPasses(p) \/ OrderPaid(p)
    PROVE  OrdersInv'
<1>1. check \in [Tabs -> CheckRequest] /\ order \in [Orders -> OrderRow] /\ calls \subseteq CallRow
  BY DEF OrdersInv, RowsInv
<1>2. \A q \in Orders : ~Placed(q) => order[q] = NoOrder
  BY DEF OrdersInv, RowsInv
<1>3. ASSUME order' \in [Orders -> OrderRow],
             \A q \in Orders : /\ order'[q].st = order[q].st /\ order'[q].with = order[q].with
                               /\ order'[q].recent => order[q].recent
                               /\ ~Placed(q) => order'[q] = order[q],
             \A q \in Orders : order'[q].gw = order[q].gw \/ order[q].gw # "none"
      PROVE  OrdersInv'
  <2>1. \A q \in Orders : (Placed(q)' <=> Placed(q)) /\ (RecentOpen(order'[q]) => RecentOpen(order[q]))
    BY <1>3 DEF Placed, RecentOpen
  <2>2. \A t \in Tabs : check[t].pc = "gateway" => \A q \in check[t].pid :
           order'[q].st = order[q].st /\ order'[q].gw = order[q].gw
    BY <1>1, <1>3 DEF OrdersInv, CheckRequest
  <2> QED
    BY <1>1, <1>3, <2>1, <2>2, OrdersKept
<1>4. CASE WindowPasses(p)
  <2> DEFINE old(o) == [o EXCEPT !.recent = FALSE]
  <2>1. \A o \in OrderRow : /\ old(o) \in OrderRow /\ old(o).st = o.st /\ old(o).with = o.with
                            /\ old(o).gw = o.gw /\ old(o).recent = FALSE
    BY DEF OrderRow
  <2>2. old(NoOrder) = NoOrder
    <3>1. NoOrder \in OrderRow /\ NoOrder.recent = FALSE
      BY DEF NoOrder, OrderRow, Comings, OpenStates
    <3>2. \A o \in OrderRow : o.recent = FALSE => old(o) = o
      BY DEF OrderRow
    <3> QED
      BY <3>1, <3>2
  <2>3. order' = [q \in Orders |-> IF q <= p THEN old(order[q]) ELSE order[q]]
    BY <1>4 DEF WindowPasses
  <2> HIDE DEF old
  <2>4. order' \in [Orders -> OrderRow]
    BY <1>1, <2>1, <2>3
  <2>5. \A q \in Orders : order'[q] \in {order[q], old(order[q])} /\ order[q] \in OrderRow
    BY <1>1, <2>3
  <2>6. \A q \in Orders : /\ order'[q].st = order[q].st /\ order'[q].with = order[q].with
                          /\ order'[q].gw = order[q].gw /\ (order'[q].recent => order[q].recent)
    BY <2>1, <2>5
  <2>7. \A q \in Orders : ~Placed(q) => order'[q] = order[q]
    BY <1>2, <2>2, <2>5
  <2> QED
    BY <1>3, <2>4, <2>6, <2>7
<1>5. CASE OrderPaid(p)
  <2> DEFINE n == [order[p] EXCEPT !.gw = "paid"]
  <2>1. n \in OrderRow /\ n.with = order[p].with /\ n.recent = order[p].recent /\ n.st = order[p].st
    BY <1>1 DEF OrderRow
  <2>2. order' = [order EXCEPT ![p] = n] /\ order[p].gw = "open"
    BY <1>1, <1>5 DEF OrderPaid
  <2>3. Placed(p)
    BY <1>2, <2>2 DEF NoOrder
  <2> HIDE DEF n
  <2>4. order' \in [Orders -> OrderRow] /\ order'[p] = n /\ \A q \in Orders \ {p} : order'[q] = order[q]
    BY <1>1, <2>1, <2>2
  <2> QED
    BY <1>3, <2>1, <2>2, <2>3, <2>4
<1> QED
  BY <1>4, <1>5

(* A call begins, or fails. *)
LEMMA CallsMove ==
    ASSUME OrdersInv, tab \in [Tabs -> TabPage],
           \/ \E t \in Tabs : Poll(t)
           \/ \E p \in Orders, says \in {"paid", "declined", "unknown"} : Report(p, says)
           \/ \E p \in Orders : OfficeRequery(p)
           \/ \E c \in calls : CallFails(c)
    PROVE  OrdersInv'
<1>1. /\ check \in [Tabs -> CheckRequest] /\ order \in [Orders -> OrderRow] /\ calls \subseteq CallRow
      /\ \A t \in Tabs : tab[t].pid \subseteq {p \in Orders : Placed(p)}
  BY DEF OrdersInv, RowsInv
<1>2. ASSUME check' = check, order' = order, \A t \in Tabs : tab'[t].pid = tab[t].pid, calls' \subseteq CallRow,
             \A c \in calls' :
                \/ \E b \in calls : b.pid = c.pid /\ b.read = c.read /\ b.says = c.says
                \/ /\ Placed(c.pid) /\ c.read = order[c.pid].st
                   /\ order[c.pid].gw = "none" => c.says = "unknown"
      PROVE  OrdersInv'
  <2>1. \A p \in Orders : Placed(p)' <=> Placed(p)
    BY <1>2 DEF Placed
  <2> QED
    BY <1>1, <1>2, <2>1, OrdersKept
<1>3. ASSUME NEW kind \in {"sync", "report", "requery"}, NEW of \in SUBSET Tabs, NEW p \in Orders,
             NEW says \in {"paid", "declined", "unknown"}, Placed(p), order[p].gw = "none" => says = "unknown",
             calls' = calls \cup {Call(kind, of, p, says)}, UNCHANGED <<tab, check, order>>
      PROVE  OrdersInv'
  <2> DEFINE n == Call(kind, of, p, says)
  <2>1. order[p].st \in Comings
    BY <1>1, <1>3 DEF OrderRow, Placed
  <2>2. n \in CallRow /\ n.pid = p /\ n.read = order[p].st /\ n.says = says
    BY <2>1 DEF Call, CallRow
  <2>3. calls' = calls \cup {n}
    BY <1>3
  <2> HIDE DEF n
  <2>4. calls' \subseteq CallRow
    BY <1>1, <2>2, <2>3
  <2>5. \A c \in calls' : c \in calls \/ c = n
    BY <2>3
  <2> QED
    BY <1>2, <1>3, <2>2, <2>4, <2>5
<1>4. \A p \in Orders : GatewayTells(p) \in {"paid", "unknown"} /\ (order[p].gw = "none" => GatewayTells(p) = "unknown")
  BY DEF GatewayTells
<1>5. ASSUME NEW t \in Tabs, Poll(t)
      PROVE  OrdersInv'
  <2>1. PICK p \in tab[t].pid : calls' = calls \cup {Call("sync", {t}, p, GatewayTells(p))}
    BY <1>5 DEF Poll
  <2>2. p \in Orders /\ Placed(p)
    BY <1>1, <2>1
  <2> QED
    BY <1>3, <1>4, <1>5, <2>1, <2>2 DEF Poll
<1>6. ASSUME NEW p \in Orders, NEW says \in {"paid", "declined", "unknown"}, Report(p, says)
      PROVE  OrdersInv'
  <2>1. Placed(p)
    BY <1>6 DEF Report, OrdersInv, RowsInv, NoOrder
  <2> QED
    BY <1>3, <1>6, <2>1 DEF Report
<1>7. ASSUME NEW p \in Orders, OfficeRequery(p)
      PROVE  OrdersInv'
  BY <1>3, <1>4, <1>7 DEF OfficeRequery, Placed
<1>8. ASSUME NEW c \in calls, CallFails(c)
      PROVE  OrdersInv'
  <2> DEFINE n == [c EXCEPT !.tab = {}]
  <2>1. n \in CallRow /\ n.pid = c.pid /\ n.read = c.read /\ n.says = c.says
    BY <1>1 DEF CallRow
  <2>2. calls' = calls \ {c} \/ calls' = (calls \ {c}) \cup {n}
    BY <1>8 DEF CallFails
  <2> HIDE DEF n
  <2>3. calls' \subseteq CallRow /\ \A b \in calls' : b \in calls \/ b = n
    BY <1>1, <2>1, <2>2
  <2>4. check' = check /\ order' = order
    BY <1>8 DEF CallFails
  <2>5. \A t \in Tabs : tab'[t].pid = tab[t].pid
    <3>1. \A t \in Tabs : tab'[t] \in {tab[t], [tab[t] EXCEPT !.shown = "error"]}
      BY <1>8 DEF CallFails
    <3>2. \A t \in Tabs : [tab[t] EXCEPT !.shown = "error"].pid = tab[t].pid
      BY DEF TabPage
    <3> QED
      BY <3>1, <3>2
  <2> QED
    BY <1>2, <2>1, <2>3, <2>4, <2>5
<1> QED
  BY <1>5, <1>6, <1>7, <1>8

(* The gateway's answer to a new order. *)
LEMMA AnswersMove ==
    ASSUME OrdersInv, NEW t \in Tabs, OrderIssued(t) \/ OrderRefused(t)
    PROVE  OrdersInv'
<1>1. /\ check \in [Tabs -> CheckRequest] /\ order \in [Orders -> OrderRow] /\ check[t] \in CheckRequest
      /\ calls \subseteq CallRow /\ calls' = calls /\ tab' = tab
      /\ check[t].pc = "gateway" /\ check[t].pid \in SUBSET Orders
  BY DEF OrdersInv, RowsInv, OrderIssued, OrderRefused, CheckRequest
<1>2. /\ \A p \in check[t].pid : order[p].st = "INITIATED" /\ order[p].gw = "none"
      /\ \A u \in Tabs \ {t} : check[u].pc = "gateway" => check[u].pid \cap check[t].pid = {}
  BY <1>1 DEF OrdersInv
<1>3. PICK pc \in {"issued", "refused"} : check' = [check EXCEPT ![t].pc = pc]
  BY DEF OrderIssued, OrderRefused
<1> DEFINE n == [check[t] EXCEPT !.pc = pc]
<1>4. n \in CheckRequest /\ n.pc = pc /\ n.pid = check[t].pid
  BY <1>1 DEF CheckRequest
<1>5. check' = [check EXCEPT ![t] = n]
  BY <1>1, <1>3
<1> HIDE DEF n
<1>6. check' \in [Tabs -> CheckRequest] /\ check'[t] = n /\ \A u \in Tabs \ {t} : check'[u] = check[u]
  BY <1>1, <1>4, <1>5
<1>7. /\ order' \in [Orders -> OrderRow]
      /\ \A p \in Orders : p \notin check[t].pid => order'[p] = order[p]
      /\ \A p \in check[t].pid : /\ order'[p].with = order[p].with /\ order'[p].recent = order[p].recent
                                 /\ order'[p].st # "none"
  <2> DEFINE failed(o) == [o EXCEPT !.st = "FAILED"]
             sent(o) == [o EXCEPT !.st = "PENDING"]
             open(o) == [o EXCEPT !.gw = "open"]
             issued(o) == [o EXCEPT !.st = "PENDING", !.gw = "open"]
  <2>1. \A o \in OrderRow : /\ failed(o) \in OrderRow /\ failed(o).with = o.with
                            /\ failed(o).recent = o.recent /\ failed(o).st = "FAILED"
    BY DEF OrderRow, Comings
  <2>2. \A o \in OrderRow : /\ issued(o) \in OrderRow /\ issued(o).with = o.with
                            /\ issued(o).recent = o.recent /\ issued(o).st = "PENDING"
    <3>1. \A o \in OrderRow : /\ sent(o) \in OrderRow /\ sent(o).with = o.with
                              /\ sent(o).recent = o.recent /\ sent(o).st = "PENDING"
      BY DEF OrderRow, OpenStates, Comings
    <3>2. \A o \in OrderRow : /\ open(o) \in OrderRow /\ open(o).with = o.with
                              /\ open(o).recent = o.recent /\ open(o).st = o.st
      BY DEF OrderRow
    <3>3. \A o \in OrderRow : issued(o) = open(sent(o))
      OBVIOUS
    <3> HIDE DEF sent, open, issued
    <3> QED
      BY <3>1, <3>2, <3>3
  <2>3. \A p \in Orders : order[p] \in OrderRow
    BY <1>1
  <2>4. CASE OrderIssued(t)
    <3>1. order' = [p \in Orders |-> IF p \in check[t].pid THEN issued(order[p]) ELSE order[p]]
      BY <2>4 DEF OrderIssued
    <3> HIDE DEF sent, open, issued, failed
    <3> QED
      BY <1>1, <2>2, <2>3, <3>1
  <2>5. CASE OrderRefused(t)
    <3>1. order' = [p \in Orders |-> IF p \in check[t].pid THEN failed(order[p]) ELSE order[p]]
      BY <2>5 DEF OrderRefused
    <3> HIDE DEF sent, open, issued, failed
    <3> QED
      BY <1>1, <2>1, <2>3, <3>1
  <2> QED
    BY <2>4, <2>5
<1>8. \A p \in Orders : /\ Placed(p)' <=> Placed(p)
                        /\ ~Placed(p) => order'[p] = order[p]
                        /\ order[p].with \subseteq order'[p].with
                        /\ RecentOpen(order'[p]) => RecentOpen(order[p])
  BY <1>1, <1>2, <1>7 DEF RecentOpen, OpenStates, Placed
<1>9. \A u \in Tabs : check'[u].pc = "gateway" =>
         /\ check[u].pc = "gateway" /\ check'[u].pid = check[u].pid
         /\ \A p \in check[u].pid : order'[p].st = order[p].st /\ order'[p].gw = order[p].gw
  BY <1>1, <1>2, <1>4, <1>6, <1>7 DEF CheckRequest
<1>10. \A u \in Tabs : tab'[u].pid \cup check'[u].pid \subseteq tab[u].pid \cup check[u].pid
  BY <1>1, <1>4, <1>6
<1> QED
  BY <1>1, <1>4, <1>6, <1>7, <1>8, <1>9, <1>10, OrdersKept

(* An insert: every order that is open is one the request met, every       *)
(* request past its check meets the new one, and no later order exists.    *)
LEMMA InsertKeeps ==
    ASSUME OrdersInv, NEW t \in Tabs, CreateOrder(t)
    PROVE  OrdersInv'
<1>1. /\ check \in [Tabs -> CheckRequest] /\ order \in [Orders -> OrderRow] /\ check[t] \in CheckRequest
      /\ check[t].pc = "create" /\ calls \subseteq CallRow /\ calls' = calls /\ tab' = tab
      /\ \A p \in Orders : ~Placed(p) => order[p] = NoOrder
      /\ \A p, q \in Orders : p < q /\ Placed(q) => Placed(p)
      /\ \A u \in Tabs : tab[u].pid \cup check[u].pid \subseteq {p \in Orders : Placed(p)}
      /\ \A c \in calls : Placed(c.pid)
  BY DEF OrdersInv, RowsInv, CreateOrder
<1> DEFINE new == [NoOrder EXCEPT !.st = "INITIATED", !.recent = TRUE, !.with = check[t].met]
           mine(p) == [check[t] EXCEPT !.pc = "gateway", !.pid = {p}]
           told(u, p) == [check[u] EXCEPT !.met = @ \cup {p}]
<1>2. PICK p \in Orders :
         /\ order[p] = NoOrder /\ \A q \in Orders : q < p => order[q] # NoOrder
         /\ order' = [order EXCEPT ![p] = new]
         /\ check' = [u \in Tabs |-> IF u = t THEN mine(p)
                                     ELSE IF check[u].pc = "create" THEN told(u, p) ELSE check[u]]
  BY DEF CreateOrder, Met
<1>3. /\ new \in OrderRow /\ new.st = "INITIATED" /\ new.gw = "none" /\ new.with = check[t].met
  <2> DEFINE a == [NoOrder EXCEPT !.st = "INITIATED"]
             b == [a EXCEPT !.recent = TRUE]
  <2>1. NoOrder \in OrderRow /\ NoOrder.gw = "none"
    BY DEF NoOrder, OrderRow, Comings, OpenStates
  <2>2. a \in OrderRow /\ a.st = "INITIATED" /\ a.gw = "none"
    BY <2>1 DEF OrderRow, Comings, OpenStates
  <2>3. b \in OrderRow /\ b.st = "INITIATED" /\ b.gw = "none"
    BY <2>2 DEF OrderRow
  <2>4. new = [b EXCEPT !.with = check[t].met] /\ check[t].met \in SUBSET Orders
    BY <1>1 DEF CheckRequest
  <2> HIDE DEF a, b, new
  <2> QED
    BY <2>3, <2>4 DEF OrderRow
<1>4. mine(p) \in CheckRequest /\ mine(p).pc = "gateway" /\ mine(p).pid = {p}
  BY <1>1 DEF CheckRequest
<1>5. \A u \in Tabs : /\ told(u, p) \in CheckRequest /\ told(u, p).pc = check[u].pc
                      /\ told(u, p).pid = check[u].pid /\ told(u, p).met = check[u].met \cup {p}
  BY <1>1 DEF CheckRequest
<1> HIDE DEF new, mine, told
<1>6. /\ check' \in [Tabs -> CheckRequest] /\ check'[t] = mine(p)
      /\ \A u \in Tabs \ {t} : check'[u] = IF check[u].pc = "create" THEN told(u, p) ELSE check[u]
  BY <1>1, <1>2, <1>4, <1>5
<1>7. order' \in [Orders -> OrderRow] /\ order'[p] = new /\ \A q \in Orders \ {p} : order'[q] = order[q]
  BY <1>1, <1>2, <1>3
<1>8. ~Placed(p) /\ \A q \in Orders : q < p => Placed(q)
  BY <1>1, <1>2 DEF NoOrder, Placed
<1>9. Placed(p)' /\ \A q \in Orders \ {p} : Placed(q)' <=> Placed(q)
  BY <1>3, <1>7 DEF Placed
<1>10. RowsInv'
  <2>1. \A q \in Orders : ~Placed(q)' => order'[q] = NoOrder
    BY <1>1, <1>7, <1>9
  <2>2. \A q, r \in Orders : q < r /\ Placed(r)' => Placed(q)'
    BY <1>1, <1>8, <1>9
  <2>3. \A u \in Tabs : tab'[u].pid \cup check'[u].pid \subseteq {q \in Orders : Placed(q)'}
    <3>1. \A u \in Tabs : check'[u].pid \subseteq check[u].pid \cup {p}
      BY <1>4, <1>5, <1>6
    <3> QED
      BY <1>1, <1>9, <3>1
  <2>4. \A c \in calls : c.pid \in Orders /\ Placed(c.pid)'
    BY <1>1, <1>8, <1>9 DEF CallRow
  <2> QED
    BY <1>1, <1>6, <1>7, <2>1, <2>2, <2>3, <2>4 DEF RowsInv
<1>11. \A u \in Tabs : check'[u].pc = "create" =>
          \A q \in Orders : RecentOpen(order'[q]) => q \in check'[u].met
  BY <1>4, <1>5, <1>6, <1>7 DEF OrdersInv
<1>12. \A u \in Tabs \ {t} : check'[u].pc = "gateway" =>
          check[u].pc = "gateway" /\ check'[u].pid = check[u].pid /\ p \notin check[u].pid
  BY <1>1, <1>5, <1>6, <1>8
<1>13. \A u \in Tabs : check'[u].pc = "gateway" =>
          /\ \A q \in check'[u].pid : order'[q].st = "INITIATED" /\ order'[q].gw = "none"
          /\ \A c \in calls' : c.pid \in check'[u].pid => c.read = "INITIATED" /\ c.says = "unknown"
          /\ \A v \in Tabs \ {u} : check'[v].pc = "gateway" => check'[v].pid \cap check'[u].pid = {}
  <2>1. \A u \in Tabs \ {t} : check'[u].pc = "gateway" =>
           \A q \in check[u].pid : q \in Orders \ {p} /\ order[q].st = "INITIATED" /\ order[q].gw = "none"
    BY <1>1, <1>12 DEF OrdersInv, CheckRequest
  <2>2. \A c \in calls : c.pid # p
    BY <1>1, <1>8
  <2>3. \A u \in Tabs : check'[u].pc = "gateway" =>
           \A c \in calls' : c.pid \in check'[u].pid => c.read = "INITIATED" /\ c.says = "unknown"
    BY <1>1, <1>4, <1>6, <1>12, <2>2 DEF OrdersInv
  <2>4. \A u \in Tabs : check'[u].pc = "gateway" =>
           \A v \in Tabs \ {u} : check'[v].pc = "gateway" => check'[v].pid \cap check'[u].pid = {}
    BY <1>4, <1>6, <1>12 DEF OrdersInv
  <2>5. \A u \in Tabs : check'[u].pc = "gateway" =>
           \A q \in check'[u].pid : order'[q].st = "INITIATED" /\ order'[q].gw = "none"
    BY <1>3, <1>4, <1>6, <1>7, <1>12, <2>1
  <2> QED
    BY <2>3, <2>4, <2>5
<1>14. \A q, r \in Orders : q < r /\ RecentOpen(order'[q]) /\ Placed(r)' => q \in order'[r].with
  <2> SUFFICES ASSUME NEW q \in Orders, NEW r \in Orders, q < r, RecentOpen(order'[q]), Placed(r)'
               PROVE  q \in order'[r].with
    OBVIOUS
  <2>0. Orders \subseteq Nat
    BY SiteConstants
  <2>1. CASE r = p
    <3>1. q # p /\ RecentOpen(order[q])
      BY <1>7, <2>0, <2>1
    <3> QED
      BY <1>1, <1>3, <1>7, <2>1, <3>1 DEF OrdersInv
  <2>2. CASE r # p
    <3>1. Placed(r) /\ q # p
      BY <1>1, <1>8, <1>9, <2>2
    <3> QED
      BY <1>7, <2>2, <3>1 DEF OrdersInv
  <2> QED
    BY <2>1, <2>2
<1> QED
  BY <1>10, <1>11, <1>13, <1>14 DEF OrdersInv

(* The status a call comes to is one an order may have, and INITIATED for  *)
(* an order that waits for the gateway.                                    *)
LEMMA ComesTo ==
    ASSUME NEW c \in CallRow, NEW st \in IF Writes(c) THEN Outcomes(c) ELSE {c.read}
    PROVE  /\ st \in Comings
           /\ c.read = "INITIATED" /\ c.says = "unknown" /\ order[c.pid].gw = "none" => st = "INITIATED"
           /\ st = "SUCCESS" => c.says = "paid" \/ c.read = "SUCCESS" \/ order[c.pid].gw = "paid"
BY DEF Outcomes, Comings, CallRow, OpenStates

(* A call is finished: it may open its order again, which is then known to *)
(* the later orders and to whoever is past its check.                      *)
LEMMA FinishKeeps ==
    ASSUME OrdersInv, tab \in [Tabs -> TabPage], NEW c \in calls, Finish(c)
    PROVE  OrdersInv'
<1>1. /\ check \in [Tabs -> CheckRequest] /\ order \in [Orders -> OrderRow] /\ calls \subseteq CallRow
      /\ calls' = calls \ {c} /\ \A b \in calls : Placed(b.pid)
      /\ \A p \in Orders : ~Placed(p) => order[p] = NoOrder
  BY DEF OrdersInv, RowsInv, Finish
<1>2. c \in CallRow /\ c.pid \in Orders /\ Placed(c.pid)
  BY <1>1 DEF CallRow
<1>3. PICK st \in IF Writes(c) THEN Outcomes(c) ELSE {c.read} :
         /\ order' = Written(c, st)
         /\ check' = IF Reopens(c, st) THEN Met(c.pid) ELSE check
         /\ tab' = [t \in Tabs |->
                IF ~Awaits(t, c) THEN tab[t]
                ELSE [tab[t] EXCEPT !.shown = IF @ = "none" /\ tab[t].at = "receipt" /\ st # "SUCCESS"
                                              THEN "error" ELSE st]]
  BY DEF Finish
<1>4. /\ st \in Comings
      /\ c.read = "INITIATED" /\ c.says = "unknown" /\ order[c.pid].gw = "none" => st = "INITIATED"
  BY <1>2, ComesTo
<1> DEFINE s == IF Writes(c) THEN st ELSE order[c.pid].st
           h == order[c.pid].heard \/ c.kind = "report"
           n == [order[c.pid] EXCEPT !.st = s, !.heard = h]
           known(p) == [order[p] EXCEPT !.with = @ \cup {c.pid}]
<1>5. n \in OrderRow /\ n.st = s /\ n.gw = order[c.pid].gw /\ n.with = order[c.pid].with /\ n.recent = order[c.pid].recent
  <2>1. s \in Comings \cup {"none"} /\ h \in BOOLEAN
    BY <1>1, <1>2, <1>4 DEF OrderRow
  <2> HIDE DEF s, h
  <2> DEFINE m == [order[c.pid] EXCEPT !.st = s]
  <2>2. /\ m \in OrderRow /\ m.st = s /\ m.gw = order[c.pid].gw /\ m.with = order[c.pid].with
        /\ m.recent = order[c.pid].recent
    BY <1>1, <1>2, <2>1 DEF OrderRow
  <2>3. n = [m EXCEPT !.heard = h]
    OBVIOUS
  <2> HIDE DEF m, n
  <2> QED
    BY <2>1, <2>2, <2>3 DEF OrderRow
<1>6. \A p \in Orders : /\ known(p) \in OrderRow /\ known(p).st = order[p].st /\ known(p).gw = order[p].gw
                        /\ known(p).with = order[p].with \cup {c.pid} /\ known(p).recent = order[p].recent
  BY <1>1, <1>2 DEF OrderRow
<1>7. order' = [p \in Orders |-> IF p = c.pid THEN n
                                 ELSE IF Reopens(c, st) /\ c.pid < p /\ order[p] # NoOrder
                                 THEN known(p) ELSE order[p]]
  BY <1>3, Zenon DEF Written
<1> HIDE DEF n, known
<1>8. /\ order' \in [Orders -> OrderRow] /\ order'[c.pid] = n
      /\ \A p \in Orders \ {c.pid} : order'[p] = IF Reopens(c, st) /\ c.pid < p /\ order[p] # NoOrder
                                                 THEN known(p) ELSE order[p]
  BY <1>1, <1>2, <1>5, <1>6, <1>7
<1>9. s # "none"
  BY <1>2, <1>4 DEF Placed, Comings, OpenStates
<1>10. /\ \A p \in Orders : /\ order'[p].gw = order[p].gw /\ order'[p].recent = order[p].recent
                            /\ order[p].with \subseteq order'[p].with
       /\ \A p \in Orders \ {c.pid} : order'[p].st = order[p].st
  BY <1>2, <1>5, <1>6, <1>8
<1>11. \A p \in Orders : Placed(p)' <=> Placed(p)
  BY <1>2, <1>5, <1>8, <1>9, <1>10 DEF Placed
<1>12. \A p \in Orders : ~Placed(p) => order'[p] = order[p]
  BY <1>1, <1>2, <1>8
<1>13. /\ check' \in [Tabs -> CheckRequest]
       /\ \A t \in Tabs : /\ check'[t].pc = check[t].pc /\ check'[t].pid = check[t].pid
                          /\ check[t].met \subseteq check'[t].met
                          /\ Reopens(c, st) /\ check[t].pc = "create" => c.pid \in check'[t].met
  <2> DEFINE told(t) == [check[t] EXCEPT !.met = @ \cup {c.pid}]
  <2>1. \A t \in Tabs : /\ told(t) \in CheckRequest /\ told(t).pc = check[t].pc /\ told(t).pid = check[t].pid
                        /\ told(t).met = check[t].met \cup {c.pid}
    BY <1>1, <1>2 DEF CheckRequest
  <2>2. check' = IF Reopens(c, st)
                 THEN [t \in Tabs |-> IF check[t].pc = "create" THEN told(t) ELSE check[t]] ELSE check
    BY <1>3 DEF Met
  <2> HIDE DEF told
  <2> QED
    BY <1>1, <2>1, <2>2
<1>14. \A p \in Orders : RecentOpen(order'[p]) =>
          \/ RecentOpen(order[p])
          \/ /\ \A q \in Orders : p < q /\ Placed(q) => p \in order'[q].with
             /\ \A t \in Tabs : check'[t].pc = "create" => p \in check'[t].met
  <2> SUFFICES ASSUME NEW p \in Orders, RecentOpen(order'[p]), ~RecentOpen(order[p])
               PROVE  /\ \A q \in Orders : p < q /\ Placed(q) => p \in order'[q].with
                      /\ \A t \in Tabs : check'[t].pc = "create" => p \in check'[t].met
    OBVIOUS
  <2>1. p = c.pid
    BY <1>10 DEF RecentOpen
  <2>2. s \in OpenStates /\ order[c.pid].st \notin OpenStates
    BY <1>5, <1>8, <1>10, <2>1 DEF RecentOpen
  <2>3. Reopens(c, st)
    BY <2>2 DEF Reopens
  <2>4. \A q \in Orders : c.pid < q /\ Placed(q) => c.pid \in order'[q].with
    <3>1. \A q \in Orders : Placed(q) => order[q] # NoOrder
      BY DEF Placed, NoOrder
    <3>2. \A q \in Orders : c.pid < q => q # c.pid
      BY <1>2, SiteConstants
    <3> QED
      BY <1>6, <1>8, <2>3, <3>1, <3>2
  <2> QED
    BY <1>13, <2>1, <2>3, <2>4
<1>15. \A t \in Tabs : check'[t].pc = "gateway" =>
          /\ check[t].pc = "gateway" /\ check'[t].pid = check[t].pid
          /\ \A p \in check[t].pid : order'[p].st = order[p].st /\ order'[p].gw = order[p].gw
  <2> SUFFICES ASSUME NEW t \in Tabs, check[t].pc = "gateway", NEW p \in check[t].pid
               PROVE  order'[p].st = order[p].st /\ order'[p].gw = order[p].gw
    BY <1>13
  <2>1. p \in Orders
    BY <1>1 DEF CheckRequest
  <2>2. p = c.pid => s = "INITIATED" /\ order[p].st = "INITIATED"
    BY <1>4 DEF OrdersInv
  <2> QED
    BY <1>5, <1>8, <1>10, <2>1, <2>2
<1>16. \A t \in Tabs : tab'[t].pid \cup check'[t].pid \subseteq tab[t].pid \cup check[t].pid
  <2>1. \A t \in Tabs : tab'[t].pid = tab[t].pid
    <3>1. \A a : \A t \in Tabs : tab[t] \in TabPage /\ [tab[t] EXCEPT !.shown = a].pid = tab[t].pid
      BY DEF TabPage
    <3> QED
      BY <1>3, <3>1
  <2> QED
    BY <1>13, <2>1
<1> QED
  BY <1>1, <1>8, <1>10, <1>11, <1>12, <1>13, <1>14, <1>15, <1>16, OrdersKept

(* The pages that no call concerns keep the orders they are about, but     *)
(* that a checkout is about the order of its request.                      *)
LEMMA PidsMove ==
    ASSUME tab \in [Tabs -> TabPage], NEW t \in Tabs,
           \/ OpenDues(t) \/ Refetch(t) \/ PayOnline(t) \/ BrowserReturns(t) \/ ViewReceipt(t)
           \/ HandleSubmit(t) \/ CheckDues(t) \/ CheckOpen(t) \/ CheckoutOpens(t)
           \/ SubmitFailed(t) \/ Unheard(t) \/ Leave(t)
    PROVE  \A u \in Tabs : tab'[u].pid \subseteq tab[u].pid \cup check[u].pid
<1>1. CASE tab' = tab
  BY <1>1
<1>2. ASSUME NEW n, tab' = [tab EXCEPT ![t] = n], n.pid \subseteq tab[t].pid \cup check[t].pid
      PROVE  \A u \in Tabs : tab'[u].pid \subseteq tab[u].pid \cup check[u].pid
  BY <1>2
<1>3. NoTab \in TabPage /\ NoTab.pid = {}
  BY DEF NoTab, TabPage
<1>4. \A a, b : \A x \in TabPage :
         /\ [x EXCEPT !.at = a].pid = x.pid /\ [x EXCEPT !.payable = a].pid = x.pid
         /\ [x EXCEPT !.submitted = a].pid = x.pid
         /\ [x EXCEPT !.at = a, !.payable = b].pid = x.pid
         /\ [x EXCEPT !.at = a, !.shown = b].pid = x.pid
         /\ [x EXCEPT !.at = a, !.pid = b].pid = b
  BY DEF TabPage
<1>5. CASE OpenDues(t)
  BY <1>2, <1>3, <1>4, <1>5 DEF OpenDues
<1>6. CASE Leave(t)
  BY <1>2, <1>3, <1>4, <1>6 DEF Leave
<1>10. CASE Refetch(t)
  <2>1. tab' = [tab EXCEPT ![t] = [tab[t] EXCEPT !.payable = Payable]]
    BY <1>10 DEF Refetch
  <2> QED
    BY <1>2, <1>4, <2>1
<1>11. CASE PayOnline(t) \/ BrowserReturns(t)
  <2>1. \E a : tab' = [tab EXCEPT ![t] = [tab[t] EXCEPT !.at = a]]
    BY <1>11 DEF PayOnline, BrowserReturns
  <2> QED
    BY <1>2, <1>4, <2>1
<1>12. CASE HandleSubmit(t) \/ SubmitFailed(t)
  <2>1. \E a : tab' = [tab EXCEPT ![t] = [tab[t] EXCEPT !.submitted = a]]
    BY <1>12 DEF HandleSubmit, SubmitFailed
  <2> QED
    BY <1>2, <1>4, <2>1
<1>7. CASE ViewReceipt(t)
  <2>1. tab' = [tab EXCEPT ![t] = [tab[t] EXCEPT !.at = "receipt", !.shown = "none"]]
    BY <1>7 DEF ViewReceipt
  <2> QED
    BY <1>2, <1>4, <2>1
<1>8. CASE CheckoutOpens(t)
  <2>1. tab' = [tab EXCEPT ![t] = [tab[t] EXCEPT !.at = "checkout", !.pid = check[t].pid]]
    BY <1>8 DEF CheckoutOpens
  <2> QED
    BY <1>2, <1>4, <2>1
<1>9. CASE CheckDues(t) \/ CheckOpen(t) \/ Unheard(t)
  BY <1>1, <1>9 DEF CheckDues, CheckOpen, Unheard
<1> QED
  BY <1>5, <1>6, <1>7, <1>8, <1>9, <1>10, <1>11, <1>12

LEMMA OrdersStep ==
    ASSUME OrdersInv, tab \in [Tabs -> TabPage], [SiteNext]_siteVars
    PROVE  OrdersInv'
<1>1. check \in [Tabs -> CheckRequest]
  BY DEF OrdersInv, RowsInv
<1>2. ASSUME check' = check, order' = order, calls' = calls,
             \A u \in Tabs : tab'[u].pid \subseteq tab[u].pid \cup check[u].pid
      PROVE  OrdersInv'
  BY <1>1, <1>2, ChecksKept
<1>3. CASE Searching \/ UNCHANGED siteVars
  <2>1. check' = check /\ order' = order /\ calls' = calls /\ tab' = tab
    BY <1>3 DEF Searching, EditForm, HandleSearch, RunSearch, GoToPage, HandleReset, SearchAnswered,
                SearchFailed, siteVars, siteDb
  <2> QED
    BY <1>2, <2>1
<1>4. ASSUME NEW t \in Tabs, OpenDues(t) \/ Refetch(t) \/ PayOnline(t) \/ BrowserReturns(t) \/ ViewReceipt(t)
      PROVE  OrdersInv'
  <2>1. check' = check /\ order' = order /\ calls' = calls
    BY <1>4 DEF OpenDues, Refetch, PayOnline, BrowserReturns, ViewReceipt, siteDb
  <2> QED
    BY <1>2, <1>4, <2>1, PidsMove
<1>5. ASSUME NEW p \in Orders, WindowPasses(p) \/ OrderPaid(p)
      PROVE  OrdersInv'
  <2>1. check' = check /\ calls' = calls /\ tab' = tab
    BY <1>5 DEF WindowPasses, OrderPaid
  <2> QED
    BY <1>5, <2>1, OrdersMove
<1>6. ASSUME NEW t \in Tabs, HandleSubmit(t) \/ CheckDues(t) \/ CheckOpen(t) \/ CheckoutOpens(t)
                             \/ SubmitFailed(t) \/ Unheard(t) \/ Leave(t)
      PROVE  OrdersInv'
  <2>1. order' = order /\ calls' = calls
    BY <1>6 DEF HandleSubmit, CheckDues, CheckOpen, CheckoutOpens, SubmitFailed, Unheard, Leave, siteDb
  <2>2. \A u \in Tabs : tab'[u].pid \subseteq tab[u].pid \cup check[u].pid
    BY <1>6, PidsMove
  <2> QED
    BY <1>6, <2>1, <2>2, ChecksMove
<1> QED
  BY <1>3, <1>4, <1>5, <1>6, InsertKeeps, AnswersMove, CallsMove, FinishKeeps
     DEF SiteNext, Browsing, Ordering, Asking, Confirming

(* Orders begin well without a request, and with one order at most: the    *)
(* first, which a page may be about.                                       *)
LEMMA OrdersStart ==
    ASSUME check = [t \in Tabs |-> NoCheck], order \in [Orders -> OrderRow], calls = {},
           \A p \in Orders : ~Placed(p) => order[p] = NoOrder,
           \A p, q \in Orders : Placed(q) => q <= p,
           \A t \in Tabs : tab[t].pid \subseteq {p \in Orders : Placed(p)}
    PROVE  OrdersInv
<1>1. NoCheck \in CheckRequest /\ NoCheck.pc = "idle" /\ NoCheck.pid = {}
  BY DEF NoCheck, CheckRequest
<1>2. check \in [Tabs -> CheckRequest] /\ \A t \in Tabs : check[t].pc = "idle" /\ check[t].pid = {}
  BY <1>1
<1>3. \A p, q \in Orders : ~(p < q /\ Placed(q))
  <2>1. Orders \subseteq Nat
    BY SiteConstants
  <2> QED
    BY <2>1
<1> QED
  BY <1>2, <1>3 DEF OrdersInv, RowsInv

LEMMA SiteInitOrders == SiteInit => OrdersInv
<1> SUFFICES ASSUME SiteInit
             PROVE  OrdersInv
  OBVIOUS
<1>1. NoOrder \in OrderRow /\ NoOrder.st = "none" /\ NoTab.pid = {}
  BY DEF NoOrder, OrderRow, Comings, OpenStates, NoTab
<1>2. order \in [Orders -> OrderRow] /\ \A p \in Orders : order[p] = NoOrder /\ ~Placed(p)
  BY <1>1 DEF SiteInit, Placed
<1>3. check = [t \in Tabs |-> NoCheck] /\ calls = {} /\ \A t \in Tabs : tab[t].pid = {}
  BY <1>1 DEF SiteInit
<1> QED
  BY <1>2, <1>3, OrdersStart

-----------------------------------------------------------------------------
(* The types of the pages.                                                 *)

TabsTyped == tab \in [Tabs -> TabPage] /\ owed \in BOOLEAN /\ failures \in 0..MaxFailures

LEMMA TabsStep == OrdersInv /\ TabsTyped /\ [SiteNext]_siteVars => TabsTyped'
<1> SUFFICES ASSUME OrdersInv, TabsTyped, [SiteNext]_siteVars
             PROVE  TabsTyped'
  OBVIOUS
<1>1. /\ tab \in [Tabs -> TabPage] /\ owed \in BOOLEAN /\ failures \in 0..MaxFailures
      /\ check \in [Tabs -> CheckRequest] /\ order \in [Orders -> OrderRow] /\ calls \subseteq CallRow
  BY DEF OrdersInv, RowsInv, TabsTyped
<1>2. ASSUME tab' = tab, owed' = owed, failures' = failures
      PROVE  TabsTyped'
  BY <1>2 DEF TabsTyped
<1>3. ASSUME NEW t \in Tabs, NEW n \in TabPage, tab' = [tab EXCEPT ![t] = n], owed' = owed,
             failures' = failures
      PROVE  TabsTyped'
  BY <1>1, <1>3 DEF TabsTyped
<1>4. NoTab \in TabPage
  BY DEF NoTab, TabPage
<1>5. ASSUME NEW t \in Tabs, OpenDues(t) \/ Refetch(t) \/ PayOnline(t) \/ Leave(t) \/ BrowserReturns(t)
      PROVE  TabsTyped'
  <2>1. tab[t] \in TabPage /\ owed' = owed /\ failures' = failures /\ Payable \in BOOLEAN
    BY <1>1, <1>5 DEF OpenDues, Refetch, PayOnline, Leave, BrowserReturns, siteDb, Payable
  <2>2. \A a \in {"dues", "pay", "return", "closed"}, b \in BOOLEAN :
           /\ [NoTab EXCEPT !.at = a, !.payable = b] \in TabPage /\ [NoTab EXCEPT !.at = a] \in TabPage
           /\ [tab[t] EXCEPT !.payable = b] \in TabPage /\ [tab[t] EXCEPT !.at = a] \in TabPage
    BY <1>4, <2>1 DEF TabPage
  <2>3. CASE OpenDues(t)
    BY <1>1, <1>3, <2>1, <2>2, <2>3 DEF OpenDues
  <2>4. CASE Refetch(t)
    BY <1>1, <1>3, <2>1, <2>2, <2>4 DEF Refetch
  <2>5. CASE PayOnline(t)
    BY <1>1, <1>3, <2>1, <2>2, <2>5 DEF PayOnline
  <2>6. CASE Leave(t)
    BY <1>1, <1>3, <2>1, <2>2, <2>6 DEF Leave
  <2>7. CASE BrowserReturns(t)
    BY <1>1, <1>3, <2>1, <2>2, <2>7 DEF BrowserReturns
  <2> QED
    BY <1>5, <2>3, <2>4, <2>5, <2>6, <2>7
<1>6. ASSUME NEW t \in Tabs, HandleSubmit(t) \/ CheckoutOpens(t) \/ SubmitFailed(t) \/ ViewReceipt(t)
      PROVE  TabsTyped'
  <2>1. tab[t] \in TabPage /\ check[t].pid \in SUBSET Orders /\ owed' = owed /\ failures' = failures
    BY <1>1, <1>6 DEF HandleSubmit, CheckoutOpens, SubmitFailed, ViewReceipt, siteDb, CheckRequest
  <2>2. \A b \in BOOLEAN, pid \in SUBSET Orders :
           /\ [tab[t] EXCEPT !.submitted = b] \in TabPage
           /\ [tab[t] EXCEPT !.at = "checkout", !.pid = pid] \in TabPage
           /\ [tab[t] EXCEPT !.at = "receipt", !.shown = "none"] \in TabPage
    BY <2>1 DEF TabPage
  <2>3. CASE HandleSubmit(t)
    BY <1>1, <1>3, <2>1, <2>2, <2>3 DEF HandleSubmit
  <2>4. CASE SubmitFailed(t)
    BY <1>1, <1>3, <2>1, <2>2, <2>4 DEF SubmitFailed
  <2>5. CASE CheckoutOpens(t)
    <3>1. tab' = [tab EXCEPT ![t] = [tab[t] EXCEPT !.at = "checkout", !.pid = check[t].pid]]
      BY <1>1, <2>5 DEF CheckoutOpens
    <3> QED
      BY <1>1, <1>3, <2>1, <2>2, <3>1
  <2>6. CASE ViewReceipt(t)
    <3>1. tab' = [tab EXCEPT ![t] = [tab[t] EXCEPT !.at = "receipt", !.shown = "none"]]
      BY <1>1, <2>6 DEF ViewReceipt
    <3> QED
      BY <1>1, <1>3, <2>1, <2>2, <3>1
  <2> QED
    BY <1>6, <2>3, <2>4, <2>5, <2>6
<1>7. ASSUME NEW t \in Tabs, CheckDues(t) \/ CheckOpen(t) \/ CreateOrder(t) \/ OrderIssued(t)
                             \/ OrderRefused(t) \/ Unheard(t) \/ Poll(t)
      PROVE  TabsTyped'
  BY <1>1, <1>2, <1>7 DEF CheckDues, CheckOpen, CreateOrder, OrderIssued, OrderRefused, Unheard, Poll, siteDb
<1>8. ASSUME NEW p \in Orders, \/ WindowPasses(p) \/ OrderPaid(p) \/ OfficeRequery(p)
                               \/ \E says : Report(p, says)
      PROVE  TabsTyped'
  BY <1>1, <1>2, <1>8 DEF WindowPasses, OrderPaid, OfficeRequery, Report
<1>9. ASSUME NEW c \in calls, Finish(c) \/ CallFails(c)
      PROVE  TabsTyped'
  <2>1. \A t \in Tabs, a \in Comings \cup {"error"} : [tab[t] EXCEPT !.shown = a] \in TabPage
    BY <1>1 DEF TabPage, Comings
  <2>2. ASSUME CallFails(c)
        PROVE  tab' \in [Tabs -> TabPage]
    <3>1. tab' = [t \in Tabs |-> IF Awaits(t, c) /\ tab[t].shown = "none"
                                 THEN [tab[t] EXCEPT !.shown = "error"] ELSE tab[t]]
      BY <2>2 DEF CallFails
    <3> QED
      BY <1>1, <2>1, <3>1
  <2>3. ASSUME Finish(c)
        PROVE  tab' \in [Tabs -> TabPage]
    <3>1. PICK st \in IF Writes(c) THEN Outcomes(c) ELSE {c.read} :
             tab' = [t \in Tabs |->
                IF ~Awaits(t, c) THEN tab[t]
                ELSE [tab[t] EXCEPT !.shown = IF @ = "none" /\ tab[t].at = "receipt" /\ st # "SUCCESS"
                                              THEN "error" ELSE st]]
      BY <2>3 DEF Finish
    <3> DEFINE a(t) == IF tab[t].shown = "none" /\ tab[t].at = "receipt" /\ st # "SUCCESS"
                       THEN "error" ELSE st
               n(t) == [tab[t] EXCEPT !.shown = IF @ = "none" /\ tab[t].at = "receipt" /\ st # "SUCCESS"
                                                THEN "error" ELSE st]
    <3>2. st \in Comings
      <4>1. c \in CallRow
        BY <1>1
      <4> QED
        BY <4>1, ComesTo
    <3>3. \A t \in Tabs : a(t) \in Comings \cup {"error"} /\ n(t) = [tab[t] EXCEPT !.shown = a(t)]
      BY <3>2
    <3> HIDE DEF a
    <3>4. \A t \in Tabs : n(t) \in TabPage
      BY <2>1, <3>3
    <3>5. tab' = [t \in Tabs |-> IF ~Awaits(t, c) THEN tab[t] ELSE n(t)]
      BY <3>1
    <3> HIDE DEF n
    <3> QED
      BY <1>1, <3>4, <3>5
  <2>4. owed' \in BOOLEAN /\ failures' \in 0..MaxFailures
    <3>1. CASE Finish(c)
      <4>1. failures' = failures /\ \E b \in BOOLEAN : owed' = b
        BY <3>1 DEF Finish
      <4> QED
        BY <1>1, <4>1
    <3>2. CASE CallFails(c)
      BY <1>1, <3>2, SiteConstants DEF CallFails
    <3> QED
      BY <1>9, <3>1, <3>2
  <2> QED
    BY <1>9, <2>2, <2>3, <2>4 DEF TabsTyped
<1>10. CASE Searching
  BY <1>1, <1>2, <1>10 DEF Searching, EditForm, HandleSearch, GoToPage, RunSearch, SearchAnswered,
                           SearchFailed, HandleReset, siteDb
<1>11. CASE UNCHANGED siteVars
  BY <1>1, <1>2, <1>11 DEF siteVars
<1> QED
  BY <1>5, <1>6, <1>7, <1>8, <1>9, <1>10, <1>11 DEF SiteNext, Browsing, Ordering, Asking, Confirming

-----------------------------------------------------------------------------
(* What the pages show of the money.                                       *)

\* Whatever was read or told as a success is paid at the gateway, a page
\* that has no order shows no status, and one that shows SUCCESS is right
MoneyInv ==
    /\ \A p \in Orders : order[p].st = "SUCCESS" => order[p].gw = "paid" /\ ~owed
    /\ \A c \in calls : /\ c.read = "SUCCESS" => order[c.pid].gw = "paid" /\ ~owed
                        /\ c.says = "paid" => order[c.pid].gw = "paid"
    /\ \A t \in Tabs : check[t].awaited => tab[t].at = "pay"
    /\ \A t \in Tabs : tab[t].at \notin {"checkout", "return", "receipt"} =>
          tab[t].pid = {} /\ tab[t].shown = "none"
    /\ SuccessShownIsPaid

\* The money at the gateway stays, and what is no longer owed stays so
LEMMA MoneyKept ==
    ASSUME RowsInv, MoneyInv, tab \in [Tabs -> TabPage],
           \A t \in Tabs : tab'[t].pid \subseteq Orders,
           owed' => owed, \A p \in Orders : order[p].gw = "paid" => order'[p].gw = "paid",
           \A p \in Orders : order'[p].st = "SUCCESS" =>
              order[p].st = "SUCCESS" \/ (order'[p].gw = "paid" /\ ~owed'),
           \A c \in calls' : c \in calls \/ /\ c.read = "SUCCESS" => order'[c.pid].gw = "paid" /\ ~owed'
                                            /\ c.says = "paid" => order'[c.pid].gw = "paid",
           \A t \in Tabs : check'[t].awaited => tab'[t].at = "pay",
           \A t \in Tabs : tab'[t].at \notin {"checkout", "return", "receipt"} =>
              tab'[t].pid = {} /\ tab'[t].shown = "none",
           \A t \in Tabs : tab'[t].shown = "SUCCESS" =>
              \/ tab[t].shown = "SUCCESS" /\ tab'[t].pid = tab[t].pid
              \/ ~owed' /\ \A p \in tab'[t].pid : order'[p].gw = "paid"
    PROVE  MoneyInv'
<1>1. \A c \in calls : c.pid \in Orders
  BY DEF RowsInv, CallRow
<1>2. \A p \in Orders : order'[p].st = "SUCCESS" => order'[p].gw = "paid" /\ ~owed'
  BY DEF MoneyInv
<1>3. \A c \in calls' : /\ c.read = "SUCCESS" => order'[c.pid].gw = "paid" /\ ~owed'
                        /\ c.says = "paid" => order'[c.pid].gw = "paid"
  BY <1>1 DEF MoneyInv
<1>4. \A t \in Tabs : tab'[t].shown = "SUCCESS" => ~owed' /\ \A p \in tab'[t].pid : order'[p].gw = "paid"
  BY DEF MoneyInv, SuccessShownIsPaid
<1> QED
  BY <1>2, <1>3, <1>4 DEF MoneyInv, SuccessShownIsPaid

\* Steps of one tab and its request
LEMMA TabMoney ==
    ASSUME OrdersInv, MoneyInv, TabsTyped, UNCHANGED siteDb, NEW t \in Tabs,
           NEW x \in TabPage, NEW r \in CheckRequest,
           tab' = [tab EXCEPT ![t] = x], check' = [check EXCEPT ![t] = r],
           r.awaited => x.at = "pay",
           x.at \notin {"checkout", "return", "receipt"} => x.pid = {} /\ x.shown = "none",
           x.shown = "SUCCESS" => tab[t].shown = "SUCCESS" /\ x.pid = tab[t].pid
    PROVE  MoneyInv'
<1>1. RowsInv /\ check \in [Tabs -> CheckRequest] /\ order' = order /\ owed' = owed /\ calls' = calls
         /\ tab \in [Tabs -> TabPage]
  BY DEF OrdersInv, RowsInv, siteDb, TabsTyped
<1>2. /\ tab' \in [Tabs -> TabPage] /\ \A u \in Tabs : tab'[u] = IF u = t THEN x ELSE tab[u]
      /\ \A u \in Tabs : check'[u] = IF u = t THEN r ELSE check[u]
  BY <1>1
<1>3. \A u \in Tabs : tab'[u].pid \subseteq Orders
  BY <1>2 DEF TabPage
<1>4. \A u \in Tabs : check'[u].awaited => tab'[u].at = "pay"
  BY <1>2 DEF MoneyInv
<1>5. \A u \in Tabs : tab'[u].at \notin {"checkout", "return", "receipt"} =>
         tab'[u].pid = {} /\ tab'[u].shown = "none"
  BY <1>2 DEF MoneyInv
<1>6. \A u \in Tabs : tab'[u].shown = "SUCCESS" => tab[u].shown = "SUCCESS" /\ tab'[u].pid = tab[u].pid
  BY <1>2
<1> QED
  BY <1>1, <1>3, <1>4, <1>5, <1>6, MoneyKept

LEMMA BrowseMoney ==
    ASSUME OrdersInv, MoneyInv, TabsTyped, NEW t \in Tabs,
           OpenDues(t) \/ Refetch(t) \/ PayOnline(t) \/ Leave(t) \/ BrowserReturns(t) \/ ViewReceipt(t)
    PROVE  MoneyInv'
<1>1. /\ check \in [Tabs -> CheckRequest] /\ tab[t] \in TabPage /\ check[t] \in CheckRequest
      /\ check[t].awaited => tab[t].at = "pay"
      /\ tab[t].at \notin {"checkout", "return", "receipt"} => tab[t].pid = {} /\ tab[t].shown = "none"
  BY DEF OrdersInv, RowsInv, MoneyInv, TabsTyped
<1>2. UNCHANGED siteDb
  BY DEF OpenDues, Refetch, PayOnline, Leave, BrowserReturns, ViewReceipt
<1>3. ASSUME check' = check
      PROVE  check' = [check EXCEPT ![t] = check[t]]
  BY <1>1, <1>3
<1>4. NoTab \in TabPage /\ NoTab.pid = {} /\ NoTab.shown = "none"
  BY DEF NoTab, TabPage
<1>5. owed \in BOOLEAN
  BY DEF TabsTyped
<1>7. CASE OpenDues(t)
  <2> DEFINE x == [NoTab EXCEPT !.at = "dues", !.payable = owed]
  <2>1. x \in TabPage /\ x.at = "dues" /\ x.pid = {} /\ x.shown = "none"
    BY <1>4, <1>5 DEF TabPage
  <2>2. tab' = [tab EXCEPT ![t] = x] /\ check' = check
    BY <1>7 DEF OpenDues, Payable
  <2>3. check[t].awaited = FALSE
    BY <1>1, <1>7 DEF OpenDues, CheckRequest
  <2> HIDE DEF x
  <2> QED
    BY <1>1, <1>2, <1>3, <2>1, <2>2, <2>3, TabMoney
<1>8. CASE Refetch(t)
  <2> DEFINE x == [tab[t] EXCEPT !.payable = owed]
  <2>1. x \in TabPage /\ x.at = tab[t].at /\ x.pid = tab[t].pid /\ x.shown = tab[t].shown
    BY <1>1, <1>5 DEF TabPage
  <2>2. tab' = [tab EXCEPT ![t] = x] /\ check' = check
    BY <1>1, <1>8 DEF Refetch, Payable
  <2> HIDE DEF x
  <2> QED
    BY <1>1, <1>2, <1>3, <2>1, <2>2, TabMoney
<1>9. CASE PayOnline(t)
  <2> DEFINE x == [tab[t] EXCEPT !.at = "pay"]
  <2>1. x \in TabPage /\ x.at = "pay" /\ x.pid = tab[t].pid /\ x.shown = tab[t].shown
    BY <1>1 DEF TabPage
  <2>2. tab' = [tab EXCEPT ![t] = x] /\ check' = check /\ tab[t].at = "dues"
    BY <1>1, <1>9 DEF PayOnline
  <2> HIDE DEF x
  <2> QED
    BY <1>1, <1>2, <1>3, <2>1, <2>2, TabMoney
<1>10. CASE Leave(t)
  <2> DEFINE x == [NoTab EXCEPT !.at = "closed"]
             r == [check[t] EXCEPT !.awaited = FALSE]
  <2>1. x \in TabPage /\ x.at = "closed" /\ x.pid = {} /\ x.shown = "none"
    BY <1>4 DEF TabPage
  <2>2. r \in CheckRequest /\ r.awaited = FALSE
    BY <1>1 DEF CheckRequest
  <2>3. tab' = [tab EXCEPT ![t] = x] /\ check' = [check EXCEPT ![t] = r]
    BY <1>1, <1>10 DEF Leave
  <2> HIDE DEF x, r
  <2> QED
    BY <1>2, <2>1, <2>2, <2>3, TabMoney
<1>11. CASE BrowserReturns(t)
  <2> DEFINE x == [tab[t] EXCEPT !.at = "return"]
  <2>1. x \in TabPage /\ x.at = "return" /\ x.pid = tab[t].pid /\ x.shown = tab[t].shown
    BY <1>1 DEF TabPage
  <2>2. tab' = [tab EXCEPT ![t] = x] /\ check' = check /\ tab[t].at = "checkout"
    BY <1>1, <1>11 DEF BrowserReturns
  <2> HIDE DEF x
  <2> QED
    BY <1>1, <1>2, <1>3, <2>1, <2>2, TabMoney
<1>12. CASE ViewReceipt(t)
  <2> DEFINE x == [tab[t] EXCEPT !.at = "receipt", !.shown = "none"]
  <2>1. x \in TabPage /\ x.at = "receipt" /\ x.shown = "none"
    BY <1>1 DEF TabPage
  <2>2. tab' = [tab EXCEPT ![t] = x] /\ check' = check /\ tab[t].at = "return"
    BY <1>1, <1>12 DEF ViewReceipt
  <2> HIDE DEF x
  <2> QED
    BY <1>1, <1>2, <1>3, <2>1, <2>2, TabMoney
<1> QED
  BY <1>7, <1>8, <1>9, <1>10, <1>11, <1>12

\* The requests of the pay page
LEMMA SubmitMoney ==
    ASSUME OrdersInv, MoneyInv, TabsTyped, NEW t \in Tabs,
           \/ HandleSubmit(t) \/ CheckDues(t) \/ CheckOpen(t) \/ CheckoutOpens(t)
           \/ SubmitFailed(t) \/ Unheard(t)
    PROVE  MoneyInv'
<1>1. /\ check \in [Tabs -> CheckRequest] /\ tab[t] \in TabPage /\ check[t] \in CheckRequest
      /\ check[t].pid \in SUBSET Orders
      /\ check[t].awaited => tab[t].at = "pay"
      /\ tab[t].at \notin {"checkout", "return", "receipt"} => tab[t].pid = {} /\ tab[t].shown = "none"
  BY DEF OrdersInv, RowsInv, MoneyInv, TabsTyped, CheckRequest
<1>2. UNCHANGED siteDb
  BY DEF HandleSubmit, CheckDues, CheckOpen, CheckoutOpens, SubmitFailed, Unheard
<1>3. ASSUME tab' = tab
      PROVE  tab' = [tab EXCEPT ![t] = tab[t]]
  BY <1>3 DEF TabsTyped
<1>4. NoCheck \in CheckRequest /\ NoCheck.awaited = FALSE
  BY DEF NoCheck, CheckRequest
<1>5. CASE HandleSubmit(t)
  <2> DEFINE x == [tab[t] EXCEPT !.submitted = TRUE]
             r == [NoCheck EXCEPT !.pc = "dues", !.awaited = TRUE]
  <2>1. x \in TabPage /\ x.at = tab[t].at /\ x.pid = tab[t].pid /\ x.shown = tab[t].shown
    BY <1>1 DEF TabPage
  <2>2. r \in CheckRequest
    BY <1>4 DEF CheckRequest
  <2>3. tab' = [tab EXCEPT ![t] = x] /\ check' = [check EXCEPT ![t] = r] /\ tab[t].at = "pay"
    BY <1>1, <1>5 DEF HandleSubmit
  <2> HIDE DEF x, r
  <2> QED
    BY <1>1, <1>2, <2>1, <2>2, <2>3, TabMoney
<1>6. ASSUME NEW pc \in {"open", "refused", "create"}, tab' = tab,
             check' = [check EXCEPT ![t] = [check[t] EXCEPT !.pc = pc]]
      PROVE  MoneyInv'
  <2> DEFINE r == [check[t] EXCEPT !.pc = pc]
  <2>1. r \in CheckRequest /\ r.awaited = check[t].awaited
    BY <1>1 DEF CheckRequest
  <2>2. check' = [check EXCEPT ![t] = r] /\ tab' = [tab EXCEPT ![t] = tab[t]]
    BY <1>3, <1>6
  <2> HIDE DEF r
  <2> QED
    BY <1>1, <1>2, <2>1, <2>2, TabMoney
<1>7. CASE CheckDues(t)
  <2> DEFINE pc == IF Payable THEN "open" ELSE "refused"
  <2>1. tab' = tab /\ check' = [check EXCEPT ![t] = [check[t] EXCEPT !.pc = pc]]
    BY <1>7 DEF CheckDues
  <2>2. pc \in {"open", "refused", "create"}
    OBVIOUS
  <2> HIDE DEF pc
  <2> QED
    BY <1>6, <2>1, <2>2
<1>8. CASE CheckOpen(t)
  <2> DEFINE pc == IF \E p \in Orders : RecentOpen(order[p]) THEN "refused" ELSE "create"
  <2>1. tab' = tab /\ check' = [check EXCEPT ![t] = [check[t] EXCEPT !.pc = pc]]
    BY <1>8 DEF CheckOpen
  <2>2. pc \in {"open", "refused", "create"}
    OBVIOUS
  <2> HIDE DEF pc
  <2> QED
    BY <1>6, <2>1, <2>2
<1>9. CASE CheckoutOpens(t)
  <2> DEFINE x == [tab[t] EXCEPT !.at = "checkout", !.pid = check[t].pid]
  <2>1. x \in TabPage /\ x.at = "checkout" /\ x.shown = tab[t].shown
    BY <1>1 DEF TabPage
  <2>2. tab' = [tab EXCEPT ![t] = x] /\ check' = [check EXCEPT ![t] = NoCheck] /\ tab[t].shown = "none"
    BY <1>1, <1>9 DEF CheckoutOpens
  <2> HIDE DEF x
  <2> QED
    BY <1>1, <1>2, <1>4, <2>1, <2>2, TabMoney
<1>10. CASE SubmitFailed(t)
  <2> DEFINE x == [tab[t] EXCEPT !.submitted = FALSE]
  <2>1. x \in TabPage /\ x.at = tab[t].at /\ x.pid = tab[t].pid /\ x.shown = tab[t].shown
    BY <1>1 DEF TabPage
  <2>2. tab' = [tab EXCEPT ![t] = x] /\ check' = [check EXCEPT ![t] = NoCheck]
    BY <1>1, <1>10 DEF SubmitFailed
  <2> HIDE DEF x
  <2> QED
    BY <1>1, <1>2, <1>4, <2>1, <2>2, TabMoney
<1>11. CASE Unheard(t)
  BY <1>1, <1>2, <1>3, <1>4, <1>11, TabMoney DEF Unheard
<1> QED
  BY <1>5, <1>7, <1>8, <1>9, <1>10, <1>11

\* Steps that leave the pages alone
LEMMA RowsMoney ==
    ASSUME OrdersInv, MoneyInv, TabsTyped, tab' = tab, owed' = owed,
           \A p \in Orders : order[p].gw = "paid" => order'[p].gw = "paid",
           \A p \in Orders : order'[p].st = "SUCCESS" => order[p].st = "SUCCESS",
           \A c \in calls' : c \in calls \/ /\ c.read = "SUCCESS" => order'[c.pid].gw = "paid" /\ ~owed'
                                            /\ c.says = "paid" => order'[c.pid].gw = "paid",
           \A t \in Tabs : check'[t].awaited = check[t].awaited
    PROVE  MoneyInv'
<1>1. RowsInv /\ tab \in [Tabs -> TabPage] /\ \A t \in Tabs : tab'[t].pid \subseteq Orders
  BY DEF OrdersInv, TabsTyped, TabPage
<1>2. /\ \A t \in Tabs : check'[t].awaited => tab'[t].at = "pay"
      /\ \A t \in Tabs : tab'[t].at \notin {"checkout", "return", "receipt"} =>
            tab'[t].pid = {} /\ tab'[t].shown = "none"
  BY DEF MoneyInv
<1> QED
  BY <1>1, <1>2, MoneyKept

LEMMA OrderMoney ==
    ASSUME OrdersInv, MoneyInv, TabsTyped, NEW t \in Tabs, CreateOrder(t) \/ OrderIssued(t) \/ OrderRefused(t)
    PROVE  MoneyInv'
<1>1. /\ check \in [Tabs -> CheckRequest] /\ check[t] \in CheckRequest /\ order \in [Orders -> OrderRow]
      /\ \A p \in Orders : order[p].st = "SUCCESS" => order[p].gw = "paid" /\ ~owed
      /\ calls' = calls /\ tab' = tab /\ owed' = owed
  BY DEF OrdersInv, RowsInv, MoneyInv, CreateOrder, OrderIssued, OrderRefused
<1>2. CASE CreateOrder(t)
  <2>1. PICK p \in Orders :
          /\ order[p] = NoOrder
          /\ order' = [order EXCEPT ![p] = [NoOrder EXCEPT !.st = "INITIATED", !.recent = TRUE,
                                                           !.with = check[t].met]]
          /\ check' = [Met(p) EXCEPT ![t] = [check[t] EXCEPT !.pc = "gateway", !.pid = {p}]]
    BY <1>2 DEF CreateOrder
  <2>2. order[p].gw = "none" /\ order'[p].st = "INITIATED" /\ \A q \in Orders \ {p} : order'[q] = order[q]
    BY <1>1, <2>1 DEF NoOrder
  <2>3. \A u \in Tabs : Met(p)[u].awaited = check[u].awaited
    BY <1>1 DEF Met, CheckRequest
  <2>4. Met(p) = [u \in Tabs |-> Met(p)[u]] /\ [check[t] EXCEPT !.pc = "gateway", !.pid = {p}].awaited = check[t].awaited
    BY <1>1 DEF Met, CheckRequest
  <2>5. \A u \in Tabs : check'[u].awaited = check[u].awaited
    BY <2>1, <2>3, <2>4
  <2> QED
    BY <1>1, <2>2, <2>5, RowsMoney
<1>3. ASSUME OrderIssued(t) \/ OrderRefused(t)
      PROVE  MoneyInv'
  <2>1. \A pc \in {"issued", "refused"} : [check[t] EXCEPT !.pc = pc].awaited = check[t].awaited
    BY <1>1 DEF CheckRequest
  <2>2. \E pc \in {"issued", "refused"} : check' = [check EXCEPT ![t] = [check[t] EXCEPT !.pc = pc]]
    BY <1>1, <1>3 DEF OrderIssued, OrderRefused
  <2>3. \A u \in Tabs : check'[u].awaited = check[u].awaited
    BY <1>1, <2>1, <2>2
  <2>4. \A p \in check[t].pid : order[p].gw = "none"
    BY <1>3 DEF OrdersInv, OrderIssued, OrderRefused
  <2> DEFINE issued(p) == [order[p] EXCEPT !.st = "PENDING", !.gw = "open"]
             refused(p) == [order[p] EXCEPT !.st = "FAILED"]
  <2>5. \A p \in Orders : issued(p).st = "PENDING" /\ refused(p).st = "FAILED" /\ refused(p).gw = order[p].gw
    BY <1>1 DEF OrderRow
  <2>6. \/ order' = [p \in Orders |-> IF p \in check[t].pid THEN issued(p) ELSE order[p]]
        \/ order' = [p \in Orders |-> IF p \in check[t].pid THEN refused(p) ELSE order[p]]
    BY <1>3 DEF OrderIssued, OrderRefused
  <2> HIDE DEF issued, refused
  <2>7. \A p \in Orders : order[p].gw = "paid" => order'[p].gw = "paid"
    BY <2>4, <2>5, <2>6
  <2>8. \A p \in Orders : order'[p].st = "SUCCESS" => order[p].st = "SUCCESS"
    BY <2>5, <2>6
  <2> QED
    BY <1>1, <2>3, <2>7, <2>8, RowsMoney
<1> QED
  BY <1>2, <1>3

LEMMA GatewayMoney ==
    ASSUME OrdersInv, MoneyInv, TabsTyped, NEW p \in Orders, WindowPasses(p) \/ OrderPaid(p)
    PROVE  MoneyInv'
<1>1. order \in [Orders -> OrderRow] /\ calls' = calls /\ tab' = tab /\ owed' = owed /\ check' = check
  BY DEF OrdersInv, RowsInv, WindowPasses, OrderPaid
<1>2. CASE WindowPasses(p)
  <2> DEFINE aged(q) == [order[q] EXCEPT !.recent = FALSE]
  <2>1. \A q \in Orders : aged(q).st = order[q].st /\ aged(q).gw = order[q].gw
    BY <1>1 DEF OrderRow
  <2>2. order' = [q \in Orders |-> IF q <= p THEN aged(q) ELSE order[q]]
    BY <1>2 DEF WindowPasses
  <2> HIDE DEF aged
  <2>3. \A q \in Orders : order'[q].st = order[q].st /\ order'[q].gw = order[q].gw
    BY <2>1, <2>2
  <2> QED
    BY <1>1, <2>3, RowsMoney
<1>3. CASE OrderPaid(p)
  <2> DEFINE paid == [order[p] EXCEPT !.gw = "paid"]
  <2>1. paid.st = order[p].st /\ paid.gw = "paid"
    BY <1>1 DEF OrderRow
  <2>2. order' = [order EXCEPT ![p] = paid]
    BY <1>1, <1>3 DEF OrderPaid
  <2> HIDE DEF paid
  <2>3. \A q \in Orders : order'[q].st = order[q].st /\ (order[q].gw = "paid" => order'[q].gw = "paid")
    BY <1>1, <2>1, <2>2
  <2> QED
    BY <1>1, <2>3, RowsMoney
<1> QED
  BY <1>2, <1>3

\* What a call reads and is told is what the payment and the gateway say
LEMMA CallMoney ==
    ASSUME OrdersInv, MoneyInv, TabsTyped,
           \/ \E t \in Tabs : Poll(t)
           \/ \E p \in Orders, says \in {"paid", "declined", "unknown"} : Report(p, says)
           \/ \E p \in Orders : OfficeRequery(p)
    PROVE  MoneyInv'
<1>1. /\ tab' = tab /\ owed' = owed /\ check' = check /\ order' = order
      /\ \A p \in Orders : order[p].st = "SUCCESS" => order[p].gw = "paid" /\ ~owed
      /\ \A t \in Tabs : tab[t].pid \subseteq Orders
  BY DEF Poll, Report, OfficeRequery, MoneyInv, TabsTyped, TabPage
<1>2. PICK kind \in {"sync", "report", "requery"}, ts \in SUBSET Tabs, p \in Orders,
           says \in {"paid", "declined", "unknown"} :
         /\ calls' = calls \cup {Call(kind, ts, p, says)}
         /\ says = "paid" => order[p].gw = "paid"
  <2>1. ASSUME NEW t \in Tabs, Poll(t)
        PROVE  \E p \in Orders : /\ calls' = calls \cup {Call("sync", {t}, p, GatewayTells(p))}
                                 /\ GatewayTells(p) \in {"paid", "unknown"}
                                 /\ GatewayTells(p) = "paid" => order[p].gw = "paid"
    BY <1>1, <2>1 DEF Poll, GatewayTells
  <2>2. ASSUME NEW p \in Orders, NEW says \in {"paid", "declined", "unknown"}, Report(p, says)
        PROVE  calls' = calls \cup {Call("report", {}, p, says)} /\ (says = "paid" => order[p].gw = "paid")
    BY <2>2 DEF Report
  <2>3. ASSUME NEW p \in Orders, OfficeRequery(p)
        PROVE  /\ calls' = calls \cup {Call("requery", {}, p, GatewayTells(p))}
               /\ GatewayTells(p) \in {"paid", "unknown"}
               /\ GatewayTells(p) = "paid" => order[p].gw = "paid"
    BY <2>3 DEF OfficeRequery, GatewayTells
  <2>4. CASE \E t \in Tabs : Poll(t)
    <3>1. PICK t \in Tabs : Poll(t)
      BY <2>4
    <3>2. {t} \in SUBSET Tabs
      OBVIOUS
    <3>3. PICK p \in Orders : /\ calls' = calls \cup {Call("sync", {t}, p, GatewayTells(p))}
                              /\ GatewayTells(p) \in {"paid", "unknown"}
                              /\ GatewayTells(p) = "paid" => order[p].gw = "paid"
      BY <2>1, <3>1
    <3> QED
      BY <3>2, <3>3
  <2>5. CASE \E p \in Orders, says \in {"paid", "declined", "unknown"} : Report(p, says)
    BY <2>2, <2>5
  <2>6. CASE \E p \in Orders : OfficeRequery(p)
    BY <2>3, <2>6
  <2> QED
    BY <2>4, <2>5, <2>6
<1>3. /\ Call(kind, ts, p, says).pid = p /\ Call(kind, ts, p, says).says = says
      /\ Call(kind, ts, p, says).read = order[p].st
  BY DEF Call
<1>4. \A c \in calls' : \/ c \in calls
                         \/ /\ c.read = "SUCCESS" => order'[c.pid].gw = "paid" /\ ~owed'
                            /\ c.says = "paid" => order'[c.pid].gw = "paid"
  <2> DEFINE n == Call(kind, ts, p, says)
  <2> HIDE DEF n
  <2>1. n.pid = p /\ n.says = says /\ n.read = order[p].st
    BY <1>3 DEF n
  <2>2. calls' = calls \cup {n}
    BY <1>2 DEF n
  <2> QED
    BY <1>1, <1>2, <2>1, <2>2
<1> QED
  BY <1>1, <1>4, RowsMoney

LEMMA FailureMoney ==
    ASSUME OrdersInv, MoneyInv, TabsTyped, NEW c \in calls, CallFails(c)
    PROVE  MoneyInv'
<1>1. /\ owed' = owed /\ check' = check /\ order' = order /\ RowsInv
      /\ tab \in [Tabs -> TabPage] /\ calls \subseteq CallRow /\ c \in CallRow
  BY DEF CallFails, OrdersInv, RowsInv, TabsTyped
<1> DEFINE late == [c EXCEPT !.tab = {}]
           failed(t) == [tab[t] EXCEPT !.shown = "error"]
<1>2. /\ late.pid = c.pid /\ late.read = c.read /\ late.says = c.says
      /\ \A t \in Tabs : /\ failed(t).at = tab[t].at /\ failed(t).pid = tab[t].pid
                         /\ failed(t).shown = "error"
  BY <1>1 DEF CallRow, TabPage
<1>3. /\ calls' \subseteq calls \cup {late}
      /\ tab' = [t \in Tabs |-> IF Awaits(t, c) /\ tab[t].shown = "none" THEN failed(t) ELSE tab[t]]
  BY DEF CallFails
<1> HIDE DEF late, failed
<1>4. \A b \in calls' : \/ b \in calls
                         \/ /\ b.read = "SUCCESS" => order'[b.pid].gw = "paid" /\ ~owed'
                            /\ b.says = "paid" => order'[b.pid].gw = "paid"
  BY <1>1, <1>2, <1>3 DEF MoneyInv
<1>5. \A t \in Tabs : /\ tab'[t].at = tab[t].at /\ tab'[t].pid = tab[t].pid
                      /\ tab'[t].shown = tab[t].shown \/ (Awaits(t, c) /\ tab'[t].shown = "error")
  BY <1>2, <1>3
<1>6. \A t \in Tabs : Awaits(t, c) => tab[t].at \in {"checkout", "return", "receipt"}
  BY DEF Awaits, MoneyInv
<1>7. \A t \in Tabs : tab'[t].pid \subseteq Orders
  BY <1>1, <1>5 DEF TabPage
<1>8. /\ \A t \in Tabs : check'[t].awaited => tab'[t].at = "pay"
      /\ \A t \in Tabs : tab'[t].at \notin {"checkout", "return", "receipt"} =>
            tab'[t].pid = {} /\ tab'[t].shown = "none"
  BY <1>1, <1>5, <1>6 DEF MoneyInv
<1>9. \A t \in Tabs : tab'[t].shown = "SUCCESS" => tab[t].shown = "SUCCESS" /\ tab'[t].pid = tab[t].pid
  BY <1>5
<1> QED
  BY <1>1, <1>4, <1>7, <1>8, <1>9, MoneyKept

\* A call that comes to a success was told of one, or read one
LEMMA FinishMoney ==
    ASSUME OrdersInv, MoneyInv, TabsTyped, NEW c \in calls, Finish(c)
    PROVE  MoneyInv'
<1>1. /\ RowsInv /\ tab \in [Tabs -> TabPage] /\ calls \subseteq CallRow /\ c \in CallRow /\ c.pid \in Orders
      /\ calls' = calls \ {c} /\ order \in [Orders -> OrderRow] /\ check \in [Tabs -> CheckRequest]
  BY DEF Finish, OrdersInv, RowsInv, TabsTyped, CallRow
<1>2. PICK st \in IF Writes(c) THEN Outcomes(c) ELSE {c.read} :
         /\ order' = Written(c, st)
         /\ check' = IF Reopens(c, st) THEN Met(c.pid) ELSE check
         /\ owed' = (owed /\ ~(Writes(c) /\ st = "SUCCESS"))
         /\ tab' = [t \in Tabs |->
                IF ~Awaits(t, c) THEN tab[t]
                ELSE [tab[t] EXCEPT !.shown = IF @ = "none" /\ tab[t].at = "receipt" /\ st # "SUCCESS"
                                              THEN "error" ELSE st]]
  BY DEF Finish
<1>3. /\ owed' => owed
      /\ st = "SUCCESS" => order[c.pid].gw = "paid" /\ ~owed'
  <2>1. st = "SUCCESS" => c.says = "paid" \/ c.read = "SUCCESS" \/ order[c.pid].gw = "paid"
    BY <1>1, <1>2, ComesTo
  <2>2. st = "SUCCESS" => order[c.pid].gw = "paid"
    BY <2>1 DEF MoneyInv
  <2>3. ~Writes(c) => c.read = st
    BY <1>2
  <2>4. st = "SUCCESS" /\ ~Writes(c) => ~owed
    BY <2>3 DEF MoneyInv
  <2> QED
    BY <1>2, <2>2, <2>4
<1>4. \A p \in Orders : /\ order'[p].gw = order[p].gw
                        /\ order'[p].st = order[p].st \/ (p = c.pid /\ order'[p].st = st)
  <2> DEFINE s == IF Writes(c) THEN st ELSE order[c.pid].st
             n == [order[c.pid] EXCEPT !.st = s, !.heard = @ \/ c.kind = "report"]
             known(p) == [order[p] EXCEPT !.with = @ \cup {c.pid}]
  <2>1. n.st = s /\ n.gw = order[c.pid].gw
    BY <1>1 DEF OrderRow
  <2>2. \A p \in Orders : known(p).st = order[p].st /\ known(p).gw = order[p].gw
    BY <1>1 DEF OrderRow
  <2>3. order' = [p \in Orders |-> IF p = c.pid THEN n
                                   ELSE IF Reopens(c, st) /\ c.pid < p /\ order[p] # NoOrder
                                   THEN known(p) ELSE order[p]]
    BY <1>2, Zenon DEF Written
  <2> HIDE DEF n, known
  <2> QED
    BY <2>1, <2>2, <2>3
<1>5. \A t \in Tabs : check'[t].awaited = check[t].awaited
  <2> DEFINE told(t) == [check[t] EXCEPT !.met = @ \cup {c.pid}]
  <2>1. \A t \in Tabs : told(t).awaited = check[t].awaited
    BY <1>1 DEF CheckRequest
  <2>2. check' = IF Reopens(c, st)
                 THEN [t \in Tabs |-> IF check[t].pc = "create" THEN told(t) ELSE check[t]] ELSE check
    BY <1>2 DEF Met
  <2> HIDE DEF told
  <2> QED
    BY <2>1, <2>2
<1>6. \A t \in Tabs : /\ tab'[t].at = tab[t].at /\ tab'[t].pid = tab[t].pid
                      /\ tab'[t].shown = tab[t].shown
                         \/ (Awaits(t, c) /\ tab'[t].shown \in {"error", st})
  <2> DEFINE a(t) == IF tab[t].shown = "none" /\ tab[t].at = "receipt" /\ st # "SUCCESS"
                     THEN "error" ELSE st
             n(t) == [tab[t] EXCEPT !.shown = IF @ = "none" /\ tab[t].at = "receipt" /\ st # "SUCCESS"
                                              THEN "error" ELSE st]
  <2>1. \A t \in Tabs : a(t) \in {"error", st} /\ n(t) = [tab[t] EXCEPT !.shown = a(t)]
    OBVIOUS
  <2> HIDE DEF a
  <2>2. \A t \in Tabs : n(t).at = tab[t].at /\ n(t).pid = tab[t].pid /\ n(t).shown \in {"error", st}
    BY <1>1, <2>1 DEF TabPage
  <2>3. tab' = [t \in Tabs |-> IF ~Awaits(t, c) THEN tab[t] ELSE n(t)]
    BY <1>2
  <2> HIDE DEF n
  <2> QED
    BY <2>2, <2>3
<1>7. \A t \in Tabs : Awaits(t, c) => tab[t].at \in {"checkout", "return", "receipt"} /\ tab[t].pid = {c.pid}
  BY DEF Awaits, MoneyInv
<1>8. \A t \in Tabs : tab'[t].pid \subseteq Orders
  BY <1>1, <1>6 DEF TabPage
<1>9. /\ \A t \in Tabs : check'[t].awaited => tab'[t].at = "pay"
      /\ \A t \in Tabs : tab'[t].at \notin {"checkout", "return", "receipt"} =>
            tab'[t].pid = {} /\ tab'[t].shown = "none"
  BY <1>5, <1>6, <1>7 DEF MoneyInv
<1>10. \A t \in Tabs : tab'[t].shown = "SUCCESS" =>
          \/ tab[t].shown = "SUCCESS" /\ tab'[t].pid = tab[t].pid
          \/ ~owed' /\ \A p \in tab'[t].pid : order'[p].gw = "paid"
  BY <1>1, <1>3, <1>4, <1>6, <1>7
<1>11. \A p \in Orders : order'[p].st = "SUCCESS" =>
          order[p].st = "SUCCESS" \/ (order'[p].gw = "paid" /\ ~owed')
  BY <1>3, <1>4
<1> QED
  BY <1>1, <1>3, <1>4, <1>8, <1>9, <1>10, <1>11, MoneyKept

LEMMA MoneyStep == OrdersInv /\ TabsTyped /\ MoneyInv /\ [SiteNext]_siteVars => MoneyInv'
<1> SUFFICES ASSUME OrdersInv, TabsTyped, MoneyInv, [SiteNext]_siteVars
             PROVE  MoneyInv'
  OBVIOUS
<1>1. ASSUME UNCHANGED <<tab, check, siteDb>>
      PROVE  MoneyInv'
  BY <1>1, RowsMoney DEF siteDb
<1>2. CASE Searching
  BY <1>1, <1>2 DEF Searching, EditForm, HandleSearch, GoToPage, RunSearch, SearchAnswered, SearchFailed,
                    HandleReset
<1>3. CASE Browsing
  BY <1>3, BrowseMoney DEF Browsing
<1>4. CASE Ordering
  BY <1>4, BrowseMoney, SubmitMoney, OrderMoney DEF Ordering
<1>5. CASE Asking
  BY <1>5, GatewayMoney, CallMoney, FinishMoney DEF Asking
<1>6. CASE Confirming
  BY <1>6, BrowseMoney, CallMoney, FailureMoney DEF Confirming
<1>7. CASE UNCHANGED siteVars
  BY <1>1, <1>7 DEF siteVars, siteDb
<1> QED
  BY <1>2, <1>3, <1>4, <1>5, <1>6, <1>7 DEF SiteNext

LEMMA SiteInitMoney == SiteInit => MoneyInv
BY DEF SiteInit, NoTab, NoCheck, NoOrder, MoneyInv, SuccessShownIsPaid

-----------------------------------------------------------------------------
(* What is given back is bounded by what was asked for, and the requests   *)
(* by their bound.                                                         *)
GivenWithinAsked ==
    /\ ndps.given <= ndps.asked /\ refund.tries <= MaxRefunds
    /\ ~ndps.known => ndps.asked = 0 /\ ndps.given = 0

LEMMA GivenStep ==
    ASSUME GatewayInv, GivenWithinAsked, [GatewayNext]_gatewayVars
    PROVE  GivenWithinAsked'
<1>1. /\ ndps \in Order /\ ndps.given \in Nat /\ ndps.asked \in Nat /\ charge.amount \in Nat
      /\ refund.tries \in Nat /\ MaxRefunds \in Nat
  BY GatewayConstants DEF GatewayInv, GatewayShape, Order, ChargeRow, RefundBook
<1>2. ASSUME ndps' = ndps, refund' = refund
      PROVE  GivenWithinAsked'
  BY <1>2 DEF GivenWithinAsked
<1>3. ASSUME NEW n, ndps' = n, n.given = ndps.given, n.asked = ndps.asked, n.known = ndps.known, refund' = refund
      PROVE  GivenWithinAsked'
  BY <1>3 DEF GivenWithinAsked
<1>4. CASE (\E amount : NewCharge(amount)) \/ (\E contact : InvalidAuth(contact)) \/ Midnight \/ CallbackRejected
           \/ (\E m : Callback(m)) \/ (\E m, settledToo : Requery(m, settledToo)) \/ UNCHANGED gatewayVars
  BY <1>2, <1>4 DEF NewCharge, InvalidAuth, Midnight, CallbackRejected, Callback, Requery, gatewayVars
<1>5. CASE CustomerDeclined \/ CustomerPaid
  <2> DEFINE paidNow(said) == [ndps EXCEPT !.paid = TRUE, !.said = said]
             saidNow(said) == [ndps EXCEPT !.said = said]
  <2>1. \A said : /\ paidNow(said).given = ndps.given /\ paidNow(said).asked = ndps.asked
                  /\ paidNow(said).known = ndps.known
    BY <1>1 DEF Order
  <2>2. \A said : /\ saidNow(said).given = ndps.given /\ saidNow(said).asked = ndps.asked
                  /\ saidNow(said).known = ndps.known
    BY <1>1 DEF Order
  <2>3. refund' = refund /\ \E said : ndps' = saidNow(said) \/ ndps' = paidNow(said)
    BY <1>5 DEF CustomerDeclined, CustomerPaid
  <2> HIDE DEF paidNow, saidNow
  <2> QED
    BY <1>3, <2>1, <2>2, <2>3
<1>6. ASSUME NEW answer, AuthAnswered(answer)
      PROVE  GivenWithinAsked'
  <2>1. ~ndps.known /\ refund' = refund /\ ndps.given = 0
    BY <1>6 DEF AuthAnswered, GivenWithinAsked
  <2> DEFINE n(day, token) == [ndps EXCEPT !.known = TRUE, !.asked = charge.amount, !.day = day, !.token = token]
  <2>2. ndps' = ndps \/ \E day, token : ndps' = n(day, token)
    BY <1>6 DEF AuthAnswered, AuthPayload
  <2>3. \A day, token : /\ n(day, token).given = ndps.given /\ n(day, token).asked = charge.amount
                        /\ n(day, token).known = TRUE
    BY <1>1 DEF Order
  <2> HIDE DEF n
  <2>4. CASE ndps' = ndps
    BY <1>2, <2>1, <2>4
  <2>5. ASSUME NEW day, NEW token, ndps' = n(day, token)
        PROVE  GivenWithinAsked'
    BY <1>1, <2>1, <2>3, <2>5 DEF GivenWithinAsked
  <2> QED
    BY <2>2, <2>4, <2>5
<1>7. ASSUME NEW amount, NEW gives, NEW heard, RefundRequest(amount, gives, heard)
      PROVE  GivenWithinAsked'
  <2>1. refund'.tries = refund.tries + 1 /\ refund.tries < MaxRefunds
    BY <1>7 DEF RefundRequest
  <2> DEFINE asked == RefundPayload(amount)
             n == [ndps EXCEPT !.given = @ + asked]
  <2>2. ndps' = ndps \/ (ndps' = n /\ ndps.given + asked <= ndps.asked)
    BY <1>7 DEF RefundRequest
  <2>3. n.given = ndps.given + asked /\ n.asked = ndps.asked /\ n.known = ndps.known
    BY <1>1 DEF Order
  <2>4. ndps.known
    BY <1>7 DEF RefundRequest, GatewayInv, OrderIsOurs, SettledIsPaid, Refundable
  <2> HIDE DEF asked, n
  <2>5. ndps'.given <= ndps'.asked /\ ndps'.known
    BY <1>1, <2>2, <2>3, <2>4 DEF GivenWithinAsked
  <2>6. refund'.tries <= MaxRefunds
    BY <1>1, <2>1
  <2> QED
    BY <2>5, <2>6 DEF GivenWithinAsked
<1> QED
  BY <1>4, <1>5, <1>6, <1>7 DEF GatewayNext

(* GatewayTypeOK: the refundable balance is at most the amount, and of an  *)
(* order no more is given back than was asked for it.                      *)
THEOREM GatewayTyped == GatewaySpec => []GatewayTypeOK
<1>1. GatewayInit => GivenWithinAsked
  BY GatewayConstants DEF GatewayInit, NoOrderYet, GivenWithinAsked
<1>2. GatewayInv /\ GivenWithinAsked => GatewayTypeOK
  <2> SUFFICES ASSUME GatewayInv, GivenWithinAsked
               PROVE  GatewayTypeOK
    OBVIOUS
  <2>1. /\ charge.st \in {"NONE", "INITIATED", "PENDING", "FAILED"} \cup Refundable
        /\ charge.refundable \in Nat /\ charge.amount \in Nat
        /\ ndps.given \in Nat /\ ndps.asked \in Nat
        /\ refund.tries \in Nat /\ refund.rows \in Nat /\ refund.sum \in Nat /\ refund.unheard \in Nat
    BY DEF GatewayInv, GatewayShape, ChargeRow, Order, RefundBook
  <2>2. charge.refundable <= charge.amount
    BY <2>1 DEF GatewayInv, RefundsAdded
  <2> QED
    BY <2>1, <2>2, GatewayConstants DEF GatewayTypeOK, GivenWithinAsked
<1> QED
  BY <1>1, <1>2, GivenStep, GatewayInvariance, PTL DEF GatewaySpec

-----------------------------------------------------------------------------
(* The types of the citizen site.                                          *)

(* Searches are numbered as they are made, and their pages are two. *)
SearchesTo(n) == [id : 1..n, term : Terms, pg : 1..2]
SearchesCounted ==
    /\ srch.n <= MaxSearches
    /\ srch.active \subseteq SearchesTo(srch.n) /\ srch.flight \subseteq SearchesTo(srch.n)
    /\ srch.result \subseteq SearchesTo(srch.n)

SiteInv == OrdersInv /\ TabsTyped /\ MoneyInv /\ SearchInv /\ SearchesCounted

LEMMA MoreSearches == \A m, n \in Nat : m <= n => SearchesTo(m) \subseteq SearchesTo(n)
BY DEF SearchesTo

LEMMA RunCounts ==
    ASSUME SearchInv, SearchesCounted, NEW x \in Terms, NEW pg \in 1..2, RunSearch(x, pg)
    PROVE  SearchesCounted'
<1> DEFINE n == srch.n + 1
           s == [id |-> n, term |-> x, pg |-> pg]
           flight == srch.flight \cup {s}
           one == {s}
<1>1. srch \in SearchPage /\ srch.n \in Nat /\ n \in Nat /\ srch.n <= n /\ n \in 1..n
  BY SearchFields DEF SearchInv
<1>2. srch' = [srch EXCEPT !.active = one, !.wait = one, !.flight = flight, !.n = n]
  BY Zenon DEF RunSearch
<1>3. n <= MaxSearches
  BY <1>1, SiteConstants DEF RunSearch
<1> HIDE DEF n
<1>4. s \in SearchesTo(n)
  BY <1>1 DEF SearchesTo
<1> HIDE DEF s
<1>5. SearchesTo(srch.n) \subseteq SearchesTo(n)
  BY <1>1, MoreSearches
<1>6. one \subseteq SearchesTo(n) /\ flight \subseteq SearchesTo(n) /\ srch.result \subseteq SearchesTo(n)
  BY <1>4, <1>5 DEF SearchesCounted
<1> HIDE DEF flight, one
<1>7. srch'.active = one /\ srch'.flight = flight /\ srch'.n = n /\ srch'.result = srch.result
  BY <1>1, <1>2 DEF SearchPage
<1> QED
  BY <1>3, <1>6, <1>7 DEF SearchesCounted

LEMMA SearchesStep == SearchInv /\ SearchesCounted /\ [SiteNext]_siteVars => SearchesCounted'
<1> SUFFICES ASSUME SearchInv, SearchesCounted, [SiteNext]_siteVars
             PROVE  SearchesCounted'
  OBVIOUS
<1>1. srch \in SearchPage
  BY DEF SearchInv
<1>2. CASE srch' = srch
  BY <1>2 DEF SearchesCounted
<1>3. ASSUME NEW x \in Terms, EditForm(x)
      PROVE  SearchesCounted'
  <2>1. srch' = [srch EXCEPT !.term = {x}]
    BY <1>3 DEF EditForm
  <2>2. /\ srch'.active = srch.active /\ srch'.flight = srch.flight /\ srch'.n = srch.n
        /\ srch'.result = srch.result
    BY <1>1, <2>1 DEF SearchPage
  <2> QED
    BY <2>2 DEF SearchesCounted
<1>4. ASSUME HandleSearch
      PROVE  SearchesCounted'
  <2>1. PICK x \in srch.term : RunSearch(x, 1)
    BY <1>4 DEF HandleSearch
  <2>2. x \in Terms /\ 1 \in 1..2
    BY <1>1, <2>1, SearchFields
  <2> QED
    BY <2>1, <2>2, RunCounts
<1>5. ASSUME GoToPage
      PROVE  SearchesCounted'
  <2>1. PICK a \in srch.active : RunSearch(a.term, 3 - a.pg)
    BY <1>5 DEF GoToPage
  <2>2. a.term \in Terms /\ a.pg \in 1..2
    BY <2>1 DEF SearchesCounted, SearchesTo
  <2>3. 3 - a.pg \in 1..2
    BY <2>2
  <2> QED
    BY <2>1, <2>2, <2>3, RunCounts
<1>6. ASSUME HandleReset
      PROVE  SearchesCounted'
  <2> DEFINE cut == srch.cut \cup srch.flight
             n == srch.n
             flight == srch.flight
  <2>1. srch' = [NoSearch EXCEPT !.n = n, !.flight = flight, !.cut = cut]
    BY <1>6, Zenon DEF HandleReset
  <2>2. n <= MaxSearches /\ flight \subseteq SearchesTo(n)
    BY DEF SearchesCounted
  <2> HIDE DEF n, flight, cut
  <2>3. srch' = [term |-> {}, active |-> {}, result |-> {}, wait |-> {}, flight |-> flight,
                 n |-> n, cut |-> cut]
    BY <2>1 DEF NoSearch
  <2>4. srch'.active = {} /\ srch'.result = {} /\ srch'.flight = flight /\ srch'.n = n
    BY <2>3
  <2> QED
    BY <2>2, <2>4 DEF SearchesCounted
<1>7. ASSUME NEW s \in srch.flight, SearchAnswered(s) \/ SearchFailed(s)
      PROVE  SearchesCounted'
  <2> DEFINE flight == srch.flight \ {s}
             wait == srch.wait \ {s}
  <2>1. PICK result \in SUBSET {s} : srch' = [srch EXCEPT !.result = result, !.flight = flight, !.wait = wait]
    <3>1. CASE SearchAnswered(s)
      BY <3>1, Zenon DEF SearchAnswered
    <3>2. CASE SearchFailed(s)
      BY <3>2, Zenon DEF SearchFailed
    <3> QED
      BY <1>7, <3>1, <3>2
  <2>2. flight \subseteq srch.flight /\ result \subseteq srch.flight
    OBVIOUS
  <2> HIDE DEF flight, wait
  <2>3. srch'.result = result /\ srch'.flight = flight /\ srch'.n = srch.n /\ srch'.active = srch.active
    BY <1>1, <2>1 DEF SearchPage
  <2> QED
    BY <2>2, <2>3 DEF SearchesCounted
<1>8. CASE Browsing \/ Ordering \/ Asking \/ Confirming
  <2>1. srch' = srch
    BY <1>8 DEF Browsing, Ordering, Asking, Confirming, OpenDues, Refetch, Leave, PayOnline,
                HandleSubmit, CheckDues, CheckOpen, CreateOrder, OrderIssued, OrderRefused,
                CheckoutOpens, SubmitFailed, Unheard, WindowPasses, OrderPaid, OfficeRequery, Finish,
                BrowserReturns, Poll, ViewReceipt, Report, CallFails
  <2> QED
    BY <1>2, <2>1
<1>9. CASE UNCHANGED siteVars
  BY <1>2, <1>9 DEF siteVars
<1> QED
  BY <1>3, <1>4, <1>5, <1>6, <1>7, <1>8, <1>9 DEF SiteNext, Searching

LEMMA SiteStep == SiteInv /\ [SiteNext]_siteVars => SiteInv'
<1> SUFFICES ASSUME SiteInv, [SiteNext]_siteVars
             PROVE  SiteInv'
  OBVIOUS
<1>1. OrdersInv'
  BY OrdersStep DEF SiteInv, TabsTyped
<1> QED
  BY <1>1, SearchStep, SearchesStep, TabsStep, MoneyStep DEF SiteInv

LEMMA SiteTypes == SiteInv => SiteTypeOK
<1> SUFFICES ASSUME SiteInv
             PROVE  SiteTypeOK
  OBVIOUS
<1>1. srch.n \in Nat /\ srch.n <= MaxSearches /\ srch.result \subseteq SearchesTo(srch.n)
  BY SearchFields DEF SiteInv, SearchInv, SearchesCounted
<1>2. srch.result \subseteq [id : 1..MaxSearches, term : Terms, pg : 1..2]
  BY <1>1, SiteConstants, MoreSearches DEF SearchesTo
<1>3. calls \subseteq [kind : {"sync", "report", "requery"}, tab : SUBSET Tabs,
                       pid : Orders, says : {"paid", "declined", "unknown"},
                       read : OpenStates \cup {"SUCCESS", "FAILED"}]
  BY DEF SiteInv, OrdersInv, RowsInv, CallRow, Comings
<1>4. order \in [Orders -> [st : OpenStates \cup {"none", "SUCCESS", "FAILED"},
                            recent : BOOLEAN, gw : {"none", "open", "paid"}, heard : BOOLEAN,
                            with : SUBSET Orders]]
  <2>1. OrderRow = [st : OpenStates \cup {"none", "SUCCESS", "FAILED"},
                    recent : BOOLEAN, gw : {"none", "open", "paid"}, heard : BOOLEAN,
                    with : SUBSET Orders]
    <3>1. Comings \cup {"none"} = OpenStates \cup {"none", "SUCCESS", "FAILED"}
      BY DEF Comings
    <3> QED
      BY <3>1 DEF OrderRow
  <2> QED
    BY <2>1 DEF SiteInv, OrdersInv, RowsInv
<1> QED
  BY <1>2, <1>3, <1>4 DEF SiteInv, OrdersInv, RowsInv, TabsTyped, TabPage, CheckRequest, SiteTypeOK

LEMMA NewTabs == NoTab \in TabPage /\ [NoTab EXCEPT !.at = "closed"] \in TabPage
BY DEF NoTab, TabPage

LEMMA SearchStart == srch = NoSearch => SearchInv /\ SearchesCounted
<1> SUFFICES ASSUME srch = NoSearch
             PROVE  SearchInv /\ SearchesCounted
  OBVIOUS
<1>1. SearchInv
  BY DEF NoSearch, SearchInv, SearchPage
<1>2. /\ srch.n = 0 /\ srch.active = {} /\ srch.flight = {} /\ srch.result = {} /\ 0 <= MaxSearches
  BY SiteConstants DEF NoSearch
<1> QED
  BY <1>1, <1>2 DEF SearchesCounted

LEMMA SiteStart == SiteInit => SiteInv
<1> SUFFICES ASSUME SiteInit
             PROVE  SiteInv
  OBVIOUS
<1>1. tab \in [Tabs -> TabPage] /\ owed \in BOOLEAN /\ failures \in 0..MaxFailures
  BY NewTabs, SiteConstants DEF SiteInit
<1> QED
  BY <1>1, SearchStart, SiteInitOrders, SiteInitMoney DEF SiteInit, SiteInv, TabsTyped

(* SiteTypeOK: tabs, requests, orders, calls and searches hold what they   *)
(* may hold (the citizen site's pages, createPayment, handleCallback and   *)
(* finalizeRequerySuccess).                                                *)
THEOREM SiteTyped == SiteSpec => []SiteTypeOK
BY SiteStart, SiteStep, SiteTypes, PTL DEF SiteSpec

LEMMA OrdersKnow == OrdersInv => NoOpenOrderPassedBy
BY DEF OrdersInv, RowsInv, NoOpenOrderPassedBy, RecentOpen, Placed, OpenStates

(* Of two orders of a property open within the window the older was open   *)
(* again, or for the first time, only after the check of the younger:      *)
(* hasRecentOpenCitizenPayment is passed by an overlapping createPayment,  *)
(* and by a status read before a failure and written back over it, and by  *)
(* nothing else.                                                           *)
THEOREM NoneIsPassedBy == SiteSpec => []NoOpenOrderPassedBy
<1>1. SiteInv => NoOpenOrderPassedBy
  BY OrdersKnow DEF SiteInv
<1> QED
  BY <1>1, SiteStart, SiteStep, PTL DEF SiteSpec

(* A page shows SUCCESS only of a payment the gateway has the money for,   *)
(* with nothing owed any more, whatever reports and requeries are under    *)
(* way and whatever they write back (getPaymentByMerchTxnId, getReceipt,   *)
(* handleCallback, finalizeRequerySuccess).                                *)
THEOREM ShownSuccessIsPaid == SiteSpec => []SuccessShownIsPaid
<1>1. SiteInv => SuccessShownIsPaid
  BY DEF SiteInv, MoneyInv
<1> QED
  BY <1>1, SiteStart, SiteStep, PTL DEF SiteSpec
=============================================================================
