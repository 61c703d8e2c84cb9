------------------------------ MODULE Gateway -------------------------------
(***************************************************************************)
(* One online payment on the wire: the requests the Atom NDPS provider     *)
(* (atom-ndps.provider.ts, atom-hmac.ts) builds for the gateway, and what  *)
(* it and PaymentsService read in the gateway's answers and callbacks.     *)
(* Payments takes the outcome of this reading as given.                    *)
(*                                                                         *)
(* Amounts are in paise.  A message is intact, cannot be read, or never    *)
(* arrives; a callback that is not encrypted, cannot be decrypted or has a *)
(* wrong signature is one that cannot be read.  The gateway is truthful    *)
(* but its messages have several forms, and it may send any of them again. *)
(***************************************************************************)
EXTENDS Integers

CONSTANTS
    Charges,       \* what a payment may be for
    Givebacks,     \* what an accountant may ask to refund
    MaxDays,       \* bound: midnights, in Asia/Kolkata
    MaxRefunds     \* bound: refund requests

ASSUME GatewayConstants == /\ Charges \subseteq Nat /\ Givebacks \subseteq Nat
                           /\ MaxDays \in Nat /\ MaxRefunds \in Nat

VARIABLES
    charge,   \* the payment row
    ndps,     \* the gateway's order
    today,
    refund    \* requests; the SUCCESS rows and their sum; and what the gateway
              \* gave back without our reading its answer

gatewayVars == <<charge, ndps, today, refund>>

NoCharge == [st |-> "NONE", amount |-> 0, day |-> 0, refundable |-> 0, txn |-> FALSE,
             receipt |-> FALSE, seen |-> FALSE]
NoOrderYet == [known |-> FALSE, asked |-> 0, day |-> 0, token |-> FALSE, paid |-> FALSE,
               said |-> {"waiting"}, given |-> 0]

Refundable == {"SUCCESS", "REFUNDED", "PARTIALLY_REFUNDED"}
-----------------------------------------------------------------------------
(* The order (createOnlinePayment and createPayment).                      *)

\* assertAuthCustomerAndMerchant: an e-mail address, ten digits, a positive amount
ValidAuth(amount, contact) == amount > 0 /\ contact = "complete"

\* The AUTH body carries the amount to the paisa, and the time of sending it
AuthPayload(amount) == [amount |-> amount, day |-> today]

NewCharge(amount) ==
    /\ charge.st = "NONE"
    /\ charge' = [NoCharge EXCEPT !.st = "INITIATED", !.amount = amount, !.day = today,
                                  !.refundable = amount]
    /\ UNCHANGED <<ndps, today, refund>>

InvalidAuth(contact) ==
    /\ charge.st = "INITIATED" /\ ~ndps.known /\ ~ValidAuth(charge.amount, contact)
    /\ charge' = [charge EXCEPT !.st = "FAILED"]
    /\ UNCHANGED <<ndps, today, refund>>

\* extractAtomTokenId in what decodeAipayAuthResponse makes of the answer: no token
\* without an answer, in one that cannot be read, or in a refusal
TokenIn(answer) == answer = "token"

\* The gateway registers the order, also when its answer is lost
AuthAnswered(answer) ==
    LET body == AuthPayload(charge.amount)
    IN  /\ charge.st = "INITIATED" /\ ~ndps.known /\ ValidAuth(charge.amount, "complete")
        /\ ndps' = IF answer = "refused" THEN ndps
                   ELSE [ndps EXCEPT !.known = TRUE, !.asked = body.amount, !.day = body.day,
                                     !.token = TokenIn(answer)]
        /\ charge' = [charge EXCEPT !.st = IF TokenIn(answer) THEN "PENDING" ELSE "FAILED"]
        /\ UNCHANGED <<today, refund>>

\* Only who has the token can pay, after any number of declined attempts
CustomerDeclined ==
    /\ ndps.token /\ ~ndps.paid
    /\ ndps' = [ndps EXCEPT !.said = @ \cup {"declined"}]
    /\ UNCHANGED <<charge, today, refund>>

CustomerPaid ==
    /\ ndps.token /\ ~ndps.paid
    /\ ndps' = [ndps EXCEPT !.paid = TRUE, !.said = @ \cup {"paid"}]
    /\ UNCHANGED <<charge, today, refund>>

Midnight ==
    /\ today < MaxDays
    /\ today' = today + 1
    /\ UNCHANGED <<charge, ndps, refund>>
-----------------------------------------------------------------------------
(* Reading a message (extractAtomTxnFields).                               *)

None == "none"

\* The status stands in responseDetails or flat at the root, with or without the
\* message beside it, or in the message only; an order nobody tried has neither
Message(outcome, form) ==
    LET code == CASE outcome = "paid" -> "OTS0000" [] outcome = "declined" -> "OTS0600"
                  [] OTHER -> None
        text == CASE outcome = "paid" -> "SUCCESS" [] outcome = "declined" -> "FAILED"
                  [] OTHER -> None
    IN  [root   |-> IF form = "flat" THEN code ELSE None,
         code   |-> IF form \in {"full", "noAmount"} THEN code ELSE None,
         text   |-> IF form = "flat" THEN None ELSE text,
         amount |-> IF form = "noAmount" THEN {} ELSE {ndps.asked},
         txn    |-> outcome # "waiting"]

Forms == {"full", "flat", "textOnly", "noAmount"}

StatusOf(m) ==
    IF m.root # None THEN m.root ELSE IF m.code # None THEN m.code
    ELSE IF m.text # None THEN m.text ELSE "UNKNOWN"

SuccessCode(code) == code \in {"OTS0000", "SUCCESS"}
-----------------------------------------------------------------------------
(* Callbacks and status requests.                                          *)

\* The first success gives the receipt; handleCallback does not look at REFUNDED
StatusAfter(code) ==
    CASE SuccessCode(code)     -> "SUCCESS"
      [] charge.st = "SUCCESS" -> "SUCCESS"
      [] code = "UNKNOWN"      -> charge.st
      [] OTHER                 -> "FAILED"

\* A callback that can be read and names our amount, the first or a success of an
\* unsettled payment
Callback(m) ==
    LET code == StatusOf(m)
    IN  /\ charge.st # "NONE" /\ m.amount = {charge.amount}
        /\ charge.seen => SuccessCode(code) /\ charge.st \notin Refundable
        /\ charge' = [charge EXCEPT !.st = StatusAfter(code), !.seen = TRUE,
                                    !.txn = @ \/ m.txn,
                                    !.receipt = @ \/ SuccessCode(code)]
        /\ UNCHANGED <<ndps, today, refund>>

\* One that cannot be read, without our amount, or a duplicate: rejected and logged
CallbackRejected == UNCHANGED gatewayVars

\* buildAtomStatusPayload: whole rupees, and the day of the payment row
WholeRupees(amount) == 100 * (amount \div 100)
StatusPayload == [amount |-> WholeRupees(charge.amount), day |-> charge.day]

\* The order is found by its id on the day it was sent
StatusAnswer(outcome, form) ==
    IF ndps.known /\ ndps.day = StatusPayload.day THEN Message(outcome, form)
    ELSE [root |-> None, code |-> "OTS0401", text |-> "NO DATA", amount |-> {}, txn |-> FALSE]

\* A staff requery; and the return page's for a payment that is not settled
Requery(m, settledToo) ==
    /\ charge.st # "NONE"
    /\ settledToo \/ charge.st \notin {"SUCCESS", "FAILED", "REFUNDED"}
    /\ charge' = IF SuccessCode(StatusOf(m)) \/ m.text = "SUCCESS"
                 THEN [charge EXCEPT !.st = "SUCCESS", !.txn = @ \/ m.txn, !.receipt = TRUE]
                 ELSE [charge EXCEPT !.txn = @ \/ m.txn]
    /\ UNCHANGED <<ndps, today, refund>>
-----------------------------------------------------------------------------
(* Refunds.                                                                *)

\* Mutant: the rupees are rounded up.
MutRefundPayload(amount) == 100 * ((amount + 99) \div 100)

\* buildAtomRefundPayload: whole rupees again
RefundPayload(amount) == WholeRupees(amount)

\* The gateway gives back what is asked of it, or refuses.  "heard" is an answer with
\* a success code; another may be unreadable, which makes a FAILED row, or never come
RefundRequest(amount, gives, heard) ==
    LET asked == RefundPayload(amount)
    IN  /\ charge.st = "SUCCESS" /\ charge.txn /\ amount <= charge.refundable
        /\ refund.tries < MaxRefunds
        /\ heard => gives
        /\ gives => ndps.given + asked <= ndps.asked
        /\ ndps' = IF gives THEN [ndps EXCEPT !.given = @ + asked] ELSE ndps
        /\ refund' = [tries |-> refund.tries + 1,
                      rows |-> refund.rows + (IF heard THEN 1 ELSE 0),
                      sum |-> refund.sum + (IF heard THEN amount ELSE 0),
                      unheard |-> refund.unheard + (IF gives /\ ~heard THEN asked ELSE 0)]
        /\ charge' = IF heard
                     THEN [charge EXCEPT !.refundable = @ - amount,
                              !.st = IF charge.refundable = amount THEN "REFUNDED"
                                     ELSE "PARTIALLY_REFUNDED"]
                     ELSE charge
        /\ UNCHANGED today
-----------------------------------------------------------------------------
GatewayInit ==
    /\ charge = NoCharge /\ ndps = NoOrderYet /\ today = 1
    /\ refund = [tries |-> 0, rows |-> 0, sum |-> 0, unheard |-> 0]

GatewayNext ==
    \/ \E amount \in Charges : NewCharge(amount)
    \/ \E contact \in {"complete", "noEmail"} : InvalidAuth(contact)
    \/ \E answer \in {"token", "refused", "unreadable", "lost"} : AuthAnswered(answer)
    \/ CustomerDeclined \/ CustomerPaid \/ Midnight
    \/ \E outcome \in ndps.said, form \in Forms :
          \/ ndps.known /\ Callback(Message(outcome, form))
          \/ \E settledToo \in BOOLEAN : Requery(StatusAnswer(outcome, form), settledToo)
    \/ CallbackRejected
    \/ \E amount \in Givebacks, gives, heard \in BOOLEAN : RefundRequest(amount, gives, heard)

GatewaySpec == GatewayInit /\ [][GatewayNext]_gatewayVars
-----------------------------------------------------------------------------
\* The row, the order and the sums hold what they may hold.
GatewayTypeOK ==
    /\ charge.st \in {"NONE", "INITIATED", "PENDING", "FAILED"} \cup Refundable
    /\ charge.refundable \in 0..charge.amount /\ ndps.given \in 0..ndps.asked
    /\ refund.tries \in 0..MaxRefunds /\ {refund.rows, refund.sum, refund.unheard} \subseteq Nat

\* Through every form, loss and repetition of the messages (extractAtomTxnFields and
\* its callers, buildAtomRefundPayload, refund): a payment is settled, or has a
\* receipt, only when the gateway was paid on an order that asked for its amount; the
\* refundable balance is short by exactly the refund rows; and for the refunds with a
\* row the gateway was asked for their sum less at most 99 paise a row, never for more.
\* Refunds whose answer was lost (unheard) have no row and are left out.  A customer who
\* pays another amount than asked is not among the states: the requery compares none.
BooksAgree ==
    LET heard == ndps.given - refund.unheard
    IN  /\ charge.st \in Refundable \/ charge.receipt => ndps.paid /\ ndps.asked = charge.amount
        /\ charge.amount - charge.refundable = refund.sum
        /\ refund.sum - heard \in 0 .. 99 * refund.rows
=============================================================================
