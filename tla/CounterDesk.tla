---------------------------- MODULE CounterDesk ----------------------------
(* The counter: the five-step collection page of the portal and the API    *)
(* request it sends.                                                       *)
(*                                                                         *)
(* A parcel's published demand is its outstanding amount, {} when nothing  *)
(* is published.  The page repeats a submission under the key it made for  *)
(* the first one; a submission it gave up on goes on in the API.  The      *)
(* transaction itself is in module Payments, one step here.                *)
EXTENDS Integers, FiniteSets

CONSTANTS
    Parcels,
    MaxDue,        \* the amount due at first
    DeskReqs,      \* requests in flight at once
    MaxConfirms,   \* bound on submissions
    MaxPasses,     \* bound on collections begun
    MaxLate        \* bound on submissions given up on

ASSUME DeskConstants == Parcels # {} /\ MaxDue \in Nat /\ MaxConfirms \in Nat /\ MaxPasses \in Nat /\ MaxLate \in Nat

VARIABLES
    desk,      \* the page
    seen,      \* the demands the page has loaded
    due,       \* the published demands
    coll,      \* the collections recorded
    sent,      \* the requests
    pass,      \* collections begun on the page, counted
    tally      \* submissions made and given up on, counted

deskVars == <<desk, seen, due, coll, sent, pass, tally>>
deskApi == <<due, coll, sent>>

Amounts == 0..MaxDue
Collection == [key : 0..MaxConfirms, p : Parcels, amt : Amounts, pass : 0..MaxPasses]
NoSub == [key |-> 0, p |-> CHOOSE p \in Parcels : TRUE, amt |-> 0, pass |-> 0]
NoSent == [pc |-> "idle", sub |-> NoSub, got |-> {}]
NoDesk == [step |-> 0, sel |-> {}, amt |-> 0, key |-> 0, wait |-> {}, last |-> {},
           sub |-> NoSub, forked |-> FALSE]

-----------------------------------------------------------------------------
(* The page.                                                               *)

\* The outstanding amount on display for a selection
Shown(sel) == UNION {seen[p] : p \in sel}

\* The amount field is set again whenever another outstanding amount shows
Preset(old, new) == IF new # {} /\ new # old THEN CHOOSE a \in new : TRUE ELSE desk.amt

Choose(p) ==
    /\ desk.step = 0
    /\ desk' = [desk EXCEPT !.sel = {p}, !.amt = Preset(Shown(desk.sel), seen[p])]
    /\ UNCHANGED <<deskApi, seen, pass, tally>>

\* Another ward or another search drops the selection
Unchoose ==
    /\ desk.step = 0
    /\ desk' = [desk EXCEPT !.sel = {}]
    /\ UNCHANGED <<deskApi, seen, pass, tally>>

Go(s) == desk' = [desk EXCEPT !.step = s] /\ UNCHANGED <<deskApi, seen, pass, tally>>

FindNext == desk.step = 0 /\ desk.sel # {} /\ Go(1)

\* The demand is loaded from step 1 on, and again when it is stale
LoadDemand ==
    /\ desk.step >= 1
    /\ \E p \in desk.sel :
          /\ seen' = [seen EXCEPT ![p] = due[p]]
          /\ desk' = [desk EXCEPT !.amt = Preset(seen[p], due[p])]
    /\ UNCHANGED <<deskApi, pass, tally>>

DuesNext == desk.step = 1 /\ (\E o \in Shown(desk.sel) : o > 0) /\ Go(2)

Enter(a) ==
    /\ desk.step = 2 /\ Shown(desk.sel) # {}
    /\ desk' = [desk EXCEPT !.amt = a]
    /\ UNCHANGED <<deskApi, seen, pass, tally>>

\* The amount must be positive and at most what shows as outstanding
AmountFits == \E o \in Shown(desk.sel) : desk.amt > 0 /\ desk.amt <= o

Review == desk.step = 2 /\ AmountFits /\ Go(3)

Back == desk.step \in 1..3 /\ Go(desk.step - 1)

NewKey == tally.confirms + 1

\* Mutant: every submission has a key of its own
MutKeyFor == NewKey

\* The key of the first submission is kept until one succeeds
KeyFor == IF desk.key = 0 THEN NewKey ELSE desk.key

\* The submission, for the parcel and the amount on display
Submission(p) == [key |-> KeyFor, p |-> p, amt |-> desk.amt, pass |-> pass]

\* Confirm, disabled while a submission is awaited
Confirm(q) ==
    /\ desk.step = 3 /\ desk.wait = {} /\ AmountFits
    /\ sent[q].pc = "idle" /\ tally.confirms < MaxConfirms
    /\ \E p \in desk.sel :
          /\ sent' = [sent EXCEPT ![q] = [pc |-> "lookup", sub |-> Submission(p), got |-> {}]]
          /\ desk' = [desk EXCEPT !.key = KeyFor, !.wait = {q}, !.sub = Submission(p),
                                  !.forked = @ \/ (desk.key # 0 /\ desk.sub # Submission(p))]
    /\ tally' = [tally EXCEPT !.confirms = @ + 1]
    /\ UNCHANGED <<due, coll, seen, pass>>

\* A failure keeps the key and the step; a success shows the receipt
Answer(q) ==
    /\ desk.wait = {q} /\ sent[q].pc \in {"ok", "error"}
    /\ desk' = IF sent[q].pc = "ok"
               THEN [desk EXCEPT !.step = 4, !.last = sent[q].got, !.key = 0, !.wait = {}]
               ELSE [desk EXCEPT !.wait = {}]
    /\ sent' = [sent EXCEPT ![q] = NoSent]
    /\ UNCHANGED <<due, coll, seen, pass, tally>>

\* The proxy gives up; the page shows an error and the API goes on
GiveUpWaiting(q) ==
    /\ desk.wait = {q} /\ tally.late < MaxLate
    /\ desk' = [desk EXCEPT !.wait = {}]
    /\ tally' = [tally EXCEPT !.late = @ + 1]
    /\ UNCHANGED <<deskApi, seen, pass>>

\* The receipt on display, to download or print
ReceiptShown == IF desk.step = 4 THEN desk.last ELSE {}

StartNew ==
    /\ desk.step = 4 /\ pass < MaxPasses
    /\ desk' = [NoDesk EXCEPT !.sub = desk.sub]
    /\ pass' = pass + 1
    /\ UNCHANGED <<deskApi, seen, tally>>

\* The page is loaded anew: the key is forgotten
ReloadPage ==
    /\ pass < MaxPasses
    /\ desk' = NoDesk /\ seen' = [p \in Parcels |-> {}] /\ pass' = pass + 1
    /\ UNCHANGED <<deskApi, tally>>

-----------------------------------------------------------------------------
(* The API.                                                                *)

WithKey(k) == {c \in coll : c.key = k}

\* createOffline returns the payment that has the key, whatever was asked
OfflineLookup(q) ==
    LET s == sent[q].sub IN
    /\ sent[q].pc = "lookup"
    /\ sent' = [sent EXCEPT ![q] =
                   IF WithKey(s.key) # {} THEN [@ EXCEPT !.pc = "ok", !.got = WithKey(s.key)]
                   ELSE IF \E o \in due[s.p] : s.amt <= o THEN [@ EXCEPT !.pc = "collect"]
                   ELSE [@ EXCEPT !.pc = "error"]]
    /\ UNCHANGED <<desk, seen, due, coll, pass, tally>>

\* The transaction: under the lock of the demand the amount is checked
\* again; the key is unique, and a loser returns the winner's payment
OfflineCollect(q) ==
    LET s == sent[q].sub IN
    /\ sent[q].pc = "collect"
    /\ \/ /\ ~\E o \in due[s.p] : s.amt <= o
          /\ sent' = [sent EXCEPT ![q].pc = "error"]
          /\ UNCHANGED <<due, coll>>
       \/ /\ \E o \in due[s.p] : s.amt <= o
          /\ WithKey(s.key) # {}
          /\ sent' = [sent EXCEPT ![q].pc = "ok", ![q].got = WithKey(s.key)]
          /\ UNCHANGED <<due, coll>>
       \/ /\ WithKey(s.key) = {}
          /\ \E o \in due[s.p] : s.amt <= o /\ due' = [due EXCEPT ![s.p] = {o - s.amt}]
          /\ coll' = coll \cup {s}
          /\ sent' = [sent EXCEPT ![q].pc = "ok", ![q].got = {s}]
    /\ UNCHANGED <<desk, seen, pass, tally>>

\* The answer to a submission nobody awaits
Dropped(q) ==
    /\ desk.wait # {q} /\ sent[q].pc \in {"ok", "error"}
    /\ sent' = [sent EXCEPT ![q] = NoSent]
    /\ UNCHANGED <<desk, seen, due, coll, pass, tally>>

\* Somebody else pays part of a demand
Elsewhere(p) ==
    /\ \E o \in due[p] : o > 0 /\ due' = [due EXCEPT ![p] = {o - 1}]
    /\ UNCHANGED <<desk, seen, coll, sent, pass, tally>>

-----------------------------------------------------------------------------
DeskInit ==
    /\ desk = NoDesk /\ seen = [p \in Parcels |-> {}]
    /\ due \in [Parcels -> {{}, {MaxDue}}]
    /\ coll = {} /\ sent = [q \in DeskReqs |-> NoSent]
    /\ pass = 0 /\ tally = [confirms |-> 0, late |-> 0]

DeskNext ==
    \/ \E p \in Parcels : Choose(p) \/ Elsewhere(p)
    \/ Unchoose \/ FindNext \/ LoadDemand \/ DuesNext \/ Review \/ Back \/ StartNew \/ ReloadPage
    \/ \E a \in Amounts : Enter(a)
    \/ \E q \in DeskReqs : \/ Confirm(q) \/ Answer(q) \/ GiveUpWaiting(q)
                           \/ OfflineLookup(q) \/ OfflineCollect(q) \/ Dropped(q)

DeskSpec == DeskInit /\ [][DeskNext]_deskVars

-----------------------------------------------------------------------------
\* The page and the requests hold what they may hold
DeskTypeOK ==
    /\ desk \in [step : 0..4, sel : SUBSET Parcels, amt : Amounts, key : 0..MaxConfirms,
                 wait : SUBSET DeskReqs, last : SUBSET coll, sub : Collection, forked : BOOLEAN]
    /\ seen \in [Parcels -> SUBSET Amounts] /\ due \in [Parcels -> SUBSET Amounts]
    /\ coll \subseteq Collection
    /\ sent \in [DeskReqs -> [pc : {"idle", "lookup", "collect", "ok", "error"},
                              sub : Collection, got : SUBSET coll]]

\* The receipt the cashier hands over is for the property and the amount
\* just confirmed (mutation.onSuccess shows whatever createOffline returns
\* for the key).  The exception the code has: a submission that was given
\* up on was recorded, and the next one under its key, for another property
\* or amount, gets its receipt.
ReceiptIsForThis ==
    desk.forked \/ \A c \in ReceiptShown : c.p = desk.sub.p /\ c.amt = desk.sub.amt

\* However often Confirm is pressed after errors and time-outs, one pass
\* through the wizard records one payment (idempotencyKeyRef and the unique
\* clientIdempotencyKey) and hands over its receipt
PassCollectsOnce ==
    /\ \A c, d \in coll : c.pass = d.pass => c = d
    /\ ReceiptIsForThis
=============================================================================
