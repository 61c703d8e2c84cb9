---------------------------- MODULE OfficeProofs ----------------------------
(* Proofs about the portal's pages: the counter, the year-end page, the    *)
(* forms of roles and users, the list screens, the dashboard and the       *)
(* floors of a survey; and about the parts MCOffice puts together.         *)
EXTENDS MCOffice, SiteProofs, TaxProofs, FiniteSums, FiniteSetTheorems, TLAPS

-----------------------------------------------------------------------------
(* The counter.  A pass through the wizard has one key, made for its first *)
(* submission and forgotten with a success; so what is known of a key is   *)
(* known of a pass, and the unique key is what makes a pass collect once.  *)

(* Submissions made: those the API is at, and those recorded. *)
Made == coll \cup {sent[q].sub : q \in {r \in DeskReqs : sent[r].pc # "idle"}}

DeskPage == [step : 0..4, sel : SUBSET Parcels, amt : Amounts, key : 0..MaxConfirms,
             wait : SUBSET DeskReqs, last : SUBSET Collection, sub : Collection, forked : BOOLEAN]
DeskRequest == [pc : {"idle", "lookup", "collect", "ok", "error"}, sub : Collection,
                got : SUBSET Collection]

DeskShape ==
    /\ desk \in DeskPage
    /\ seen \in [Parcels -> SUBSET Amounts] /\ due \in [Parcels -> SUBSET Amounts]
    /\ coll \subseteq Collection
    /\ sent \in [DeskReqs -> DeskRequest]
    /\ pass \in 0..MaxPasses /\ tally \in [confirms : 0..MaxConfirms, late : Nat]

(* The key of a pass. *)
KeysOfPasses ==
    /\ desk.key <= tally.confirms
    /\ \A s \in Made : /\ s.key \in 1..tally.confirms /\ s.pass <= pass
                       /\ s.pass = pass => s.key = desk.key \/ desk.step = 4
                       /\ s.key = desk.key => s.pass = pass
    /\ \A s, t \in Made : s.key = t.key <=> s.pass = t.pass

(* The unique key. *)
KeysUnique == \A c, d \in coll : c.key = d.key => c = d

(* What the page knows of the submissions of its pass. *)
PageKnows ==
    /\ \A q \in DeskReqs : \A c \in sent[q].got : c \in coll /\ c.key = sent[q].sub.key
    /\ \A q \in desk.wait : sent[q].pc # "idle" /\ sent[q].sub.pass = pass
    /\ desk.wait = {} \/ \E q \in DeskReqs : desk.wait = {q}
    /\ desk.last \subseteq coll
    /\ desk.step = 4 => desk.wait = {} /\ \A c \in desk.last : c.pass = pass
    /\ ~desk.forked => \A s \in Made : s.pass = pass => s = desk.sub

DeskInv == DeskShape /\ KeysOfPasses /\ KeysUnique /\ PageKnows

LEMMA NoSubOK == NoSub \in Collection /\ NoSent \in DeskRequest /\ NoDesk \in DeskPage
<1>1. NoSub.p \in Parcels
  BY DeskConstants DEF NoSub
<1>2. NoSub \in Collection
  BY <1>1, DeskConstants DEF NoSub, Collection, Amounts
<1> QED
  BY <1>2, DeskConstants DEF NoSent, NoDesk, DeskRequest, DeskPage, Amounts

LEMMA PresetOK ==
    ASSUME DeskShape, NEW old, NEW new \in SUBSET Amounts
    PROVE  Preset(old, new) \in Amounts
BY DEF Preset, DeskShape, DeskPage

LEMMA ShownOK ==
    ASSUME DeskShape, NEW S \in SUBSET Parcels
    PROVE  Shown(S) \in SUBSET Amounts
BY DEF Shown, DeskShape

LEMMA DeskFields ==
    ASSUME DeskShape
    PROVE  /\ desk.step \in 0..4 /\ desk.sel \in SUBSET Parcels /\ desk.amt \in Amounts
           /\ desk.key \in 0..MaxConfirms /\ desk.wait \in SUBSET DeskReqs
           /\ desk.last \in SUBSET Collection /\ desk.sub \in Collection /\ desk.forked \in BOOLEAN
BY DEF DeskShape, DeskPage

(* Steps of the page before a submission, and what others pay. *)
Looking ==
    /\ UNCHANGED <<coll, sent, pass, tally>>
    /\ desk' \in DeskPage /\ (desk'.step = 4 <=> desk.step = 4)
    /\ desk'.key = desk.key /\ desk'.wait = desk.wait /\ desk'.last = desk.last
    /\ desk'.sub = desk.sub /\ desk'.forked = desk.forked
    /\ seen' \in [Parcels -> SUBSET Amounts] /\ due' \in [Parcels -> SUBSET Amounts]

LEMMA PageLooks ==
    ASSUME DeskShape, UNCHANGED <<coll, sent, pass, tally>>,
           NEW sel \in SUBSET Parcels, NEW amt \in Amounts, NEW step \in 0..4, step = 4 <=> desk.step = 4,
           desk' = [desk EXCEPT !.sel = sel, !.amt = amt, !.step = step],
           seen' \in [Parcels -> SUBSET Amounts], due' \in [Parcels -> SUBSET Amounts]
    PROVE  Looking
BY DEF Looking, DeskShape, DeskPage

LEMMA LookMoves ==
    ASSUME DeskShape,
           \/ \E p \in Parcels : Choose(p) \/ Elsewhere(p)
           \/ Unchoose \/ FindNext \/ LoadDemand \/ DuesNext \/ Review \/ Back
           \/ \E a \in Amounts : Enter(a)
    PROVE  Looking
<1>1. /\ seen \in [Parcels -> SUBSET Amounts] /\ due \in [Parcels -> SUBSET Amounts]
      /\ desk.step \in 0..4 /\ desk.sel \in SUBSET Parcels /\ desk.amt \in Amounts
  BY DeskFields DEF DeskShape, DeskPage
<1>2. ASSUME NEW p \in Parcels, Choose(p)
      PROVE  Looking
  <2> DEFINE amt == Preset(Shown(desk.sel), seen[p])
  <2>1. amt \in Amounts
    BY <1>1, PresetOK, ShownOK
  <2>2. desk' = [desk EXCEPT !.sel = {p}, !.amt = amt]
    BY <1>2 DEF Choose
  <2> HIDE DEF amt
  <2>3. desk' = [desk EXCEPT !.sel = {p}, !.amt = amt, !.step = desk.step]
    BY <1>1, <2>2 DEF DeskShape, DeskPage
  <2>4. UNCHANGED <<coll, sent, pass, tally, seen, due>>
    BY <1>2 DEF Choose, deskApi
  <2> QED
    BY <1>1, <2>1, <2>3, <2>4, PageLooks
<1>3. ASSUME NEW p \in Parcels, Elsewhere(p)
      PROVE  Looking
  <2>1. PICK o \in due[p] : o > 0 /\ due' = [due EXCEPT ![p] = {o - 1}]
    BY <1>3 DEF Elsewhere
  <2>2. o - 1 \in Amounts
    BY <1>1, <2>1, DeskConstants DEF Amounts
  <2>3. UNCHANGED <<coll, sent, pass, tally, seen, desk>> /\ desk \in DeskPage
    BY <1>3 DEF Elsewhere, DeskShape
  <2> QED
    BY <1>1, <2>1, <2>2, <2>3 DEF Looking
<1>4. ASSUME Unchoose
      PROVE  Looking
  <2>1. desk' = [desk EXCEPT !.sel = {}] /\ UNCHANGED <<coll, sent, pass, tally, seen, due>>
    BY <1>4 DEF Unchoose, deskApi
  <2>2. desk' = [desk EXCEPT !.sel = {}, !.amt = desk.amt, !.step = desk.step]
    BY <1>1, <2>1 DEF DeskShape, DeskPage
  <2> QED
    BY <1>1, <2>1, <2>2, PageLooks
<1>5. ASSUME FindNext \/ DuesNext \/ Review \/ Back
      PROVE  Looking
  <2>1. PICK s \in 0..3 : desk' = [desk EXCEPT !.step = s] /\ desk.step # 4
    BY <1>1, <1>5 DEF FindNext, DuesNext, Review, Back, Go
  <2>2. UNCHANGED <<coll, sent, pass, tally, seen, due>>
    BY <1>5 DEF FindNext, DuesNext, Review, Back, Go, deskApi
  <2>3. desk' = [desk EXCEPT !.sel = desk.sel, !.amt = desk.amt, !.step = s]
    BY <1>1, <2>1 DEF DeskShape, DeskPage
  <2>4. s = 4 <=> desk.step = 4
    BY <2>1
  <2>5. s \in 0..4
    OBVIOUS
  <2> QED
    BY <1>1, <2>2, <2>3, <2>4, <2>5, PageLooks
<1>6. ASSUME LoadDemand
      PROVE  Looking
  <2>1. PICK p \in desk.sel : /\ seen' = [seen EXCEPT ![p] = due[p]]
                             /\ desk' = [desk EXCEPT !.amt = Preset(seen[p], due[p])]
    BY <1>6 DEF LoadDemand
  <2> DEFINE amt == Preset(seen[p], due[p])
  <2>2. amt \in Amounts /\ UNCHANGED <<coll, sent, pass, tally, due>>
    BY <1>1, <1>6, PresetOK DEF LoadDemand, deskApi
  <2>3. seen' \in [Parcels -> SUBSET Amounts]
    BY <1>1, <2>1
  <2> HIDE DEF amt
  <2>4. desk' = [desk EXCEPT !.sel = desk.sel, !.amt = amt, !.step = desk.step]
    BY <1>1, <2>1 DEF amt, DeskShape, DeskPage
  <2> QED
    BY <1>1, <2>2, <2>3, <2>4, PageLooks
<1>7. ASSUME NEW a \in Amounts, Enter(a)
      PROVE  Looking
  <2>1. desk' = [desk EXCEPT !.amt = a] /\ UNCHANGED <<coll, sent, pass, tally, seen, due>>
    BY <1>7 DEF Enter, deskApi
  <2>2. desk' = [desk EXCEPT !.sel = desk.sel, !.amt = a, !.step = desk.step]
    BY <1>1, <2>1 DEF DeskShape, DeskPage
  <2>3. UNCHANGED <<coll, sent, pass, tally>>
    BY <2>1
  <2>4. seen' \in [Parcels -> SUBSET Amounts] /\ due' \in [Parcels -> SUBSET Amounts]
    BY <1>1, <2>1
  <2> QED
    BY <1>1, <2>2, <2>3, <2>4, PageLooks
<1> QED
  BY <1>2, <1>3, <1>4, <1>5, <1>6, <1>7

LEMMA LookingKeeps ==
    ASSUME DeskInv, Looking
    PROVE  DeskInv'
<1>1. /\ desk' \in DeskPage /\ (desk'.step = 4 <=> desk.step = 4) /\ desk'.key = desk.key
      /\ desk'.wait = desk.wait /\ desk'.last = desk.last /\ desk'.sub = desk.sub
      /\ desk'.forked = desk.forked
  BY DEF Looking, DeskInv, DeskShape, DeskPage
<1>2. Made' = Made /\ UNCHANGED <<coll, sent, pass, tally>>
  BY DEF Looking, Made
<1>3. DeskShape'
  BY <1>1, <1>2 DEF Looking, DeskInv, DeskShape
<1>4. KeysOfPasses' /\ KeysUnique'
  BY <1>1, <1>2 DEF DeskInv, KeysOfPasses, KeysUnique
<1>5. PageKnows'
  BY <1>1, <1>2 DEF DeskInv, PageKnows
<1> QED
  BY <1>3, <1>4, <1>5 DEF DeskInv

(* A submission goes out, under the key of its pass. *)
LEMMA SubmissionOK ==
    ASSUME DeskInv, NEW p \in Parcels, tally.confirms < MaxConfirms
    PROVE  LET s == Submission(p) IN
           /\ s \in Collection /\ s.key = KeyFor /\ s.pass = pass
           /\ KeyFor \in 1..(tally.confirms + 1)
           /\ KeyFor = IF desk.key = 0 THEN tally.confirms + 1 ELSE desk.key
<1>1. /\ desk.key \in 0..MaxConfirms /\ desk.amt \in Amounts /\ tally.confirms \in 0..MaxConfirms
      /\ pass \in 0..MaxPasses /\ desk.key <= tally.confirms
  BY DeskFields DEF DeskInv, DeskShape, KeysOfPasses
<1>2. /\ KeyFor \in 1..(tally.confirms + 1) /\ KeyFor \in 0..MaxConfirms
      /\ KeyFor = IF desk.key = 0 THEN tally.confirms + 1 ELSE desk.key
  BY <1>1, DeskConstants DEF KeyFor, NewKey
<1> QED
  BY <1>1, <1>2 DEF Submission, Collection

LEMMA ConfirmKeeps ==
    ASSUME DeskInv, NEW q \in DeskReqs, Confirm(q)
    PROVE  DeskInv'
<1>1. PICK p \in desk.sel :
         /\ sent' = [sent EXCEPT ![q] = [pc |-> "lookup", sub |-> Submission(p), got |-> {}]]
         /\ desk' = [desk EXCEPT !.key = KeyFor, !.wait = {q}, !.sub = Submission(p),
                                 !.forked = @ \/ (desk.key # 0 /\ desk.sub # Submission(p))]
  BY DEF Confirm
<1> DEFINE s == Submission(p)
           n == [pc |-> "lookup", sub |-> s, got |-> {}]
           forked == desk.forked \/ (desk.key # 0 /\ desk.sub # s)
<1>2. /\ desk.step = 3 /\ sent[q].pc = "idle" /\ tally.confirms < MaxConfirms
      /\ tally' = [tally EXCEPT !.confirms = @ + 1] /\ UNCHANGED <<due, coll, seen, pass>>
  BY DEF Confirm
<1>3. p \in Parcels
  BY DeskFields DEF DeskInv
<1>4. /\ s \in Collection /\ s.key = KeyFor /\ s.pass = pass /\ KeyFor \in 1..(tally.confirms + 1)
      /\ KeyFor = IF desk.key = 0 THEN tally.confirms + 1 ELSE desk.key
  BY <1>2, <1>3, SubmissionOK
<1>5. /\ tally \in [confirms : 0..MaxConfirms, late : Nat] /\ sent \in [DeskReqs -> DeskRequest]
      /\ desk \in DeskPage /\ coll \subseteq Collection
  BY DEF DeskInv, DeskShape
<1> HIDE DEF s
<1>6. n \in DeskRequest /\ n.pc = "lookup" /\ n.sub = s /\ n.got = {}
  BY <1>4 DEF DeskRequest
<1>7. sent' = [sent EXCEPT ![q] = n] /\ desk' = [desk EXCEPT !.key = KeyFor, !.wait = {q}, !.sub = s, !.forked = forked]
  BY <1>1 DEF s
<1> HIDE DEF n, forked
<1>8. /\ tally.confirms \in Nat /\ desk.key \in Nat /\ desk.key <= tally.confirms /\ pass \in Nat
       /\ tally'.confirms = tally.confirms + 1
  BY <1>2, <1>5, DeskFields, DeskConstants DEF DeskInv, DeskShape, KeysOfPasses
<1>9. /\ sent' \in [DeskReqs -> DeskRequest] /\ sent'[q] = n
      /\ \A r \in DeskReqs \ {q} : sent'[r] = sent[r]
  BY <1>5, <1>6, <1>7
<1>10. Made' = Made \cup {s}
  BY <1>2, <1>6, <1>9 DEF Made
<1>11. tally'.confirms = tally.confirms + 1 /\ tally' \in [confirms : 0..MaxConfirms, late : Nat]
  BY <1>2, <1>5, DeskConstants
<1>12. KeyFor \in 0..MaxConfirms /\ forked \in BOOLEAN
  BY <1>2, <1>4, <1>5, DeskConstants DEF forked
<1>13. /\ desk' \in DeskPage /\ desk'.key = KeyFor /\ desk'.wait = {q} /\ desk'.sub = s
       /\ desk'.forked = forked /\ desk'.step = desk.step /\ desk'.last = desk.last
  BY <1>4, <1>5, <1>7, <1>12 DEF DeskPage
<1>14. DeskShape'
  BY <1>2, <1>9, <1>11, <1>13 DEF DeskInv, DeskShape
<1>15. \A m \in Made : /\ m.key \in 1..tally.confirms /\ m.pass <= pass
                       /\ m.pass = pass <=> m.key = desk.key
  BY <1>2 DEF DeskInv, KeysOfPasses
<1>16. \A m \in Made : m.pass = pass <=> m.key = KeyFor
  <2>1. CASE desk.key = 0
    BY <1>4, <1>8, <1>15, <2>1
  <2>2. CASE desk.key # 0
    BY <1>4, <1>15, <2>2
  <2> QED
    BY <2>1, <2>2
<1>17. KeysOfPasses'
  <2>1. \A m \in Made' : /\ m.key \in 1..tally'.confirms /\ m.pass <= pass
                         /\ m.pass = pass <=> m.key = KeyFor
    BY <1>4, <1>5, <1>10, <1>8, <1>15, <1>16
  <2>2. \A m, t \in Made' : m.key = t.key <=> m.pass = t.pass
    BY <1>4, <1>10, <1>16 DEF DeskInv, KeysOfPasses
  <2>3. desk'.key <= tally'.confirms
    BY <1>4, <1>8, <1>13
  <2> QED
    BY <1>2, <1>13, <2>1, <2>2, <2>3 DEF KeysOfPasses
<1>18. KeysUnique'
  BY <1>2 DEF DeskInv, KeysUnique
<1>19. PageKnows'
  <2>1. \A r \in DeskReqs : \A c \in sent'[r].got : c \in coll /\ c.key = sent'[r].sub.key
    BY <1>6, <1>9 DEF DeskInv, PageKnows
  <2>2. \A r \in desk'.wait : sent'[r].pc # "idle" /\ sent'[r].sub.pass = pass
    BY <1>4, <1>6, <1>9, <1>13
  <2>3. ~desk'.forked => \A m \in Made' : m.pass = pass => m = desk'.sub
    <3>1. SUFFICES ASSUME ~desk'.forked, NEW m \in Made, m.pass = pass
                   PROVE  m = s
      BY <1>10, <1>13
    <3>2. ~desk.forked /\ (desk.key = 0 \/ desk.sub = s)
      BY <1>13, <3>1 DEF forked
    <3>3. desk.key # 0
      BY <1>15, <1>8, <3>1
    <3> QED
      BY <3>1, <3>2, <3>3 DEF DeskInv, PageKnows
  <2> QED
    BY <1>2, <1>13, <2>1, <2>2, <2>3 DEF DeskInv, PageKnows
<1> QED
  BY <1>14, <1>17, <1>18, <1>19 DEF DeskInv

(* The page stops waiting: Made loses at most the answered submission. *)
LEMMA WaitEnds ==
    ASSUME DeskInv, NEW q \in DeskReqs, desk.wait = {q},
           desk' \in DeskPage, desk'.wait = {}, desk'.sub = desk.sub, desk'.forked = desk.forked,
           \/ desk'.step = desk.step /\ desk'.key = desk.key /\ desk'.last = desk.last
           \/ desk'.step = 4 /\ desk'.key = 0 /\ desk'.last = sent[q].got,
           sent' \in [DeskReqs -> DeskRequest],
           \A r \in DeskReqs : \/ sent'[r] = sent[r]
                               \/ sent'[r].pc = "idle" /\ sent'[r].got = {},
           UNCHANGED <<due, coll, seen, pass>>,
           tally' \in [confirms : 0..MaxConfirms, late : Nat], tally'.confirms = tally.confirms
    PROVE  DeskInv'
<1>1. Made' \subseteq Made
  BY DEF Made
<1>2. DeskShape'
  BY DEF DeskInv, DeskShape
<1>3. /\ tally.confirms \in Nat /\ desk.step # 4
      /\ \A m \in Made : m.key # 0
  BY DEF DeskInv, DeskShape, KeysOfPasses, PageKnows
<1>4. \A c \in sent[q].got : c \in Made /\ c.pass = pass
  <2>1. sent[q].sub \in Made /\ sent[q].sub.pass = pass
    BY DEF DeskInv, PageKnows, Made
  <2>2. \A c \in sent[q].got : c \in Made /\ c.key = sent[q].sub.key
    BY DEF DeskInv, PageKnows, Made
  <2> QED
    BY <2>1, <2>2 DEF DeskInv, KeysOfPasses
<1>5. KeysOfPasses' /\ KeysUnique'
  BY <1>1, <1>3 DEF DeskInv, KeysOfPasses, KeysUnique
<1>6. PageKnows'
  BY <1>1, <1>3, <1>4 DEF DeskInv, PageKnows
<1> QED
  BY <1>2, <1>5, <1>6 DEF DeskInv

LEMMA AnswerKeeps ==
    ASSUME DeskInv, NEW q \in DeskReqs, Answer(q) \/ GiveUpWaiting(q)
    PROVE  DeskInv'
<1>1. /\ desk \in DeskPage /\ sent \in [DeskReqs -> DeskRequest] /\ coll \subseteq Collection
      /\ tally \in [confirms : 0..MaxConfirms, late : Nat]
  BY DEF DeskInv, DeskShape
<1>2. /\ desk.wait = {q} /\ UNCHANGED <<due, coll, seen, pass>>
  BY DEF Answer, GiveUpWaiting, deskApi
<1>3. /\ tally' \in [confirms : 0..MaxConfirms, late : Nat] /\ tally'.confirms = tally.confirms
  BY <1>1 DEF Answer, GiveUpWaiting
<1>4. /\ sent' \in [DeskReqs -> DeskRequest]
      /\ \A r \in DeskReqs : sent'[r] = sent[r] \/ (sent'[r].pc = "idle" /\ sent'[r].got = {})
  <2>1. sent' = [sent EXCEPT ![q] = NoSent] \/ sent' = sent
    BY DEF Answer, GiveUpWaiting, deskApi
  <2>2. NoSent \in DeskRequest /\ NoSent.pc = "idle" /\ NoSent.got = {}
    BY NoSubOK DEF NoSent
  <2> QED
    BY <1>1, <2>1, <2>2
<1>5. CASE Answer(q) /\ sent[q].pc = "ok"
  <2> DEFINE got == sent[q].got
  <2>1. desk' = [desk EXCEPT !.step = 4, !.last = got, !.key = 0, !.wait = {}]
    BY <1>5 DEF Answer
  <2>2. got \in SUBSET Collection /\ 0 \in 0..MaxConfirms
    BY <1>1, DeskConstants DEF DeskRequest
  <2> HIDE DEF got
  <2>4. /\ desk'.wait = {} /\ desk'.sub = desk.sub /\ desk'.forked = desk.forked
        /\ desk'.step = 4 /\ desk'.key = 0 /\ desk'.last = got
    BY <1>1, <2>1 DEF DeskPage
  <2>6. desk' = [step |-> 4, sel |-> desk.sel, amt |-> desk.amt, key |-> 0, wait |-> {},
                 last |-> got, sub |-> desk.sub, forked |-> desk.forked]
    BY <1>1, <2>1 DEF DeskPage
  <2>5. desk' \in DeskPage
    BY <2>2, <2>6, DeskFields DEF DeskPage, DeskInv
  <2>3. /\ desk' \in DeskPage /\ desk'.wait = {} /\ desk'.sub = desk.sub /\ desk'.forked = desk.forked
        /\ desk'.step = 4 /\ desk'.key = 0 /\ desk'.last = got
    BY <2>4, <2>5
  <2> QED
    BY <1>2, <1>3, <1>4, <2>3, WaitEnds DEF got
<1>6. CASE GiveUpWaiting(q) \/ sent[q].pc # "ok"
  <2>1. desk' = [desk EXCEPT !.wait = {}]
    BY <1>6 DEF Answer, GiveUpWaiting
  <2>2. /\ desk' \in DeskPage /\ desk'.wait = {} /\ desk'.sub = desk.sub /\ desk'.forked = desk.forked
        /\ desk'.step = desk.step /\ desk'.key = desk.key /\ desk'.last = desk.last
    BY <1>1, <2>1 DEF DeskPage
  <2> QED
    BY <1>2, <1>3, <1>4, <2>2, WaitEnds
<1> QED
  BY <1>5, <1>6

(* A new pass has no submission and no key. *)
LEMMA NewPassKeeps ==
    ASSUME DeskInv, StartNew \/ ReloadPage
    PROVE  DeskInv'
<1>1. /\ pass \in 0..MaxPasses /\ pass' = pass + 1 /\ pass < MaxPasses /\ UNCHANGED <<coll, sent, due, tally>>
      /\ seen' \in [Parcels -> SUBSET Amounts] /\ desk.sub \in Collection /\ Made' = Made
      /\ tally.confirms \in Nat
  BY DeskFields DEF DeskInv, DeskShape, StartNew, ReloadPage, deskApi, Made
<1>2. /\ desk' \in DeskPage /\ desk'.step = 0 /\ desk'.key = 0 /\ desk'.wait = {} /\ desk'.last = {}
  <2>1. NoDesk.step = 0 /\ NoDesk.key = 0 /\ NoDesk.wait = {} /\ NoDesk.last = {}
    BY DEF NoDesk
  <2>2. desk' = [NoDesk EXCEPT !.sub = desk.sub] \/ desk' = NoDesk
    BY DEF StartNew, ReloadPage
  <2> QED
    BY <1>1, <2>1, <2>2, NoSubOK DEF DeskPage
<1>3. pass \in Nat /\ pass' \in 0..MaxPasses
  BY <1>1, DeskConstants
<1>4. \A m \in Made : m.key \in 1..tally.confirms /\ m.pass <= pass /\ m.pass \in 0..MaxPasses
  BY DEF DeskInv, KeysOfPasses, Made, DeskShape, Collection, DeskRequest
<1>5. \A m \in Made' : m.key \in 1..tally.confirms /\ m.key # 0 /\ m.pass <= pass' /\ m.pass # pass'
  BY <1>1, <1>3, <1>4, DeskConstants
<1>6. DeskShape'
  BY <1>1, <1>2, <1>3 DEF DeskInv, DeskShape
<1>7. KeysOfPasses' /\ KeysUnique'
  BY <1>1, <1>2, <1>5 DEF DeskInv, KeysOfPasses, KeysUnique
<1>8. PageKnows'
  BY <1>1, <1>2, <1>5 DEF DeskInv, PageKnows
<1> QED
  BY <1>6, <1>7, <1>8 DEF DeskInv

(* The steps of the API: a request goes on with what is recorded under its *)
(* key, which at most one submission is.                                   *)
LEMMA RequestKeeps ==
    ASSUME DeskInv, NEW q \in DeskReqs, UNCHANGED <<desk, pass, tally, seen>>,
           NEW n \in DeskRequest, sent' = [sent EXCEPT ![q] = n],
           n.pc # "idle" => n.sub = sent[q].sub,
           n.pc = "idle" => q \notin desk.wait,
           n.pc # "idle" => sent[q].pc # "idle",
           coll' = coll \/ (coll' = coll \cup {sent[q].sub} /\ WithKey(sent[q].sub.key) = {}
                            /\ sent[q].pc # "idle"),
           \A c \in n.got : c \in coll' /\ c.key = n.sub.key,
           due' \in [Parcels -> SUBSET Amounts]
    PROVE  DeskInv'
<1>1. /\ sent \in [DeskReqs -> DeskRequest] /\ coll \subseteq Collection
      /\ sent[q].sub \in Collection
  BY DEF DeskInv, DeskShape, DeskRequest
<1>2. /\ sent' \in [DeskReqs -> DeskRequest] /\ sent'[q] = n
      /\ \A r \in DeskReqs \ {q} : sent'[r] = sent[r]
  BY <1>1
<1>3. coll \subseteq coll' /\ coll' \subseteq Collection
  BY <1>1
<1>4. Made' \subseteq Made
  <2>1. coll' \subseteq Made
    BY DEF Made
  <2>2. \A r \in DeskReqs : sent'[r].pc # "idle" => sent[r].pc # "idle" /\ sent'[r].sub = sent[r].sub
    BY <1>2
  <2> QED
    BY <2>1, <2>2 DEF Made
<1>5. DeskShape'
  BY <1>2, <1>3 DEF DeskInv, DeskShape
<1>6. KeysOfPasses'
  BY <1>4 DEF DeskInv, KeysOfPasses
<1>7. KeysUnique'
  BY DEF DeskInv, KeysUnique, WithKey
<1>8. PageKnows'
  <2>1. \A r \in DeskReqs : \A c \in sent'[r].got : c \in coll' /\ c.key = sent'[r].sub.key
    BY <1>2, <1>3 DEF DeskInv, PageKnows
  <2>2. \A r \in desk.wait : sent'[r].pc # "idle" /\ sent'[r].sub.pass = pass
    BY <1>1, <1>2 DEF DeskInv, PageKnows
  <2>3. desk'.last \subseteq coll' /\ (desk'.step = 4 => desk'.wait = {} /\ \A c \in desk'.last : c.pass = pass')
    BY <1>3 DEF DeskInv, PageKnows
  <2>4. ~desk'.forked => \A s \in Made' : s.pass = pass' => s = desk'.sub
    BY <1>4 DEF DeskInv, PageKnows
  <2> QED
    BY <2>1, <2>2, <2>3, <2>4 DEF DeskInv, PageKnows
<1> QED
  BY <1>5, <1>6, <1>7, <1>8 DEF DeskInv

LEMMA ApiKeeps ==
    ASSUME DeskInv, NEW q \in DeskReqs, OfflineLookup(q) \/ OfflineCollect(q) \/ Dropped(q)
    PROVE  DeskInv'
<1> DEFINE s == sent[q].sub
<1>1. /\ sent \in [DeskReqs -> DeskRequest] /\ coll \subseteq Collection
      /\ due \in [Parcels -> SUBSET Amounts] /\ sent[q] \in DeskRequest /\ s \in Collection
  BY DEF DeskInv, DeskShape, DeskRequest
<1>2. UNCHANGED <<desk, pass, tally, seen>>
  BY DEF OfflineLookup, OfflineCollect, Dropped
<1>3. WithKey(s.key) \in SUBSET Collection /\ \A c \in WithKey(s.key) : c \in coll /\ c.key = s.key
  BY <1>1 DEF WithKey
<1> DEFINE N(pc, got) == [sent[q] EXCEPT !.pc = pc, !.got = got]
<1>4. ASSUME NEW pc \in {"ok", "collect", "error"}, NEW got \in SUBSET Collection
      PROVE  /\ N(pc, got) \in DeskRequest /\ N(pc, got).pc # "idle" /\ N(pc, got).sub = s
             /\ N(pc, got).got = got
  BY <1>1 DEF DeskRequest
<1>5. /\ sent[q].got \in SUBSET Collection /\ \A c \in sent[q].got : c \in coll /\ c.key = s.key
      /\ \A pc \in {"ok", "collect", "error"} : [sent[q] EXCEPT !.pc = pc] = N(pc, sent[q].got)
  BY <1>1 DEF DeskInv, PageKnows, DeskRequest
<1>6. \A pc \in {"ok", "collect", "error"} : [sent EXCEPT ![q].pc = pc] = [sent EXCEPT ![q] = N(pc, sent[q].got)]
  BY <1>1, <1>5
<1>7. ASSUME NEW pc \in {"ok", "collect", "error"}, NEW got \in SUBSET Collection,
              sent' = [sent EXCEPT ![q] = N(pc, got)], sent[q].pc # "idle",
              coll' = coll \/ (coll' = coll \cup {s} /\ WithKey(s.key) = {}),
              \A c \in got : c \in coll' /\ c.key = s.key,
              due' \in [Parcels -> SUBSET Amounts]
       PROVE  DeskInv'
  <2> DEFINE n == N(pc, got)
  <2>1. n \in DeskRequest /\ n.pc # "idle" /\ n.sub = s /\ n.got = got
    BY <1>4, <1>7
  <2>2. sent' = [sent EXCEPT ![q] = n]
    BY <1>7
  <2> HIDE DEF n
  <2>3. \A c \in n.got : c \in coll' /\ c.key = n.sub.key
    BY <1>7, <2>1
  <2> QED
    BY <1>2, <1>7, <2>1, <2>2, <2>3, RequestKeeps
<1>8. UNCHANGED <<coll, due>> => due' \in [Parcels -> SUBSET Amounts]
  BY <1>1
<1>9. CASE OfflineLookup(q)
  <2>1. UNCHANGED <<coll, due>> /\ sent[q].pc # "idle"
    BY <1>9 DEF OfflineLookup
  <2>2. \/ sent' = [sent EXCEPT ![q] = N("ok", WithKey(s.key))]
        \/ \E pc \in {"collect", "error"} : sent' = [sent EXCEPT ![q] = [sent[q] EXCEPT !.pc = pc]]
    BY <1>9, Zenon DEF OfflineLookup
  <2> HIDE DEF N, s
  <2>3. \/ sent' = [sent EXCEPT ![q] = N("ok", WithKey(s.key))]
        \/ \E pc \in {"collect", "error"} : sent' = [sent EXCEPT ![q] = N(pc, sent[q].got)]
    <3>1. \A pc \in {"collect", "error"} : [sent[q] EXCEPT !.pc = pc] = N(pc, sent[q].got)
      BY <1>5
    <3> QED
      BY <2>2, <3>1
  <2> QED
    BY <1>3, <1>5, <1>7, <1>8, <2>1, <2>3
<1>10. CASE OfflineCollect(q)
  <2>1. sent[q].pc # "idle"
    BY <1>10 DEF OfflineCollect
  <2>2. CASE sent' = [sent EXCEPT ![q].pc = "error"] /\ UNCHANGED <<due, coll>>
    <3> HIDE DEF N, s
    <3>1. sent' = [sent EXCEPT ![q] = N("error", sent[q].got)]
      BY <1>6, <2>2
    <3> QED
      BY <1>5, <1>7, <1>8, <2>1, <2>2, <3>1
  <2>3. CASE sent' = [sent EXCEPT ![q].pc = "ok", ![q].got = WithKey(s.key)] /\ UNCHANGED <<due, coll>>
    <3>1. sent' = [sent EXCEPT ![q] = N("ok", WithKey(s.key))]
      BY <1>1, <2>3
    <3> HIDE DEF N, s
    <3> QED
      BY <1>3, <1>7, <1>8, <2>1, <2>3, <3>1
  <2>4. CASE /\ WithKey(s.key) = {} /\ coll' = coll \cup {s}
             /\ sent' = [sent EXCEPT ![q].pc = "ok", ![q].got = {s}]
             /\ \E o \in due[s.p] : s.amt <= o /\ due' = [due EXCEPT ![s.p] = {o - s.amt}]
    <3>1. sent' = [sent EXCEPT ![q] = N("ok", {s})]
      BY <1>1, <2>4
    <3>2. due' \in [Parcels -> SUBSET Amounts]
      <4>1. PICK o \in due[s.p] : s.amt <= o /\ due' = [due EXCEPT ![s.p] = {o - s.amt}]
        BY <2>4
      <4>2. s.p \in Parcels /\ s.amt \in 0..MaxDue /\ o \in 0..MaxDue
        BY <1>1, <4>1 DEF Collection, Amounts
      <4>3. {o - s.amt} \in SUBSET Amounts
        BY <4>1, <4>2, DeskConstants DEF Amounts
      <4> QED
        BY <1>1, <4>1, <4>2, <4>3
    <3> HIDE DEF N, s
    <3>3. {s} \in SUBSET Collection /\ \A c \in {s} : c \in coll' /\ c.key = s.key
      BY <1>1, <2>4
    <3> QED
      BY <1>7, <2>1, <2>4, <3>1, <3>2, <3>3
  <2> QED
    BY <1>10, <2>2, <2>3, <2>4 DEF OfflineCollect
<1>11. CASE Dropped(q)
  <2>1. /\ sent' = [sent EXCEPT ![q] = NoSent] /\ q \notin desk.wait /\ UNCHANGED <<coll, due>>
    BY <1>11 DEF Dropped, DeskInv, PageKnows
  <2>2. NoSent \in DeskRequest /\ NoSent.pc = "idle" /\ NoSent.got = {}
    BY NoSubOK DEF NoSent
  <2> QED
    BY <1>1, <1>2, <2>1, <2>2, RequestKeeps
<1> QED
  BY <1>9, <1>10, <1>11

LEMMA DeskInitHolds == DeskInit => DeskInv
<1> SUFFICES ASSUME DeskInit
             PROVE  DeskInv
  OBVIOUS
<1>1. /\ desk = NoDesk /\ coll = {} /\ seen = [p \in Parcels |-> {}] /\ pass = 0
      /\ due \in [Parcels -> {{}, {MaxDue}}] /\ sent = [q \in DeskReqs |-> NoSent]
      /\ tally = [confirms |-> 0, late |-> 0]
  BY DEF DeskInit
<1>2. Made = {}
  BY <1>1 DEF Made, NoSent
<1>3. due \in [Parcels -> SUBSET Amounts]
  BY <1>1, DeskConstants DEF Amounts
<1>4. DeskShape
  BY <1>1, <1>3, NoSubOK, DeskConstants DEF DeskShape
<1>5. KeysOfPasses /\ KeysUnique
  BY <1>1, <1>2 DEF KeysOfPasses, KeysUnique, NoDesk
<1>6. PageKnows
  BY <1>1, <1>2 DEF PageKnows, NoDesk, NoSent
<1> QED
  BY <1>4, <1>5, <1>6 DEF DeskInv

LEMMA DeskStep == DeskInv /\ [DeskNext]_deskVars => DeskInv'
<1> SUFFICES ASSUME DeskInv, [DeskNext]_deskVars
             PROVE  DeskInv'
  OBVIOUS
<1>1. CASE UNCHANGED deskVars
  BY <1>1 DEF deskVars, DeskInv, DeskShape, KeysOfPasses, KeysUnique, PageKnows, Made
<1>2. CASE \/ \E p \in Parcels : Choose(p) \/ Elsewhere(p)
           \/ Unchoose \/ FindNext \/ LoadDemand \/ DuesNext \/ Review \/ Back
           \/ \E a \in Amounts : Enter(a)
  BY <1>2, LookMoves, LookingKeeps DEF DeskInv
<1>3. ASSUME NEW q \in DeskReqs, Confirm(q)
      PROVE  DeskInv'
  BY <1>3, ConfirmKeeps
<1>4. ASSUME NEW q \in DeskReqs, Answer(q) \/ GiveUpWaiting(q)
      PROVE  DeskInv'
  BY <1>4, AnswerKeeps
<1>5. CASE StartNew \/ ReloadPage
  BY <1>5, NewPassKeeps
<1>6. ASSUME NEW q \in DeskReqs, OfflineLookup(q) \/ OfflineCollect(q) \/ Dropped(q)
      PROVE  DeskInv'
  BY <1>6, ApiKeeps
<1> QED
  BY <1>1, <1>2, <1>3, <1>4, <1>5, <1>6 DEF DeskNext

(* The invariant of the counter holds for any number of parcels, amounts,  *)
(* requests and passes.                                                    *)
THEOREM DeskInvariance == DeskSpec => []DeskInv
BY DeskInitHolds, DeskStep, PTL DEF DeskSpec

(* However often Confirm is pressed after errors and time-outs, a pass     *)
(* through the wizard records one payment, and the receipt handed over is  *)
(* that payment's (idempotencyKeyRef, the unique clientIdempotencyKey and  *)
(* the same answer for the same key).                                      *)
THEOREM OncePerPass == DeskSpec => []PassCollectsOnce
<1>1. DeskInv => PassCollectsOnce
  <2> SUFFICES ASSUME DeskInv
               PROVE  PassCollectsOnce
    OBVIOUS
  <2>1. coll \subseteq Made
    BY DEF Made
  <2>2. \A c, d \in coll : c.pass = d.pass => c = d
    BY <2>1 DEF DeskInv, KeysOfPasses, KeysUnique
  <2>3. ASSUME ~desk.forked, desk.step = 4, NEW c \in desk.last
        PROVE  c = desk.sub
    BY <2>1, <2>3 DEF DeskInv, PageKnows
  <2>4. ReceiptIsForThis
    BY <2>3 DEF ReceiptIsForThis, ReceiptShown
  <2> QED
    BY <2>2, <2>4 DEF PassCollectsOnce
<1> QED
  BY <1>1, DeskInvariance, PTL

-----------------------------------------------------------------------------
(* The year-end page.  What it shows is the answer of a preview, which     *)
(* stays true because no pair of years is ever opened again.               *)

Inquiry == [n : Nat, p : Pairs, found : SUBSET BOOLEAN]
Carry == [n : Nat, p : Pairs, awaited : BOOLEAN, ok : BOOLEAN]

ClosingInv ==
    /\ pair \in Pairs /\ asks \in Nat /\ inquiries \subseteq Inquiry
    /\ carries \subseteq Carry /\ IsFiniteSet(carries)
    /\ \A s \in shown : (s.late \/ s.p = pair) /\ (s.committed => s.p \in closed)
    /\ \A c \in inquiries : TRUE \in c.found => c.p \in closed
    /\ \A c \in commits : c.p = c.shown.p \/ c.shown.late

LEMMA MoreInquiries ==
    ASSUME ClosingInv, MutatePreview
    PROVE  /\ asks' \in Nat /\ inquiries' \subseteq Inquiry
           /\ \A c \in inquiries' : c \in inquiries \/ c.found = {}
<1>1. asks' = asks + 1 /\ asks + 1 \in Nat
  BY DEF ClosingInv, MutatePreview
<1> DEFINE c == [n |-> asks + 1, p |-> pair, found |-> {}]
<1>2. c \in Inquiry /\ c.found = {}
  BY <1>1 DEF ClosingInv, Inquiry
<1>3. inquiries' = inquiries \cup {c}
  BY DEF MutatePreview
<1> HIDE DEF c
<1> QED
  BY <1>1, <1>2, <1>3 DEF ClosingInv

LEMMA ClosingStep == ClosingInv /\ [ClosingNext]_closingVars => ClosingInv'
<1> SUFFICES ASSUME ClosingInv, [ClosingNext]_closingVars
             PROVE  ClosingInv'
  OBVIOUS
<1>1. /\ pair \in Pairs /\ asks \in Nat /\ inquiries \subseteq Inquiry
      /\ carries \subseteq Carry /\ IsFiniteSet(carries)
  BY DEF ClosingInv
<1>2. CASE UNCHANGED closingVars
  BY <1>2 DEF closingVars, ClosingInv
<1>3. ASSUME NEW side \in Sides, NEW y \in FiscalYears, ChooseYear(side, y)
      PROVE  ClosingInv'
  <2>1. pair' \in Pairs
    <3>1. PICK d \in SUBSET Sides : pair \in [d -> FiscalYears]
      BY <1>1 DEF Pairs
    <3>2. pair' \in [d \cup {side} -> FiscalYears]
      BY <1>3, <3>1 DEF ChooseYear
    <3> QED
      BY <3>2 DEF Pairs
  <2> QED
    BY <1>3, <2>1 DEF ChooseYear, Cleared, ClosingInv
<1>4. CASE PressPreview
  <2>1. MutatePreview /\ UNCHANGED <<pair, shown, carries, closed, commits>>
    BY <1>4 DEF PressPreview
  <2> QED
    BY <2>1, MoreInquiries DEF ClosingInv
<1>5. CASE PressCommit
  <2> DEFINE n == Cardinality(carries)
             c == [n |-> n, p |-> pair, awaited |-> TRUE, ok |-> FALSE]
  <2>1. n \in Nat
    BY <1>1, FS_CardinalityType
  <2>2. carries' = carries \cup {c} /\ UNCHANGED <<pair, shown, asks, inquiries, closed>>
    BY <1>5 DEF PressCommit
  <2> HIDE DEF n
  <2>3. c \in Carry
    BY <1>1, <2>1 DEF Carry
  <2> HIDE DEF c
  <2>4. carries' \subseteq Carry /\ IsFiniteSet(carries')
    BY <1>1, <2>2, <2>3, FS_AddElement
  <2>5. \A k \in commits' : k \in commits \/ k.p = k.shown.p \/ k.shown.late
    BY <1>5 DEF PressCommit, ClosingInv
  <2> QED
    BY <2>2, <2>4, <2>5 DEF ClosingInv
<1>6. ASSUME NEW c \in inquiries, PreviewYearEnd(c)
      PROVE  ClosingInv'
  <2> DEFINE d == [c EXCEPT !.found = {c.p \in closed}]
  <2>1. inquiries' = (inquiries \ {c}) \cup {d} /\ UNCHANGED <<pair, shown, asks, carries, closed, commits>>
    BY <1>6 DEF PreviewYearEnd
  <2>2. (c.p \in closed) \in BOOLEAN
    OBVIOUS
  <2>3. d \in Inquiry /\ d.p = c.p /\ d.found = {c.p \in closed}
    BY <1>1, <2>2 DEF Inquiry
  <2> HIDE DEF d
  <2>4. TRUE \in d.found => d.p \in closed
    BY <2>3
  <2> QED
    BY <2>1, <2>3, <2>4 DEF ClosingInv
<1>7. ASSUME NEW c \in inquiries, PreviewShown(c)
      PROVE  ClosingInv'
  <2> DEFINE s == [p |-> c.p, committed |-> TRUE \in c.found, late |-> c.p # pair]
  <2>1. shown' = {s} /\ inquiries' = inquiries \ {c} /\ UNCHANGED <<pair, asks, carries, closed, commits>>
    BY <1>7 DEF PreviewShown
  <2>2. (s.late \/ s.p = pair) /\ (s.committed => s.p \in closed)
    BY DEF ClosingInv
  <2> HIDE DEF s
  <2> QED
    BY <2>1, <2>2 DEF ClosingInv
<1>8. ASSUME NEW c \in inquiries, PreviewFails(c)
      PROVE  ClosingInv'
  BY <1>8 DEF PreviewFails, ClosingInv
<1>9. ASSUME NEW c \in carries, NEW w \in BOOLEAN, NEW k \in BOOLEAN
      PROVE  /\ (carries \ {c}) \cup {[c EXCEPT !.awaited = w]} \subseteq Carry
             /\ (carries \ {c}) \cup {[c EXCEPT !.ok = k]} \subseteq Carry
             /\ IsFiniteSet((carries \ {c}) \cup {[c EXCEPT !.awaited = w]})
             /\ IsFiniteSet((carries \ {c}) \cup {[c EXCEPT !.ok = k]})
  <2>1. [c EXCEPT !.awaited = w] \in Carry /\ [c EXCEPT !.ok = k] \in Carry
    BY <1>1 DEF Carry
  <2>2. IsFiniteSet(carries \ {c})
    BY <1>1, FS_RemoveElement
  <2> QED
    BY <1>1, <2>1, <2>2, FS_AddElement
<1>10. ASSUME NEW c \in carries, CommitYearEnd(c)
       PROVE  ClosingInv'
  <2>1. /\ closed \subseteq closed' /\ carries' = (carries \ {c}) \cup {[c EXCEPT !.ok = TRUE]}
        /\ UNCHANGED <<pair, shown, asks, inquiries, commits>>
    BY <1>10 DEF CommitYearEnd
  <2>2. carries' \subseteq Carry /\ IsFiniteSet(carries')
    BY <1>9, <2>1
  <2> QED
    BY <2>1, <2>2 DEF ClosingInv
<1>11. ASSUME NEW c \in carries, CommitAnswered(c)
       PROVE  ClosingInv'
  <2>1. carries' \subseteq Carry /\ IsFiniteSet(carries')
    BY <1>9, <1>11 DEF CommitAnswered
  <2>2. MutatePreview /\ UNCHANGED <<pair, shown, closed, commits>>
    BY <1>11 DEF CommitAnswered
  <2> QED
    BY <2>1, <2>2, MoreInquiries DEF ClosingInv
<1>12. ASSUME NEW c \in carries, CommitFails(c)
       PROVE  ClosingInv'
  <2>1. carries' \subseteq Carry /\ IsFiniteSet(carries')
    BY <1>9, <1>12 DEF CommitFails
  <2> QED
    BY <1>12, <2>1 DEF CommitFails, ClosingInv
<1>13. ASSUME NEW p \in Pairs, ClosedElsewhere(p)
       PROVE  ClosingInv'
  BY <1>13 DEF ClosedElsewhere, ClosingInv
<1> QED
  BY <1>2, <1>3, <1>4, <1>5, <1>6, <1>7, <1>8, <1>10, <1>11, <1>12, <1>13 DEF ClosingNext

LEMMA ClosingStart == ClosingInit => ClosingInv
<1> SUFFICES ASSUME ClosingInit
             PROVE  ClosingInv
  OBVIOUS
<1>1. pair \in Pairs
  BY DEF ClosingInit, Pairs
<1>2. IsFiniteSet(carries)
  BY FS_EmptySet DEF ClosingInit
<1> QED
  BY <1>1, <1>2 DEF ClosingInit, ClosingInv

(* The invariant of the year-end page.                                     *)
THEOREM ClosingInvariance == ClosingSpec => []ClosingInv
BY ClosingStart, ClosingStep, PTL DEF ClosingSpec

(* A clerk commits the years whose preview is on the page, unless that     *)
(* preview came late, and a page that calls a pair committed is right,     *)
(* for any number of years, previews and clerks (setPreview(null) on a     *)
(* change of the years, and commits that nobody takes back).               *)
THEOREM CommitsAsShown == ClosingSpec => []CommitsWhatIsShown
<1>1. ClosingInv => CommitsWhatIsShown
  BY DEF ClosingInv, CommitsWhatIsShown
<1> QED
  BY <1>1, ClosingInvariance, PTL

-----------------------------------------------------------------------------
(* The list screens.  While nothing has led the page astray, every query   *)
(* the screen may come to show, the one on display and one on its way in   *)
(* an address, is at a page its list has.                                  *)

Query == [f : Filters, x : Finds, p : 1..MaxPages]
ScreenState ==
    [tr : Screens, box : Finds, q : Query, got : SUBSET (1..MaxPages), of : Query,
     busy : BOOLEAN, nav : SUBSET Query, astray : SUBSET {"preset", "placeholder", "removed"}]

PagesOf(q) == pages[q.f, q.x]
Within(q) == q.p <= PagesOf(q)

ScreenInv ==
    /\ scr \in ScreenState /\ pages \in [Filters \X Finds -> 1..MaxPages]
    /\ scr.astray = {} => /\ Within(scr.q) /\ \A q \in scr.nav : Within(q)
                          /\ scr.got \subseteq {PagesOf(scr.of)}

LEMMA SomePages == MaxPages \in Nat /\ 1 \in 1..MaxPages
<1>1. MaxPages \in Nat \ {0}
  BY ScreenConstants, Zenon
<1> QED
  BY <1>1

LEMMA ListsHavePages ==
    ASSUME pages \in [Filters \X Finds -> 1..MaxPages], NEW q \in Query
    PROVE  PagesOf(q) \in 1..MaxPages
<1>1. q.f \in Filters /\ q.x \in Finds
  BY DEF Query
<1>2. <<q.f, q.x>> \in Filters \X Finds
  BY <1>1
<1> QED
  BY <1>2, Zenon DEF PagesOf

LEMMA FirstIsWithin ==
    ASSUME ScreenInv, NEW q \in Query, q.p = 1
    PROVE  Within(q)
<1>1. PagesOf(q) \in 1..MaxPages
  BY ListsHavePages DEF ScreenInv
<1> QED
  BY <1>1, SomePages DEF Within

LEMMA ScreenFields ==
    ASSUME NEW s \in ScreenState
    PROVE  /\ s.tr \in Screens /\ s.box \in Finds /\ s.q \in Query /\ s.got \in SUBSET (1..MaxPages)
           /\ s.of \in Query /\ s.busy \in BOOLEAN /\ s.nav \in SUBSET Query
           /\ s.astray \in SUBSET {"preset", "placeholder", "removed"}
BY DEF ScreenState

LEMMA AskOK ==
    ASSUME NEW s \in ScreenState, NEW q \in Query
    PROVE  LET r == Ask(s, q) IN
           /\ r \in ScreenState /\ r.q = q /\ r.got \subseteq s.got /\ r.of = s.of
           /\ r.nav = s.nav /\ r.astray = s.astray
<1>1. CASE q = s.q
  BY <1>1 DEF Ask
<1>2. CASE q # s.q
  <2> DEFINE got == IF s.tr.keep THEN s.got ELSE {}
             r == [s EXCEPT !.q = q, !.busy = TRUE, !.got = got]
  <2>1. Ask(s, q) = r
    BY <1>2, Zenon DEF Ask
  <2>2. got \subseteq s.got /\ got \in SUBSET (1..MaxPages)
    BY ScreenFields
  <2> HIDE DEF got
  <2>3. r \in ScreenState /\ r.q = q /\ r.got = got /\ r.of = s.of /\ r.nav = s.nav /\ r.astray = s.astray
    BY <2>2 DEF ScreenState
  <2> HIDE DEF r
  <2> QED
    BY <2>1, <2>2, <2>3
<1> QED
  BY <1>1, <1>2

(* A query that is within its list keeps the invariant, shown or on its way. *)
LEMMA ShowKeeps ==
    ASSUME ScreenInv, NEW s \in ScreenState, NEW q \in Query, Show(s, q), pages' = pages,
           s.q = scr.q, s.nav = scr.nav, s.got = scr.got, s.of = scr.of,
           s.astray = {} => scr.astray = {} /\ Within(q)
    PROVE  ScreenInv'
<1>1. pages \in [Filters \X Finds -> 1..MaxPages]
  BY DEF ScreenInv
<1>2. CASE s.tr.box = "address"
  <2>1. scr' = [s EXCEPT !.nav = {q}]
    BY <1>2 DEF Show
  <2>2. /\ scr' \in ScreenState /\ scr'.q = s.q /\ scr'.nav = {q} /\ scr'.got = s.got
        /\ scr'.of = s.of /\ scr'.astray = s.astray
    BY <2>1 DEF ScreenState
  <2> QED
    BY <1>1, <2>2 DEF ScreenInv, Within, PagesOf
<1>3. CASE s.tr.box # "address"
  <2>1. scr' = Ask(s, q)
    BY <1>3 DEF Show
  <2>2. /\ scr' \in ScreenState /\ scr'.q = q /\ scr'.nav = s.nav /\ scr'.got \subseteq s.got
        /\ scr'.of = s.of /\ scr'.astray = s.astray
    BY <2>1, AskOK
  <2> QED
    BY <1>1, <2>2 DEF ScreenInv, Within, PagesOf
<1> QED
  BY <1>2, <1>3

LEMMA ScreenStep == ScreenInv /\ [ScreenNext]_screenVars => ScreenInv'
<1> SUFFICES ASSUME ScreenInv, [ScreenNext]_screenVars
             PROVE  ScreenInv'
  OBVIOUS
<1>1. /\ scr \in ScreenState /\ pages \in [Filters \X Finds -> 1..MaxPages]
      /\ scr.q \in Query /\ scr.nav \in SUBSET Query /\ scr.of \in Query
      /\ scr.got \in SUBSET (1..MaxPages) /\ 1 \in 1..MaxPages
  BY ScreenFields, SomePages DEF ScreenInv
<1>2. CASE UNCHANGED screenVars
  BY <1>2 DEF screenVars, ScreenInv, Within, PagesOf
<1>3. ASSUME NEW q \in Query
      PROVE  FirstPage(q) \in Query /\ FirstPage(q).p = 1
  BY <1>1 DEF FirstPage, Query
<1>4. /\ \A x \in Finds : [scr.q EXCEPT !.x = x] \in Query
      /\ \A f \in Filters : [scr.q EXCEPT !.f = f] \in Query /\ [scr.q EXCEPT !.f = f].p = scr.q.p
      /\ \A p \in 1..MaxPages : LET q == [scr.q EXCEPT !.p = p] IN
                                q \in Query /\ q.p = p /\ q.f = scr.q.f /\ q.x = scr.q.x
  BY <1>1 DEF Query
<1>5. ASSUME NEW x \in Finds, Type(x)
      PROVE  ScreenInv'
  <2> DEFINE s == [scr EXCEPT !.box = x]
  <2>1. /\ s \in ScreenState /\ s.q = scr.q /\ s.nav = scr.nav /\ s.got = scr.got
        /\ s.of = scr.of /\ s.astray = scr.astray
    BY <1>1 DEF ScreenState
  <2>2. pages' = pages /\ (scr' = s \/ Show(s, FirstPage([scr.q EXCEPT !.x = x])))
    BY <1>5 DEF Type
  <2> HIDE DEF s
  <2>3. CASE scr' = s
    BY <2>1, <2>2, <2>3 DEF ScreenInv, Within, PagesOf
  <2>4. CASE Show(s, FirstPage([scr.q EXCEPT !.x = x]))
    BY <1>3, <1>4, <2>1, <2>2, <2>4, FirstIsWithin, ShowKeeps
  <2> QED
    BY <2>2, <2>3, <2>4
<1>6. ASSUME Debounce
      PROVE  ScreenInv'
  <2>1. pages' = pages /\ Show(scr, FirstPage([scr.q EXCEPT !.x = scr.box])) /\ scr.box \in Finds
    BY <1>1, <1>6, ScreenFields DEF Debounce
  <2> QED
    BY <1>1, <1>3, <1>4, <2>1, FirstIsWithin, ShowKeeps
<1>7. ASSUME NEW f \in Filters, SetFilter(f)
      PROVE  ScreenInv'
  <2>1. pages' = pages /\ Show(scr, FirstPage([scr.q EXCEPT !.f = f]))
    BY <1>7 DEF SetFilter
  <2> QED
    BY <1>1, <1>3, <1>4, <2>1, FirstIsWithin, ShowKeeps
<1>8. ASSUME NEW f \in Filters, PresetFilter(f)
      PROVE  ScreenInv'
  <2> DEFINE q == [scr.q EXCEPT !.f = f]
             r == Ask(scr, q)
             astray == IF scr.q.p > 1 THEN scr.astray \cup {"preset"} ELSE scr.astray
  <2>1. pages' = pages /\ scr' = [r EXCEPT !.astray = astray]
    <3>1. r.astray = scr.astray
      BY <1>1, <1>4, AskOK
    <3> QED
      BY <1>8, <3>1 DEF PresetFilter
  <2>2. q \in Query /\ q.p = scr.q.p
    BY <1>4
  <2> HIDE DEF q
  <2>3. r \in ScreenState /\ r.q = q /\ r.got \subseteq scr.got /\ r.of = scr.of /\ r.nav = scr.nav
    BY <1>1, <2>2, AskOK
  <2>4. /\ astray \in SUBSET {"preset", "placeholder", "removed"}
        /\ astray = {} => scr.astray = {} /\ q.p = 1
    <3>1. scr.q.p \in 1..MaxPages /\ scr.astray \in SUBSET {"preset", "placeholder", "removed"}
      BY <1>1, ScreenFields DEF Query
    <3> QED
      BY <2>2, <3>1, SomePages
  <2> HIDE DEF r, astray
  <2>5. /\ scr' \in ScreenState /\ scr'.q = q /\ scr'.got \subseteq scr.got /\ scr'.of = scr.of
        /\ scr'.nav = scr.nav /\ scr'.astray = astray
    BY <2>1, <2>3, <2>4 DEF ScreenState
  <2>6. astray = {} => Within(q)
    BY <2>2, <2>4, FirstIsWithin
  <2> QED
    BY <1>1, <2>1, <2>4, <2>5, <2>6 DEF ScreenInv, Within, PagesOf
<1>9. ASSUME Arrive
      PROVE  ScreenInv'
  <2>1. PICK q \in scr.nav : scr' = [Ask(scr, q) EXCEPT !.nav = {}, !.box = IF q.x # scr.q.x THEN q.x ELSE @]
    BY <1>9 DEF Arrive
  <2> DEFINE r == Ask(scr, q)
             box == IF q.x # scr.q.x THEN q.x ELSE r.box
  <2>2. q \in Query /\ q.x \in Finds /\ pages' = pages
    BY <1>1, <1>9 DEF Arrive, Query
  <2>3. r \in ScreenState /\ r.q = q /\ r.got \subseteq scr.got /\ r.of = scr.of /\ r.astray = scr.astray
    BY <1>1, <2>2, AskOK
  <2>4. scr' = [r EXCEPT !.nav = {}, !.box = box]
    BY <2>1, Zenon
  <2>5. box \in Finds
    BY <2>2, <2>3, ScreenFields
  <2> HIDE DEF r, box
  <2>6. /\ scr' \in ScreenState /\ scr'.q = q /\ scr'.got \subseteq scr.got /\ scr'.of = scr.of
        /\ scr'.nav = {} /\ scr'.astray = scr.astray
    BY <2>3, <2>4, <2>5 DEF ScreenState
  <2> QED
    BY <1>1, <2>2, <2>6 DEF ScreenInv, Within, PagesOf
<1>10. ASSUME NEW p \in 1..MaxPages, GoPage(p)
       PROVE  ScreenInv'
  <2> DEFINE astray == IF SameList(scr.of, scr.q) THEN scr.astray ELSE scr.astray \cup {"placeholder"}
             s == [scr EXCEPT !.astray = astray]
             q == [scr.q EXCEPT !.p = p]
  <2>1. pages' = pages /\ Show(s, q)
    BY <1>10, Zenon DEF GoPage
  <2>2. PICK n \in scr.got : p < scr.q.p \/ p <= n
    BY <1>10 DEF GoPage
  <2>3. q \in Query /\ q.p = p /\ q.f = scr.q.f /\ q.x = scr.q.x
    BY <1>4
  <2>4. astray \in SUBSET {"preset", "placeholder", "removed"} /\ (astray = {} => scr.astray = {} /\ SameList(scr.of, scr.q))
    BY <1>1, ScreenFields
  <2> HIDE DEF astray, q
  <2>5. /\ s \in ScreenState /\ s.q = scr.q /\ s.nav = scr.nav /\ s.got = scr.got
        /\ s.of = scr.of /\ s.astray = astray
    BY <1>1, <2>4 DEF ScreenState
  <2> HIDE DEF s
  <2>6. astray = {} => Within(q)
    <3>1. SUFFICES ASSUME astray = {}
                   PROVE  Within(q)
      OBVIOUS
    <3>2. PagesOf(scr.of) = PagesOf(scr.q) /\ PagesOf(q) = PagesOf(scr.q)
      BY <2>3, <2>4, <3>1 DEF SameList, PagesOf
    <3>3. n = PagesOf(scr.q) /\ scr.q.p <= PagesOf(scr.q)
      BY <2>2, <2>4, <3>1, <3>2 DEF ScreenInv, Within
    <3>4. scr.q.p \in 1..MaxPages
      BY <1>1 DEF Query
    <3>5. PagesOf(scr.q) \in 1..MaxPages
      BY <1>1, ListsHavePages
    <3> QED
      BY <2>2, <2>3, <3>2, <3>3, <3>4, <3>5, SomePages DEF Within
  <2> QED
    BY <2>1, <2>3, <2>4, <2>5, <2>6, ShowKeeps
<1>11. ASSUME ListAnswered
       PROVE  ScreenInv'
  <2> DEFINE astray == IF scr.q.p = 1 /\ scr.nav = {} THEN {} ELSE scr.astray
             got == {Here}
  <2>1. pages' = pages /\ scr' = [scr EXCEPT !.got = got, !.of = scr.q, !.busy = FALSE, !.astray = astray]
    BY <1>11, Zenon DEF ListAnswered
  <2>2. got \in SUBSET (1..MaxPages) /\ got = {PagesOf(scr.q)}
    BY <1>1, ListsHavePages DEF Here, PagesOf
  <2>3. /\ astray \in SUBSET {"preset", "placeholder", "removed"}
        /\ astray = {} => scr.astray = {} \/ (scr.q.p = 1 /\ scr.nav = {})
    BY <1>1, ScreenFields
  <2> HIDE DEF astray, got
  <2>4. /\ scr' \in ScreenState /\ scr'.q = scr.q /\ scr'.nav = scr.nav /\ scr'.got = got
        /\ scr'.of = scr.q /\ scr'.astray = astray
    BY <1>1, <2>1, <2>2, <2>3 DEF ScreenState
  <2>5. astray = {} => Within(scr.q) /\ \A q \in scr.nav : Within(q)
    BY <1>1, <2>3, FirstIsWithin DEF ScreenInv
  <2> QED
    BY <1>1, <2>1, <2>2, <2>4, <2>5 DEF ScreenInv, Within, PagesOf
<1>12. ASSUME AskAgain
       PROVE  ScreenInv'
  <2>1. scr' = [scr EXCEPT !.busy = TRUE] /\ pages' = pages
    BY <1>12 DEF AskAgain
  <2>2. /\ scr' \in ScreenState /\ scr'.q = scr.q /\ scr'.nav = scr.nav /\ scr'.got = scr.got
        /\ scr'.of = scr.of /\ scr'.astray = scr.astray
    BY <1>1, <2>1 DEF ScreenState
  <2> QED
    BY <2>1, <2>2 DEF ScreenInv, Within, PagesOf
<1>13. ASSUME RowsGo
       PROVE  ScreenInv'
  <2>1. pages' \in [Filters \X Finds -> 1..MaxPages]
    BY <1>1, <1>13 DEF RowsGo
  <2>2. scr' \in ScreenState /\ scr'.astray # {}
    <3> DEFINE astray == scr.astray \cup {"removed"}
    <3>1. astray \in SUBSET {"preset", "placeholder", "removed"} /\ astray # {}
      BY <1>1, ScreenFields
    <3>2. scr' = [scr EXCEPT !.astray = astray]
      BY <1>13 DEF RowsGo
    <3> HIDE DEF astray
    <3> QED
      BY <1>1, <3>1, <3>2 DEF ScreenState
  <2> QED
    BY <2>1, <2>2 DEF ScreenInv
<1> QED
  BY <1>2, <1>5, <1>6, <1>7, <1>8, <1>9, <1>10, <1>11, <1>12, <1>13 DEF ScreenNext

LEMMA ScreenStart == ScreenInit => ScreenInv
<1> SUFFICES ASSUME ScreenInit
             PROVE  ScreenInv
  OBVIOUS
<1>1. PICK tr \in Screens : scr = NoScreen(tr)
  BY DEF ScreenInit
<1> DEFINE x == ""
<1>2. x \in Finds /\ "all" \in Filters /\ FirstQuery = [f |-> "all", x |-> x, p |-> 1]
  BY ScreenConstants, Zenon DEF FirstQuery
<1>3. scr = [tr |-> tr, box |-> x, q |-> FirstQuery, got |-> {}, of |-> FirstQuery,
             busy |-> TRUE, nav |-> {}, astray |-> {}]
  BY <1>1, Zenon DEF NoScreen
<1> HIDE DEF x
<1>4. FirstQuery \in Query /\ FirstQuery.p = 1
  BY <1>2, SomePages DEF Query
<1>5. /\ scr \in ScreenState /\ scr.q = FirstQuery /\ scr.nav = {} /\ scr.got = {}
  BY <1>2, <1>3, <1>4 DEF ScreenState
<1>6. pages \in [Filters \X Finds -> 1..MaxPages]
  BY DEF ScreenInit
<1>7. Within(FirstQuery)
  BY <1>4, <1>6, ListsHavePages, SomePages DEF Within
<1> QED
  BY <1>5, <1>6, <1>7 DEF ScreenInv

(* The invariant of the list screens.                                      *)
THEOREM ScreenInvariance == ScreenSpec => []ScreenInv
BY ScreenStart, ScreenStep, PTL DEF ScreenSpec

(* A list that has arrived is at a page it has, on every list screen,      *)
(* however typing, pauses, filters, addresses and the pager interleave, or *)
(* one of the listed exceptions came about (setPage(1) with each change of *)
(* the query).                                                             *)
THEOREM PagesExist == ScreenSpec => []PageWithinList
<1>1. ScreenInv => PageWithinList
  BY DEF ScreenInv, PageWithinList, Within, PagesOf, Here
<1> QED
  BY <1>1, ScreenInvariance, PTL

-----------------------------------------------------------------------------
(* Roles and users.  A save that is between its statements has the rows to *)
(* itself, or the rows are spoiled; and a user made inactive who still has *)
(* sessions is in the hands of the request that will end them.             *)

SavePcs == {"idle", "status", "deactivate", "delete", "create", "revoke", "ok", "error"}
SaveRequest == [pc : SavePcs, set : SUBSET Grants, status : {"ACTIVE", "INACTIVE"}]

RequestsAreSound ==
    /\ \A a \in Admins :
          /\ save[a].pc \in {"status", "delete", "create"} => Resolve(save[a].set) \in drafts
          /\ save[a].pc \in {"status", "deactivate", "revoke"} => holder = "user"
    /\ holder = "role" => status = "ACTIVE"
    /\ status = "none" => \A a \in Admins : save[a].pc = "idle" /\ list[a] = {}

RowsAreOneDraft ==
    ~spoiled => /\ (\A a \in Admins : save[a].pc # "create") => rows \in drafts
                /\ \A a \in Admins : save[a].pc = "create" => rows = {} /\ ~Overlapped(a)

(* A request that is going to end the sessions of a user made inactive. *)
EndingSessions(a) == save[a].pc \in {"delete", "create", "revoke"} /\ save[a].status = "INACTIVE"

SessionsAreEnding == status = "INACTIVE" /\ signed /\ ~stray => \E a \in Admins : EndingSessions(a)

AccessInv ==
    /\ save \in [Admins -> SaveRequest] /\ holder \in {"role", "user"}
    /\ RequestsAreSound /\ RowsAreOneDraft /\ SessionsAreEnding

LEMMA PcMoves ==
    ASSUME AccessInv, NEW a \in Admins, NEW pc \in SavePcs, save' = [save EXCEPT ![a].pc = pc]
    PROVE  /\ save' \in [Admins -> SaveRequest] /\ save'[a].pc = pc /\ save'[a].set = save[a].set
           /\ save'[a].status = save[a].status /\ \A b \in Admins \ {a} : save'[b] = save[b]
<1>1. save \in [Admins -> SaveRequest]
  BY DEF AccessInv
<1> DEFINE n == [save[a] EXCEPT !.pc = pc]
<1>2. n \in SaveRequest /\ n.pc = pc /\ n.set = save[a].set /\ n.status = save[a].status
  BY <1>1 DEF SaveRequest
<1>3. save' = [save EXCEPT ![a] = n]
  BY <1>1
<1> HIDE DEF n
<1> QED
  BY <1>1, <1>2, <1>3

LEMMA AccessStep == AccessInv /\ [AccessNext]_accessVars => AccessInv'
<1> SUFFICES ASSUME AccessInv, [AccessNext]_accessVars
             PROVE  AccessInv'
  OBVIOUS
<1>1. save \in [Admins -> SaveRequest] /\ holder \in {"role", "user"}
  BY DEF AccessInv
<1>2. CASE UNCHANGED accessVars
  BY <1>2 DEF accessVars, AccessInv, RequestsAreSound, Resolve, RowsAreOneDraft, Overlapped,
              SessionsAreEnding, EndingSessions
<1>3. ASSUME NEW a \in Admins, LoadRows(a)
      PROVE  AccessInv'
  BY <1>3 DEF LoadRows, sessionVars, AccessInv, RequestsAreSound, Resolve, RowsAreOneDraft,
              Overlapped, SessionsAreEnding, EndingSessions
<1>4. ASSUME NEW a \in Admins, NEW n \in SaveRequest, save' = [save EXCEPT ![a] = n],
             save[a].pc \in {"idle", "ok", "error"},
             UNCHANGED <<holder, status, rows, signed, stray, spoiled>>,
             drafts \subseteq drafts', status # "none",
             n.pc \in {"status", "delete"} => Resolve(n.set) \in drafts',
             n.pc \in {"status", "deactivate"} => holder = "user",
             n.pc \in {"idle", "status", "deactivate", "delete"}
      PROVE  AccessInv'
  <2>1. /\ save' \in [Admins -> SaveRequest] /\ save'[a] = n
        /\ \A b \in Admins \ {a} : save'[b] = save[b]
    BY <1>1, <1>4
  <2>2. RequestsAreSound'
    BY <1>4, <2>1 DEF AccessInv, RequestsAreSound, Resolve
  <2>3. \A b \in Admins : save'[b].pc = "create" <=> save[b].pc = "create"
    BY <1>4, <2>1
  <2>4. RowsAreOneDraft'
    BY <1>4, <2>3 DEF AccessInv, RowsAreOneDraft, Overlapped
  <2>5. SessionsAreEnding'
    BY <1>4, <2>1 DEF AccessInv, SessionsAreEnding, EndingSessions
  <2> QED
    BY <1>1, <1>4, <2>1, <2>2, <2>4, <2>5 DEF AccessInv
<1>5. NoSave \in SaveRequest /\ NoSave.pc = "idle"
  BY DEF NoSave, SaveRequest, SavePcs
<1>6. ASSUME NEW a \in Admins, Saved(a) \/ SaveFailed(a)
      PROVE  AccessInv'
  <2>1. /\ save' = [save EXCEPT ![a] = NoSave] /\ save[a].pc \in {"ok", "error"}
        /\ UNCHANGED <<holder, status, rows, signed, stray, spoiled, drafts>>
    BY <1>6 DEF Saved, SaveFailed, sessionVars
  <2>2. status # "none"
    BY <2>1 DEF AccessInv, RequestsAreSound
  <2> QED
    BY <1>4, <1>5, <2>1, <2>2
<1>7. ASSUME NEW a \in Admins, Deactivate(a)
      PROVE  AccessInv'
  <2> DEFINE n == [pc |-> "deactivate", set |-> {}, status |-> "INACTIVE"]
  <2>1. n \in SaveRequest /\ n.pc = "deactivate"
    BY DEF SaveRequest, SavePcs
  <2>2. /\ save' = [save EXCEPT ![a] = n] /\ save[a].pc = "idle" /\ holder = "user" /\ status # "none"
        /\ UNCHANGED <<holder, status, rows, signed, stray, spoiled, drafts>>
    BY <1>7 DEF Deactivate, sessionVars
  <2> HIDE DEF n
  <2> QED
    BY <1>4, <2>1, <2>2
<1>8. ASSUME NEW a \in Admins, NEW draft \in SUBSET Grants, NEW s \in {"ACTIVE", "INACTIVE"}, SaveForm(a, draft, s)
      PROVE  AccessInv'
  <2> DEFINE pc == IF holder = "user" THEN "status" ELSE "delete"
             n == [pc |-> pc, set |-> draft, status |-> s]
  <2>1. pc \in {"status", "delete"} /\ (pc = "status" => holder = "user")
    OBVIOUS
  <2>2. save' = [save EXCEPT ![a] = n]
    BY <1>8, Zenon DEF SaveForm
  <2> HIDE DEF pc
  <2>3. n \in SaveRequest /\ n.pc = pc /\ n.set = draft
    BY <2>1 DEF SaveRequest, SavePcs
  <2>4. /\ save[a].pc = "idle" /\ drafts' = drafts \cup {Resolve(draft)} /\ list[a] # {}
        /\ UNCHANGED <<holder, status, rows, signed, stray, spoiled>>
    BY <1>8 DEF SaveForm, MaySave, sessionVars
  <2>5. status # "none"
    BY <2>4 DEF AccessInv, RequestsAreSound
  <2> HIDE DEF n
  <2> QED
    BY <1>4, <2>1, <2>2, <2>3, <2>4, <2>5
<1>9. ASSUME NEW set \in SUBSET Grants, CreateUser(set)
      PROVE  AccessInv'
  <2>1. /\ status = "none" /\ status' = "ACTIVE" /\ rows' \in drafts'
        /\ UNCHANGED <<holder, list, save, signed, stray, spoiled>>
    BY <1>9 DEF CreateUser, sessionVars
  <2>2. \A a \in Admins : save'[a].pc = "idle"
    BY <2>1 DEF AccessInv, RequestsAreSound
  <2> QED
    BY <1>1, <2>1, <2>2 DEF AccessInv, RequestsAreSound, RowsAreOneDraft, SessionsAreEnding
<1>10. ASSUME NEW a \in Admins, WriteStatus(a)
       PROVE  AccessInv'
  <2> DEFINE pc == IF save[a].pc = "status" THEN "delete" ELSE "revoke"
  <2>1. /\ save[a].pc \in {"status", "deactivate"} /\ status' = save[a].status
        /\ UNCHANGED <<holder, rows, list, signed, stray, drafts, spoiled>>
    BY <1>10 DEF WriteStatus, sessionVars
  <2>2. save' = [save EXCEPT ![a].pc = pc]
    BY <1>1, <1>10, Zenon DEF WriteStatus
  <2>3. pc \in {"delete", "revoke"} /\ pc \in SavePcs /\ (pc = "delete" => save[a].pc = "status")
    BY <2>1 DEF SavePcs
  <2> HIDE DEF pc
  <2>4. /\ save' \in [Admins -> SaveRequest] /\ save'[a].pc = pc /\ save'[a].set = save[a].set
        /\ save'[a].status = save[a].status /\ \A b \in Admins \ {a} : save'[b] = save[b]
    BY <2>2, <2>3, PcMoves
  <2>5. status' \in {"ACTIVE", "INACTIVE"} /\ holder = "user"
    BY <1>1, <2>1 DEF AccessInv, RequestsAreSound, SaveRequest
  <2>6. RequestsAreSound'
    BY <2>1, <2>3, <2>4, <2>5 DEF AccessInv, RequestsAreSound, Resolve
  <2>7. \A b \in Admins : save'[b].pc = "create" <=> save[b].pc = "create"
    BY <2>1, <2>3, <2>4
  <2>8. RowsAreOneDraft'
    BY <2>1, <2>7 DEF AccessInv, RowsAreOneDraft, Overlapped
  <2>9. SessionsAreEnding'
    BY <2>1, <2>3, <2>4 DEF AccessInv, SessionsAreEnding, EndingSessions
  <2> QED
    BY <1>1, <2>1, <2>4, <2>6, <2>8, <2>9 DEF AccessInv
<1>11. ASSUME NEW a \in Admins, DeleteRows(a)
       PROVE  AccessInv'
  <2>1. /\ save[a].pc = "delete" /\ rows' = {} /\ save' = [save EXCEPT ![a].pc = "create"]
        /\ spoiled' = (spoiled \/ Overlapped(a))
        /\ UNCHANGED <<holder, status, list, signed, stray, drafts>>
    BY <1>11 DEF DeleteRows, DeleteAll, sessionVars
  <2>2. /\ save' \in [Admins -> SaveRequest] /\ save'[a].pc = "create" /\ save'[a].set = save[a].set
        /\ save'[a].status = save[a].status /\ \A b \in Admins \ {a} : save'[b] = save[b]
    BY <2>1, PcMoves DEF SavePcs
  <2>3. RequestsAreSound'
    <3>1. status # "none" /\ Resolve(save[a].set) \in drafts
      BY <2>1 DEF AccessInv, RequestsAreSound
    <3>2. Resolve(save[a].set)' \in drafts'
      BY <2>1, <2>2, <3>1 DEF Resolve
    <3>3. \A b \in Admins \ {a} : save'[b] = save[b] /\ Resolve(save[b].set)' = Resolve(save[b].set)
      BY <2>1, <2>2 DEF Resolve
    <3> QED
      BY <2>1, <2>2, <3>1, <3>2, <3>3 DEF AccessInv, RequestsAreSound
  <2>4. RowsAreOneDraft'
    BY <2>1, <2>2 DEF RowsAreOneDraft, Overlapped
  <2>5. SessionsAreEnding'
    BY <2>1, <2>2 DEF AccessInv, SessionsAreEnding, EndingSessions
  <2> QED
    BY <1>1, <2>1, <2>2, <2>3, <2>4, <2>5 DEF AccessInv
<1>12. ASSUME NEW a \in Admins, CreateRows(a)
       PROVE  AccessInv'
  <2> DEFINE set == Resolve(save[a].set)
             clash == rows \cap set # {}
             pc == IF clash THEN "error" ELSE IF EndsSessions(a) THEN "revoke" ELSE "ok"
  <2>1. /\ save[a].pc = "create" /\ UNCHANGED <<holder, status, list, signed, drafts>>
        /\ rows' = IF clash THEN rows ELSE rows \cup set
        /\ spoiled' = (spoiled /\ (clash \/ Overlapped(a) \/ rows # {}))
        /\ stray' = (stray \/ (clash /\ EndsSessions(a)))
    BY <1>12 DEF CreateRows
  <2>2. save' = [save EXCEPT ![a].pc = pc]
    BY <1>12, Zenon DEF CreateRows
  <2>3. /\ pc \in SavePcs /\ pc \in {"error", "revoke", "ok"} /\ (pc = "revoke" => holder = "user")
        /\ EndsSessions(a) => pc = "revoke" \/ clash
    BY DEF SavePcs, EndsSessions
  <2>4. set \in drafts
    BY <2>1 DEF AccessInv, RequestsAreSound
  <2>5. ~clash /\ rows = {} => rows' = set
    BY <2>1
  <2> HIDE DEF pc, set, clash
  <2>6. /\ save' \in [Admins -> SaveRequest] /\ save'[a].pc = pc /\ save'[a].set = save[a].set
        /\ save'[a].status = save[a].status /\ \A b \in Admins \ {a} : save'[b] = save[b]
    BY <2>2, <2>3, PcMoves
  <2>7. RequestsAreSound'
    BY <2>1, <2>3, <2>6 DEF AccessInv, RequestsAreSound, Resolve
  <2>8. RowsAreOneDraft'
    <3>1. SUFFICES ASSUME ~spoiled'
                   PROVE  rows' \in drafts /\ \A b \in Admins : save'[b].pc # "create"
      BY <2>1 DEF RowsAreOneDraft
    <3>2. ~Overlapped(a) /\ ~clash /\ rows = {}
      <4>1. CASE spoiled
        BY <2>1, <3>1, <4>1
      <4>2. CASE ~spoiled
        BY <2>1, <4>2 DEF AccessInv, RowsAreOneDraft, clash
      <4> QED
        BY <4>1, <4>2
    <3> QED
      BY <2>3, <2>4, <2>5, <2>6, <3>2 DEF Overlapped
  <2>9. SessionsAreEnding'
    <3>1. SUFFICES ASSUME status = "INACTIVE", signed, ~stray'
                   PROVE  \E b \in Admins : EndingSessions(b)'
      BY <2>1 DEF SessionsAreEnding
    <3>2. PICK b \in Admins : EndingSessions(b)
      BY <2>1, <3>1 DEF AccessInv, SessionsAreEnding
    <3>3. CASE b = a
      <4>1. holder = "user" /\ EndsSessions(a)
        BY <1>1, <3>1, <3>2, <3>3 DEF AccessInv, RequestsAreSound, EndsSessions, EndingSessions
      <4>2. pc = "revoke"
        BY <2>1, <2>3, <3>1, <4>1
      <4> QED
        BY <2>6, <3>2, <3>3, <4>2 DEF EndingSessions
    <3>4. CASE b # a
      BY <2>6, <3>2, <3>4 DEF EndingSessions
    <3> QED
      BY <3>3, <3>4
  <2> QED
    BY <1>1, <2>1, <2>6, <2>7, <2>8, <2>9 DEF AccessInv
<1>13. ASSUME NEW a \in Admins, RevokeSessions(a)
       PROVE  AccessInv'
  <2>1. /\ save[a].pc = "revoke" /\ signed' = FALSE /\ save' = [save EXCEPT ![a].pc = "ok"]
        /\ UNCHANGED <<holder, status, rows, list, drafts, spoiled>>
    BY <1>13 DEF RevokeSessions
  <2>2. /\ save' \in [Admins -> SaveRequest] /\ save'[a].pc = "ok" /\ save'[a].set = save[a].set
        /\ save'[a].status = save[a].status /\ \A b \in Admins \ {a} : save'[b] = save[b]
    BY <2>1, PcMoves DEF SavePcs
  <2>3. RequestsAreSound'
    BY <2>1, <2>2 DEF AccessInv, RequestsAreSound, Resolve
  <2>4. \A b \in Admins : save'[b].pc = "create" <=> save[b].pc = "create"
    BY <2>1, <2>2
  <2>5. RowsAreOneDraft'
    BY <2>1, <2>4 DEF AccessInv, RowsAreOneDraft, Overlapped
  <2>6. SessionsAreEnding'
    BY <2>1 DEF SessionsAreEnding
  <2> QED
    BY <1>1, <2>1, <2>2, <2>3, <2>5, <2>6 DEF AccessInv
<1>14. ASSUME NEW a \in Admins, RequestDies(a)
       PROVE  AccessInv'
  <2>1. /\ save[a].pc \in {"status", "delete", "create", "revoke"} /\ save' = [save EXCEPT ![a].pc = "error"]
        /\ spoiled' = (spoiled \/ save[a].pc = "create")
        /\ stray' = (stray \/ (save[a].pc # "status" /\ EndsSessions(a)))
        /\ UNCHANGED <<holder, status, rows, list, signed, drafts>>
    BY <1>14 DEF RequestDies
  <2>2. /\ save' \in [Admins -> SaveRequest] /\ save'[a].pc = "error" /\ save'[a].set = save[a].set
        /\ save'[a].status = save[a].status /\ \A b \in Admins \ {a} : save'[b] = save[b]
    BY <2>1, PcMoves DEF SavePcs
  <2>3. RequestsAreSound'
    BY <2>1, <2>2 DEF AccessInv, RequestsAreSound, Resolve
  <2>4. RowsAreOneDraft'
    <3>1. SUFFICES ASSUME ~spoiled'
                   PROVE  RowsAreOneDraft'
      BY DEF RowsAreOneDraft
    <3>2. \A b \in Admins : save'[b].pc = "create" <=> save[b].pc = "create"
      BY <2>1, <2>2, <3>1
    <3> QED
      BY <2>1, <3>1, <3>2 DEF AccessInv, RowsAreOneDraft, Overlapped
  <2>5. SessionsAreEnding'
    <3>1. SUFFICES ASSUME status = "INACTIVE", signed, ~stray'
                   PROVE  \E b \in Admins : EndingSessions(b)'
      BY <2>1 DEF SessionsAreEnding
    <3>2. PICK b \in Admins : EndingSessions(b)
      BY <2>1, <3>1 DEF AccessInv, SessionsAreEnding
    <3>3. b # a
      BY <1>1, <2>1, <3>1, <3>2 DEF AccessInv, RequestsAreSound, EndsSessions, EndingSessions
    <3> QED
      BY <2>2, <3>2, <3>3 DEF EndingSessions
  <2> QED
    BY <1>1, <2>1, <2>2, <2>3, <2>4, <2>5 DEF AccessInv
<1>15. ASSUME LookAtStatus \/ CreateSession
       PROVE  AccessInv'
  <2>1. /\ UNCHANGED <<holder, status, rows, list, save, drafts, spoiled>>
        /\ UNCHANGED <<signed, stray>> \/ (stray' = (stray \/ status # "ACTIVE"))
    BY <1>15 DEF LookAtStatus, CreateSession
  <2>2. RequestsAreSound' /\ RowsAreOneDraft'
    BY <2>1 DEF AccessInv, RequestsAreSound, Resolve, RowsAreOneDraft, Overlapped
  <2>3. SessionsAreEnding'
    BY <2>1 DEF AccessInv, SessionsAreEnding, EndingSessions
  <2> QED
    BY <1>1, <2>1, <2>2, <2>3 DEF AccessInv
<1> QED
  BY <1>2, <1>3, <1>6, <1>7, <1>8, <1>9, <1>10, <1>11, <1>12, <1>13, <1>14, <1>15 DEF AccessNext

LEMMA AccessStart == AccessInit => AccessInv
<1> SUFFICES ASSUME AccessInit
             PROVE  AccessInv
  OBVIOUS
<1>1. NoSave \in SaveRequest /\ NoSave.pc = "idle"
  BY DEF NoSave, SaveRequest, SavePcs
<1>2. save = [a \in Admins |-> NoSave] /\ holder \in {"role", "user"} /\ drafts = {rows}
  BY DEF AccessInit
<1>3. save \in [Admins -> SaveRequest] /\ \A a \in Admins : save[a].pc = "idle"
  BY <1>1, <1>2
<1>4. /\ holder = "role" => status = "ACTIVE"
      /\ \A a \in Admins : list[a] = {}
      /\ signed => status = "ACTIVE"
  BY DEF AccessInit
<1> QED
  BY <1>2, <1>3, <1>4 DEF AccessInv, RequestsAreSound, RowsAreOneDraft, SessionsAreEnding

(* The invariant of roles and users.                                       *)
THEOREM AccessInvariance == AccessSpec => []AccessInv
BY AccessStart, AccessStep, PTL DEF AccessSpec

(* What an admin saved is what holds, for any number of admins and grants: *)
(* the rows of a role or a user are one draft that was saved, and a user   *)
(* made inactive has no session left, save for the listed exceptions       *)
(* (updateRole, UsersService.update and deactivate, AuthService.login).    *)
THEOREM GrantsAsSaved == AccessSpec => []AccessIsAsSaved
<1>1. AccessInv => AccessIsAsSaved
  BY DEF AccessInv, RowsAreOneDraft, SessionsAreEnding, EndingSessions, AccessIsAsSaved,
         GrantsAreOneDraft, InactiveHasNoSession
<1> QED
  BY <1>1, AccessInvariance, PTL

-----------------------------------------------------------------------------
(* The dashboard.  Every answer the page keeps was put together by one     *)
(* request, whose queries saw tables of the moments it lasted; that its    *)
(* figures add up is a fact about counting, once the wards among them are  *)
(* wards and, for the figures of one moment, all tables are the same.      *)

Town == [homes  : [Homes -> [ward : Filterable, st : Kept \cup {"none", "DELETED"}]],
         coins  : [Coins -> [ward : Filterable, mode : Modes,
                             st : {"none", "PENDING", "SUCCESS", "FAILED"}]],
         rated  : SUBSET DashWards,
         active : SUBSET DashWards]

FiguresInv ==
    /\ now \in Town
    /\ chosen \in Filterable /\ DOMAIN figures = Filterable
    /\ moments \in [Filterable -> SUBSET Town]
    /\ \A f \in Filterable : /\ moments[f] # {} => now \in moments[f]
                             /\ IsFiniteSet(moments[f])
                             /\ Cardinality(moments[f]) <= MaxMoments
    /\ SummaryAddsUp

(* The wards of an answer for a filter. *)
Listed(f, W) == W \subseteq DashWards /\ \A w \in W : f \in {Whole, w}

LEMMA ListedFinite ==
    ASSUME NEW f, NEW W, Listed(f, W)
    PROVE  /\ IsFiniteSet(W)
           /\ f # Whole /\ f \in W => W = {f}
<1>1. IsFiniteSet(W)
  BY FigureConstants, FS_Subset DEF Listed
<1> QED
  BY <1>1 DEF Listed

(* Money taken online and money taken at the counter are all the money. *)
LEMMA TakenByMode ==
    ASSUME NEW coins, NEW f
    PROVE  /\ IsFiniteSet(Taken(coins, f, Modes))
           /\ Cardinality(Taken(coins, f, {"ONLINE"})) \in Nat
           /\ Cardinality(Taken(coins, f, Offline)) \in Nat
           /\ Cardinality(Taken(coins, f, Modes))
                = Cardinality(Taken(coins, f, {"ONLINE"})) + Cardinality(Taken(coins, f, Offline))
<1> DEFINE on  == Taken(coins, f, {"ONLINE"})
           off == Taken(coins, f, Offline)
           all == Taken(coins, f, Modes)
<1>1. all = on \cup off /\ on \cap off = {}
  BY DEF Taken, Modes, Offline
<1>2. on \subseteq Coins /\ off \subseteq Coins
  BY DEF Taken
<1> HIDE DEF on, off, all
<1>3. IsFiniteSet(on) /\ IsFiniteSet(off)
  BY <1>2, FigureConstants, FS_Subset
<1>4. IsFiniteSet(on \cup off)
      /\ Cardinality(on \cup off) = Cardinality(on) + Cardinality(off) - Cardinality(on \cap off)
  BY <1>3, FS_Union
<1>5. Cardinality(on \cap off) = 0
  BY <1>1, FS_EmptySet
<1>6. Cardinality(on) \in Nat /\ Cardinality(off) \in Nat
  BY <1>3, FS_CardinalityType
<1> QED
  BY <1>1, <1>4, <1>5, <1>6 DEF on, off, all

(* The surveys of the wards of an answer are surveys it counts. *)
LEMMA HomesByWard ==
    ASSUME NEW homes, NEW f, NEW W, Listed(f, W), NEW n,
           \A w \in W : n[w] = Cardinality(HomesOf(homes, w))
    PROVE  /\ SumOver(n, W) <= Cardinality(HomesOf(homes, f))
           /\ f # Whole /\ f \in W => SumOver(n, W) = Cardinality(HomesOf(homes, f))
<1> DEFINE p == [w \in W |-> HomesOf(homes, w)]
           all == Together(p, W)
<1>1. IsFiniteSet(W) /\ Whole \notin W
  BY ListedFinite, FigureConstants DEF Listed
<1>2. \A w \in W : IsFiniteSet(p[w]) /\ n[w] = Cardinality(p[w])
  BY FigureConstants, FS_Subset DEF HomesOf
<1>3. \A v, w \in W : v # w => p[v] \cap p[w] = {}
  BY <1>1 DEF HomesOf
<1>4. all \subseteq HomesOf(homes, f)
  BY <1>1 DEF HomesOf, Listed, Together
<1>5. f # Whole /\ f \in W => all = HomesOf(homes, f)
  BY ListedFinite DEF Together
<1>6. IsFiniteSet(HomesOf(homes, f))
  BY FigureConstants, FS_Subset DEF HomesOf
<1>p. Divided(p, n, W)
  BY <1>1, <1>2, <1>3 DEF Divided
<1> HIDE DEF p
<1>7. SumOver(n, W) = Cardinality(all)
  BY <1>p, CountByParts
<1> HIDE DEF all
<1>8. Cardinality(all) <= Cardinality(HomesOf(homes, f))
  BY <1>4, <1>6, FS_Subset
<1> QED
  BY <1>5, <1>7, <1>8

(* The money of the wards of an answer is money it counts. *)
LEMMA TakenByWard ==
    ASSUME NEW coins, NEW f, NEW W, Listed(f, W), NEW n,
           \A w \in W : n[w] = Cardinality(Taken(coins, w, Modes))
    PROVE  /\ SumOver(n, W) <= Cardinality(Taken(coins, f, Modes))
           /\ f # Whole /\ f \in W => SumOver(n, W) = Cardinality(Taken(coins, f, Modes))
<1> DEFINE p == [w \in W |-> Taken(coins, w, Modes)]
           all == Together(p, W)
<1>1. IsFiniteSet(W) /\ Whole \notin W
  BY ListedFinite, FigureConstants DEF Listed
<1>2. \A w \in W : IsFiniteSet(p[w]) /\ n[w] = Cardinality(p[w])
  BY TakenByMode
<1>3. \A v, w \in W : v # w => p[v] \cap p[w] = {}
  BY <1>1 DEF Taken
<1>4. all \subseteq Taken(coins, f, Modes)
  BY <1>1 DEF Taken, Listed, Together
<1>5. f # Whole /\ f \in W => all = Taken(coins, f, Modes)
  BY ListedFinite DEF Together
<1>6. IsFiniteSet(Taken(coins, f, Modes))
  BY TakenByMode
<1>p. Divided(p, n, W)
  BY <1>1, <1>2, <1>3 DEF Divided
<1> HIDE DEF p
<1>7. SumOver(n, W) = Cardinality(all)
  BY <1>p, CountByParts
<1> HIDE DEF all
<1>8. Cardinality(all) <= Cardinality(Taken(coins, f, Modes))
  BY <1>4, <1>6, FS_Subset
<1> QED
  BY <1>5, <1>7, <1>8

(* Every kept survey has one status. *)
LEMMA HomesByStatus ==
    ASSUME NEW homes, NEW f, NEW n,
           \A st \in Kept : n[st] = Cardinality({h \in HomesOf(homes, f) : homes[h].st = st})
    PROVE  SumOver(n, Kept) = Cardinality(HomesOf(homes, f))
<1> DEFINE p == [st \in Kept |-> {h \in HomesOf(homes, f) : homes[h].st = st}]
           all == Together(p, Kept)
<1>1. IsFiniteSet(Kept)
  <2>1. IsFiniteSet({"DRAFT"} \cup {"ACTIVE"}) /\ IsFiniteSet({"ARCHIVED"})
    BY FS_Singleton, FS_Union
  <2>2. IsFiniteSet(({"DRAFT"} \cup {"ACTIVE"}) \cup {"ARCHIVED"})
    BY <2>1, FS_Union
  <2>3. Kept = ({"DRAFT"} \cup {"ACTIVE"}) \cup {"ARCHIVED"}
    BY DEF Kept
  <2> QED
    BY <2>2, <2>3
<1>2. \A st \in Kept : IsFiniteSet(p[st]) /\ n[st] = Cardinality(p[st])
  <2>1. \A st \in Kept : p[st] \subseteq Homes
    BY DEF HomesOf
  <2> QED
    BY <2>1, FigureConstants, FS_Subset
<1>3. \A s, t \in Kept : s # t => p[s] \cap p[t] = {}
  OBVIOUS
<1>4. all = HomesOf(homes, f)
  BY DEF HomesOf, Together
<1>p. Divided(p, n, Kept)
  BY <1>1, <1>2, <1>3 DEF Divided
<1> HIDE DEF p
<1>5. SumOver(n, Kept) = Cardinality(all)
  BY <1>p, CountByParts
<1> HIDE DEF all
<1> QED
  BY <1>4, <1>5

(* All tables of a request nobody interfered with. *)
OneMoment(at) ==
    /\ at.count = at.statuses /\ at.count = at.byWard /\ at.count = at.taxSurveys
    /\ at.collected = at.online /\ at.collected = at.offline /\ at.collected = at.paymentsByWard

(* What getSummary answers adds up. *)
LEMMA AnswerAddsUp ==
    ASSUME NEW f, NEW at, at.wards \subseteq DashWards, NEW still \in BOOLEAN,
           still => OneMoment(at)
    PROVE  AddsUp(f, Summary(f, at, still))
<1> DEFINE W       == {v \in at.wards : f \in {Whole, v}}
           cards   == [w \in W |-> Card(at, w)]
           done    == {w \in W : cards[w].done}
           g       == Summary(f, at, still)
           counts   == [w \in W |-> cards[w].count]
           money   == [w \in W |-> cards[w].online + cards[w].offline]
           tax     == [w \in W |-> cards[w].tax]
<1>1. Listed(f, W) /\ IsFiniteSet(W)
  <2>1. Listed(f, W)
    BY DEF Listed
  <2> HIDE DEF W
  <2> QED
    BY <2>1, ListedFinite
<1>2. \A w \in W :
        /\ cards[w].count = Cardinality(HomesOf(at.byWard, w))
        /\ cards[w].online = Cardinality(Taken(at.paymentsByWard, w, {"ONLINE"}))
        /\ cards[w].offline = Cardinality(Taken(at.paymentsByWard, w, Offline))
        /\ cards[w].tax = IF w \in at.configs THEN Cardinality(HomesOf(at.taxSurveys, w)) ELSE 0
        /\ cards[w].done = (cards[w].count > 0)
  BY DEF Card
<1>3. /\ g.cards = cards /\ DOMAIN cards = W
      /\ g.homes = Cardinality(HomesOf(at.count, f))
      /\ g.byStatus = [st \in Kept |->
                         Cardinality({h \in HomesOf(at.statuses, f) : at.statuses[h].st = st})]
      /\ g.collected = Cardinality(Taken(at.collected, f, Modes))
      /\ g.online = Cardinality(Taken(at.online, f, {"ONLINE"}))
      /\ g.offline = Cardinality(Taken(at.offline, f, Offline))
      /\ g.surveyed = Cardinality(done) /\ g.remaining = Cardinality(W \ done)
      /\ g.tax = Added(tax) /\ g.still = still
  BY DEF Summary
<1>4. \A w \in W : cards[w].count \in Nat
  <2>1. \A w \in W : HomesOf(at.byWard, w) \subseteq Homes
    BY DEF HomesOf
  <2>2. \A w \in W : IsFiniteSet(HomesOf(at.byWard, w))
    BY <2>1, FigureConstants, FS_Subset
  <2>3. \A w \in W : Cardinality(HomesOf(at.byWard, w)) \in Nat
    BY <2>2, FS_CardinalityType
  <2> QED
    BY <1>2, <2>3
<1>5. /\ Added(counts) = SumOver(counts, W)
      /\ Added(money) = SumOver(money, W)
      /\ Added(tax) = SumOver(tax, W)
  BY DEF Added, SumOver
<1>6. /\ StatisticsShown(g)[1] = Cardinality(W)
      /\ StatisticsShown(g)[2] = Cardinality({w \in W : cards[w].count > 0})
  <2>1. done = {w \in W : cards[w].count > 0}
    BY <1>2
  <2>2. done \subseteq W
    OBVIOUS
  <2>3. StatisticsShown(g) = <<g.surveyed + g.remaining, g.surveyed, g.remaining, g.homes>>
    BY DEF StatisticsShown
  <2> HIDE DEF done, W, g, cards
  <2>4. IsFiniteSet(done) /\ W \cap done = done
    BY <1>1, <2>2, FS_Subset
  <2>5. Cardinality(W \ done) = Cardinality(W) - Cardinality(W \cap done)
    BY <1>1, FS_Difference
  <2>6. Cardinality(W) \in Nat /\ Cardinality(done) \in Nat
    BY <1>1, <2>4, FS_CardinalityType
  <2>7. g.surveyed = Cardinality(done) /\ g.remaining = Cardinality(W \ done)
    BY <1>3
  <2>8. g.surveyed + g.remaining = Cardinality(W)
    BY <2>4, <2>5, <2>6, <2>7
  <2>9. StatisticsShown(g)[1] = g.surveyed + g.remaining /\ StatisticsShown(g)[2] = g.surveyed
    BY <2>3
  <2> QED
    BY <2>1, <2>7, <2>8, <2>9
<1> HIDE DEF W, cards, done
<1>7. ASSUME still
      PROVE  /\ g.homes = Added(g.byStatus)
             /\ g.collected = g.online + g.offline
             /\ Added(counts) <= g.homes /\ Added(money) <= g.collected
             /\ g.tax <= Added(counts)
             /\ f # Whole /\ f \in W => Added(counts) = g.homes /\ Added(money) = g.collected
  <2> HIDE DEF g
  <2>1. OneMoment(at)
    BY <1>7
  <2>2. g.homes = Added(g.byStatus)
    <3> DEFINE n == [st \in Kept |->
                       Cardinality({h \in HomesOf(at.count, f) : at.count[h].st = st})]
    <3>1. g.byStatus = n /\ DOMAIN n = Kept
      BY <1>3, <2>1 DEF OneMoment
    <3>2. \A st \in Kept : n[st] = Cardinality({h \in HomesOf(at.count, f) : at.count[h].st = st})
      OBVIOUS
    <3> HIDE DEF n
    <3>3. SumOver(n, Kept) = Cardinality(HomesOf(at.count, f))
      BY <3>2, HomesByStatus
    <3>4. Added(g.byStatus) = SumOver(n, Kept)
      BY <3>1 DEF Added, SumOver
    <3> QED
      BY <1>3, <3>3, <3>4
  <2>3. g.collected = g.online + g.offline
    BY <1>3, <2>1, TakenByMode DEF OneMoment
  <2>4. /\ Added(counts) <= g.homes
        /\ f # Whole /\ f \in W => Added(counts) = g.homes
    <3>1. \A w \in W : counts[w] = Cardinality(HomesOf(at.count, w))
      BY <1>2, <2>1 DEF OneMoment
    <3> HIDE DEF counts
    <3> QED
      BY <1>1, <1>3, <1>5, <3>1, HomesByWard
  <2>5. /\ Added(money) <= g.collected
        /\ f # Whole /\ f \in W => Added(money) = g.collected
    <3>1. \A w \in W : money[w] = Cardinality(Taken(at.collected, w, Modes))
      BY <1>2, <2>1, TakenByMode DEF OneMoment
    <3> HIDE DEF money
    <3> QED
      BY <1>1, <1>3, <1>5, <3>1, TakenByWard
  <2>6. g.tax <= Added(counts)
    <3>1. \A w \in W : tax[w] \in Int /\ counts[w] \in Int /\ tax[w] <= counts[w]
      BY <1>2, <1>4, <2>1 DEF OneMoment
    <3> HIDE DEF tax, counts
    <3> QED
      BY <1>1, <1>3, <1>5, <3>1, SumOrder
  <2> QED
    BY <2>2, <2>3, <2>4, <2>5, <2>6
<1> HIDE DEF counts, money, tax, g
<1>8. /\ counts = [w \in DOMAIN cards |-> cards[w].count]
      /\ money = [w \in DOMAIN cards |-> cards[w].online + cards[w].offline]
      /\ tax = [w \in DOMAIN cards |-> cards[w].tax]
  BY <1>3 DEF counts, money, tax
<1>9. AddsUp(f, g)
  BY <1>3, <1>6, <1>7, <1>8 DEF AddsUp, CardsShown, TaxShown
<1> QED
  BY <1>9 DEF g


(* What others write, and what a request sees of it. *)
LEMMA WriteKeeps ==
    ASSUME FiguresInv, NEW written \in Town, Write(written)
    PROVE  FiguresInv'
<1>1. now' = written /\ figures' = figures /\ chosen' = chosen
  BY DEF Write
<1>2. ASSUME NEW f \in Filterable
      PROVE  /\ moments'[f] \in SUBSET Town
             /\ moments'[f] # {} => written \in moments'[f]
             /\ IsFiniteSet(moments'[f])
             /\ Cardinality(moments'[f]) <= MaxMoments
  <2>1. /\ moments'[f] = (IF moments[f] = {} THEN {} ELSE moments[f] \cup {written})
        /\ Cardinality(moments[f]) < MaxMoments
    BY DEF Write
  <2>2. moments[f] \in SUBSET Town /\ IsFiniteSet(moments[f])
    BY DEF FiguresInv
  <2>3. Cardinality(moments[f]) \in Nat
    BY <2>2, FS_CardinalityType
  <2>4. /\ IsFiniteSet(moments[f] \cup {written})
        /\ Cardinality(moments[f] \cup {written}) <= Cardinality(moments[f]) + 1
    <3>1. /\ IsFiniteSet(moments[f] \cup {written})
          /\ Cardinality(moments[f] \cup {written})
               = IF written \in moments[f] THEN Cardinality(moments[f]) ELSE Cardinality(moments[f]) + 1
      BY <2>2, FS_AddElement
    <3> QED
      BY <2>3, <3>1
  <2>5. CASE moments[f] = {}
    BY <2>1, <2>2, <2>3, <2>5, FigureConstants
  <2>6. CASE moments[f] # {}
    <3> DEFINE more == moments[f] \cup {written}
    <3>1. moments'[f] = more
      BY <2>1, <2>6
    <3>2. written \in more /\ more \in SUBSET Town
      BY <2>2
    <3>3. MaxMoments \in Nat
      BY FigureConstants
    <3> HIDE DEF more
    <3>4. IsFiniteSet(more) /\ Cardinality(more) \in Nat
      BY <2>4, FS_CardinalityType DEF more
    <3>5. Cardinality(more) <= Cardinality(moments[f]) + 1
      BY <2>4 DEF more
    <3>6. Cardinality(more) <= MaxMoments
      BY <2>1, <2>3, <3>3, <3>4, <3>5
    <3> QED
      BY <3>1, <3>2, <3>4, <3>6
  <2> QED
    BY <2>5, <2>6
<1>3. moments' \in [Filterable -> SUBSET Town]
  <2>1. moments' = [f \in Filterable |-> moments'[f]]
    BY DEF Write
  <2> QED
    BY <1>2, <2>1
<1>4. SummaryAddsUp'
  BY <1>1 DEF FiguresInv, SummaryAddsUp
<1> QED
  BY <1>1, <1>2, <1>3, <1>4 DEF FiguresInv

LEMMA FiguresStep == FiguresInv /\ [FiguresNext]_figureVars => FiguresInv'
<1> SUFFICES ASSUME FiguresInv, [FiguresNext]_figureVars
             PROVE  FiguresInv'
  OBVIOUS
<1>1. now \in Town
  BY DEF FiguresInv
<1>2. ASSUME NEW f \in Filterable, ChooseWard(f)
      PROVE  FiguresInv'
  <2>1. now' = now /\ figures' = figures /\ chosen' = f
    BY <1>2 DEF ChooseWard
  <2>2. moments' = [moments EXCEPT ![f] = IF moments[f] = {} THEN {now} ELSE moments[f]]
    BY <1>2 DEF ChooseWard
  <2>3. IsFiniteSet({now}) /\ Cardinality({now}) = 1
    BY FS_Singleton
  <2>4. moments \in [Filterable -> SUBSET Town]
    BY DEF FiguresInv
  <2>5. moments' \in [Filterable -> SUBSET Town]
    BY <1>1, <2>2, <2>4
  <2>6. ASSUME NEW k \in Filterable
        PROVE  /\ moments'[k] # {} => now \in moments'[k]
               /\ IsFiniteSet(moments'[k])
               /\ Cardinality(moments'[k]) <= MaxMoments
    <3>1. moments'[k] = moments[k] \/ moments'[k] = {now}
      BY <2>2, <2>4
    <3>2. 1 <= MaxMoments
      BY FigureConstants
    <3> QED
      BY <2>3, <3>1, <3>2 DEF FiguresInv
  <2> QED
    BY <2>1, <2>5, <2>6 DEF FiguresInv, SummaryAddsUp
<1>3. ASSUME NEW f \in Filterable, SummaryAnswered(f)
      PROVE  FiguresInv'
  <2>1. now' = now /\ chosen' = chosen /\ moments[f] # {}
    BY <1>3 DEF SummaryAnswered
  <2>2. moments' = [moments EXCEPT ![f] = {}]
    BY <1>3 DEF SummaryAnswered
  <2> DEFINE still == Cardinality(moments[f]) = 1
  <2>3. PICK at \in Seen(f) : figures' = [figures EXCEPT ![f] = Summary(f, at, still)]
    BY <1>3 DEF SummaryAnswered
  <2>4. moments \in [Filterable -> SUBSET Town] /\ IsFiniteSet(moments[f])
    BY DEF FiguresInv
  <2>5. AddsUp(f, Summary(f, at, still))
    <3>1. at.wards \subseteq DashWards
      BY <2>3, <2>4 DEF Seen, Town
    <3>2. ASSUME still
          PROVE  OneMoment(at)
      <4>1. PICK m : moments[f] = {m}
        BY <2>4, <3>2, FS_Singleton
      <4>2. {n.homes : n \in moments[f]} = {m.homes} /\ {n.coins : n \in moments[f]} = {m.coins}
        BY <4>1
      <4>3. /\ at.count = m.homes /\ at.statuses = m.homes /\ at.byWard = m.homes
            /\ at.taxSurveys = m.homes /\ at.collected = m.coins /\ at.online = m.coins
            /\ at.offline = m.coins /\ at.paymentsByWard = m.coins
        BY <2>3, <4>2 DEF Seen
      <4> QED
        BY <4>3 DEF OneMoment
    <3>3. still \in BOOLEAN
      OBVIOUS
    <3> HIDE DEF still
    <3> QED
      BY <3>1, <3>2, <3>3, AnswerAddsUp
  <2> HIDE DEF still
  <2>6. SummaryAddsUp'
    <3> SUFFICES ASSUME NEW k \in Filterable, figures'[k].known
                 PROVE  AddsUp(k, figures'[k])
      BY DEF SummaryAddsUp
    <3>1. CASE k = f
      <4>1. figures'[k] = Summary(f, at, still)
        BY <2>3, <3>1 DEF FiguresInv
      <4> QED
        BY <2>5, <3>1, <4>1
    <3>2. CASE k # f
      <4>1. figures'[k] = figures[k]
        BY <2>3, <3>2 DEF FiguresInv
      <4> QED
        BY <4>1 DEF FiguresInv, SummaryAddsUp
    <3> QED
      BY <3>1, <3>2
  <2>7. DOMAIN figures' = Filterable
    BY <2>3 DEF FiguresInv
  <2>8. moments' \in [Filterable -> SUBSET Town]
    BY <2>2, <2>4
  <2>9. ASSUME NEW k \in Filterable
        PROVE  /\ moments'[k] # {} => now \in moments'[k]
               /\ IsFiniteSet(moments'[k])
               /\ Cardinality(moments'[k]) <= MaxMoments
    <3>1. moments'[k] = moments[k] \/ moments'[k] = {}
      BY <2>2, <2>4
    <3>2. IsFiniteSet({}) /\ Cardinality({}) = 0 /\ 0 <= MaxMoments
      BY FS_EmptySet, FigureConstants
    <3> QED
      BY <3>1, <3>2 DEF FiguresInv
  <2> QED
    BY <2>1, <2>6, <2>7, <2>8, <2>9 DEF FiguresInv
<1>4. ASSUME NEW h \in Homes, NEW w \in DashWards, NEW st \in Kept \cup {"DELETED"}, Resurvey(h, w, st)
      PROVE  FiguresInv'
  <2> DEFINE written == [now EXCEPT !.homes[h] = [ward |-> w, st |-> st]]
  <2>1. Write(written)
    BY <1>4 DEF Resurvey
  <2>2. written \in Town
    BY <1>1 DEF Town, Filterable
  <2> HIDE DEF written
  <2> QED
    BY <2>1, <2>2, WriteKeeps
<1>5. ASSUME NEW c \in Coins, NEW w \in Filterable, NEW mode \in Modes,
             NEW st \in {"PENDING", "SUCCESS", "FAILED"}, Collect(c, w, mode, st)
      PROVE  FiguresInv'
  <2> DEFINE written == [now EXCEPT !.coins[c] = [ward |-> w, mode |-> mode, st |-> st]]
  <2>1. Write(written)
    BY <1>5 DEF Collect
  <2>2. written \in Town
    BY <1>1 DEF Town
  <2> HIDE DEF written
  <2> QED
    BY <2>1, <2>2, WriteKeeps
<1>6. ASSUME NEW w \in DashWards, RateWard(w) \/ CloseWard(w)
      PROVE  FiguresInv'
  <2>1. CASE RateWard(w)
    <3> DEFINE written == [now EXCEPT !.rated = now.rated \cup {w}]
    <3>1. Write(written)
      BY <2>1 DEF RateWard
    <3>2. written \in Town
      BY <1>1 DEF Town
    <3> HIDE DEF written
    <3> QED
      BY <3>1, <3>2, WriteKeeps
  <2>2. CASE CloseWard(w)
    <3> DEFINE written == [now EXCEPT !.active = now.active \ {w}]
    <3>1. Write(written)
      BY <2>2 DEF CloseWard
    <3>2. written \in Town
      BY <1>1 DEF Town
    <3> HIDE DEF written
    <3> QED
      BY <3>1, <3>2, WriteKeeps
  <2> QED
    BY <1>6, <2>1, <2>2
<1>7. CASE UNCHANGED figureVars
  BY <1>7 DEF figureVars, FiguresInv, SummaryAddsUp
<1> QED
  BY <1>2, <1>3, <1>4, <1>5, <1>6, <1>7 DEF FiguresNext

LEMMA FiguresStart == FiguresInit => FiguresInv
<1> SUFFICES ASSUME FiguresInit
             PROVE  FiguresInv
  OBVIOUS
<1>1. now \in Town
  BY DEF FiguresInit, Town, NoHome, NoCoin, Filterable, Kept, Modes
<1>2. IsFiniteSet({}) /\ Cardinality({}) = 0 /\ 0 <= MaxMoments
  BY FS_EmptySet, FigureConstants
<1>3. SummaryAddsUp
  BY DEF FiguresInit, SummaryAddsUp, NoFigures
<1>4. chosen \in Filterable
  BY DEF FiguresInit, Filterable
<1> QED
  BY <1>1, <1>2, <1>3, <1>4 DEF FiguresInit, FiguresInv

(* The inductive invariant of the dashboard: whatever queries of a summary  *)
(* see (DashboardService.getSummary), what the page keeps adds up.          *)
THEOREM FiguresInvariance == FiguresSpec => []FiguresInv
BY FiguresStart, FiguresStep, PTL DEF FiguresSpec

(* What the dashboard shows adds up, whatever its queries see, and what it *)
(* read at one moment agrees (DashboardService.getSummary). *)
THEOREM DashboardAddsUp == FiguresSpec => [](FiguresTypeOK /\ SummaryAddsUp)
<1>1. FiguresInv => FiguresTypeOK /\ SummaryAddsUp
  BY DEF FiguresInv, FiguresTypeOK, Town
<1> QED
  BY <1>1, FiguresInvariance, PTL

-----------------------------------------------------------------------------
(* The floors of a survey.  What the text keeps of a row comes back from   *)
(* it, unless a construction was given without a usage; a row is found     *)
(* again by an id with its place in it; a PATCH leaves in the survey what  *)
(* the form held, and a new one waits for the answer to the last.          *)

FloorRow == [label : Storeys, area : Nat, use : Uses \cup Roofs \cup {Unset},
             roof : Uses \cup Roofs \cup {Unset}]

(* A row that the text can tell. *)
Told(r) == r.use = Unset => r.roof = Unset

LEMMA GivenIs ==
    ASSUME NEW v \in Uses \cup Roofs \cup {Unset}
    PROVE  /\ Given(v) \in Seq(Uses \cup Roofs)
           /\ v = Unset => Given(v) = <<>>
           /\ v # Unset => Given(v) = <<v>>
<1>1. v = Unset => Given(v) = <<>>
  BY DEF Given
<1>2. v # Unset => Given(v) = <<v>>
  BY DEF Given
<1>3. v # Unset => v \in Uses \cup Roofs
  OBVIOUS
<1>4. <<>> \in Seq(Uses \cup Roofs) /\ \A x \in Uses \cup Roofs : <<x>> \in Seq(Uses \cup Roofs)
  OBVIOUS
<1> QED
  BY <1>1, <1>2, <1>3, <1>4

LEMMA ParseIs ==
    ASSUME NEW s \in FloorText
    PROVE  ParseFloor(s) \in FloorRow /\ Told(ParseFloor(s))
<1>1. s.label \in Storeys /\ s.area \in Nat /\ s.types \in Seq(Uses \cup Roofs)
  BY DEF FloorText
<1>2. \A n \in 1..Len(s.types) : s.types[n] \in Uses \cup Roofs /\ s.types[n] # Unset
  BY <1>1, FloorsAssumption
<1>3. Len(s.types) \in Nat
  BY <1>1
<1> DEFINE u == IF 1 <= Len(s.types) THEN s.types[1] ELSE Unset
           v == IF 2 <= Len(s.types) THEN s.types[2] ELSE Unset
<1>4. ParseFloor(s) = [label |-> s.label, area |-> s.area, use |-> u, roof |-> v]
  BY DEF ParseFloor
<1>5. u \in Uses \cup Roofs \cup {Unset} /\ v \in Uses \cup Roofs \cup {Unset} /\ (u = Unset => v = Unset)
  BY <1>2, <1>3
<1> HIDE DEF u, v
<1> QED
  BY <1>1, <1>4, <1>5 DEF FloorRow, Told

LEMMA SerializeIs ==
    ASSUME NEW r \in FloorRow
    PROVE  /\ SerializeFloor(r) \in FloorText
           /\ Told(r) => ParseFloor(SerializeFloor(r)) = r
<1>1. /\ r.label \in Storeys /\ r.area \in Nat
      /\ r.use \in Uses \cup Roofs \cup {Unset} /\ r.roof \in Uses \cup Roofs \cup {Unset}
      /\ r = [label |-> r.label, area |-> r.area, use |-> r.use, roof |-> r.roof]
  BY DEF FloorRow
<1> DEFINE types == Given(r.use) \o Given(r.roof)
           s     == SerializeFloor(r)
<1>2. types \in Seq(Uses \cup Roofs)
  BY <1>1, GivenIs
<1>3. s = [label |-> r.label, area |-> r.area, types |-> types]
  BY DEF SerializeFloor
<1>4. s \in FloorText
  BY <1>1, <1>2, <1>3 DEF FloorText
<1>5. ASSUME Told(r)
      PROVE  /\ r.use = (IF 1 <= Len(types) THEN types[1] ELSE Unset)
             /\ r.roof = (IF 2 <= Len(types) THEN types[2] ELSE Unset)
  <2>1. CASE r.use = Unset
    <3>1. types = <<>>
      BY <1>1, <1>5, <2>1, GivenIs DEF Told
    <3> QED
      BY <1>5, <2>1, <3>1 DEF Told
  <2>2. CASE r.use # Unset /\ r.roof = Unset
    <3>1. Given(r.use) = <<r.use>> /\ Given(r.roof) = <<>>
      BY <1>1, <2>2, GivenIs
    <3>2. Len(types) = 1 /\ types[1] = r.use
      BY <3>1
    <3> HIDE DEF types
    <3> QED
      BY <2>2, <3>2
  <2>3. CASE r.use # Unset /\ r.roof # Unset
    <3>1. Given(r.use) = <<r.use>> /\ Given(r.roof) = <<r.roof>>
      BY <1>1, <2>3, GivenIs
    <3>2. Len(types) = 2 /\ types[1] = r.use /\ types[2] = r.roof
      BY <3>1
    <3> HIDE DEF types
    <3> QED
      BY <3>2
  <2> QED
    BY <2>1, <2>2, <2>3
<1> HIDE DEF types
<1>6. ASSUME Told(r)
      PROVE  ParseFloor(s) = r
  <2>1. s.types = types /\ s.label = r.label /\ s.area = r.area
    BY <1>3
  <2> HIDE DEF s
  <2>2. ParseFloor(s) = [label |-> r.label, area |-> r.area, use |-> r.use, roof |-> r.roof]
    BY <1>5, <1>6, <2>1 DEF ParseFloor
  <2> QED
    BY <1>1, <2>2
<1> QED
  BY <1>4, <1>6

(* The same of all rows of a survey. *)
ToldRows(listed) == \A i \in DOMAIN listed : Told(listed[i])

LEMMA ParsesIs ==
    ASSUME NEW text \in Seq(FloorText)
    PROVE  /\ ParseFloors(text) \in Seq(FloorRow) /\ ToldRows(ParseFloors(text))
           /\ DOMAIN ParseFloors(text) = DOMAIN text
           /\ Len(ParseFloors(text)) = Len(text)
           /\ \A i \in DOMAIN text : /\ ParseFloors(text)[i] = ParseFloor(text[i])
                                     /\ ParseFloors(text)[i].label = text[i].label
<1>1. \A i \in DOMAIN text : text[i] \in FloorText
  OBVIOUS
<1>2. \A i \in DOMAIN text : ParseFloors(text)[i] = ParseFloor(text[i])
  BY DEF ParseFloors
<1>3. \A i \in DOMAIN text : ParseFloor(text[i]) \in FloorRow /\ Told(ParseFloor(text[i]))
  BY <1>1, ParseIs
<1>4. \A i \in DOMAIN text : ParseFloor(text[i]).label = text[i].label
  BY DEF ParseFloor
<1>5. /\ DOMAIN text = 1..Len(text) /\ Len(text) \in Nat
      /\ ParseFloors(text) = [i \in 1..Len(text) |-> ParseFloors(text)[i]]
  BY DEF ParseFloors
<1>6. ParseFloors(text) \in Seq(FloorRow) /\ Len(ParseFloors(text)) = Len(text)
  BY <1>2, <1>3, <1>5
<1> QED
  BY <1>2, <1>3, <1>4, <1>5, <1>6 DEF ToldRows

LEMMA SerializesIs ==
    ASSUME NEW listed \in Seq(FloorRow)
    PROVE  /\ SerializeFloors(listed) \in Seq(FloorText)
           /\ DOMAIN SerializeFloors(listed) = DOMAIN listed
           /\ \A i \in DOMAIN listed : SerializeFloors(listed)[i].label = listed[i].label
           /\ ToldRows(listed) => ParseFloors(SerializeFloors(listed)) = listed
<1> DEFINE text == SerializeFloors(listed)
<1>1. \A i \in DOMAIN listed : listed[i] \in FloorRow
  OBVIOUS
<1>2. /\ DOMAIN listed = 1..Len(listed) /\ Len(listed) \in Nat
      /\ text = [i \in 1..Len(listed) |-> SerializeFloor(listed[i])]
  BY DEF SerializeFloors
<1>3. \A i \in 1..Len(listed) : SerializeFloor(listed[i]) \in FloorText
  BY <1>1, <1>2, SerializeIs
<1>4. text \in Seq(FloorText)
  BY <1>2, <1>3
<1>5. \A i \in DOMAIN listed : text[i].label = listed[i].label
  BY <1>2 DEF SerializeFloor
<1> HIDE DEF text
<1>6. ASSUME ToldRows(listed)
      PROVE  ParseFloors(text) = listed
  <2>1. \A i \in DOMAIN listed : ParseFloor(text[i]) = listed[i]
    BY <1>1, <1>2, <1>6, SerializeIs DEF ToldRows
  <2>2. ParseFloors(text) = [i \in DOMAIN listed |-> ParseFloor(text[i])]
    BY <1>2 DEF ParseFloors
  <2>3. ParseFloors(text) = [i \in DOMAIN listed |-> listed[i]]
    BY <2>1, <2>2
  <2> QED
    BY <2>3
<1> QED
  BY <1>2, <1>4, <1>5, <1>6 DEF text

LEMMA AreaIs ==
    /\ \A text \in Seq(FloorText) : SumArea(text) \in Nat
    /\ SumArea(<<>>) = 0
<1>1. ASSUME NEW text \in Seq(FloorText)
      PROVE  SumArea(text) \in Nat
  <2> DEFINE area == [i \in DOMAIN text |-> text[i].area]
             n    == Len(text)
  <2>1. n \in Nat /\ DOMAIN area = 1..n /\ \A i \in 1..n : area[i] \in Nat
    <3>1. \A i \in DOMAIN text : text[i] \in FloorText
      OBVIOUS
    <3>2. \A i \in DOMAIN text : text[i].area \in Nat
      BY <3>1 DEF FloorText
    <3>3. n \in Nat /\ DOMAIN text = 1..n
      OBVIOUS
    <3> QED
      BY <3>2, <3>3
  <2>2. SumArea(text) = SumOver(area, DOMAIN area)
    BY DEF SumArea, SumOver
  <2> HIDE DEF area, n
  <2>3. IsFiniteSet(1..n)
    BY <2>1, FS_Interval
  <2> QED
    BY <2>1, <2>2, <2>3, SumNat
<1>2. SumArea(<<>>) = 0
  <2> DEFINE area == [i \in DOMAIN <<>> |-> <<>>[i].area]
  <2>1. DOMAIN area = {}
    OBVIOUS
  <2>2. SumArea(<<>>) = SumOver(area, DOMAIN area)
    BY DEF SumArea, SumOver
  <2> HIDE DEF area
  <2> QED
    BY <2>1, <2>2, SumEmpty
<1> QED
  BY <1>1, <1>2

(* Without floors there is no mixed use. *)
LEMMA NoFloorsNoMix == MixedError(<<>>)
BY AreaIs DEF MixedError

(* Leaving nothing out, and leaving one row out. *)
LEMMA WithoutNone ==
    ASSUME NEW R, NEW s \in Seq(R), NEW P, P \cap DOMAIN s = {}
    PROVE  Without(s, P) = s
<1> DEFINE n    == Len(s)
           left == {i \in DOMAIN s : i \notin P}
           upto(i) == {j \in left : j <= i}
           of(k) == CHOOSE i \in left : Cardinality(upto(i)) = k
<1>1. n \in Nat /\ DOMAIN s = 1..n /\ s = [k \in 1..n |-> s[k]]
  OBVIOUS
<1>2. left = 1..n
  BY <1>1
<1>3. \A i \in 1..n : upto(i) = 1..i
  BY <1>1, <1>2
<1>4. Without(s, P) = [k \in 1..Cardinality(left) |-> s[of(k)]]
  BY DEF Without
<1> HIDE DEF left, upto, n
<1>5. \A i \in 1..n : Cardinality(1..i) = i
  BY <1>1, FS_Interval
<1>6. Cardinality(1..n) = n
  BY <1>1, FS_Interval
<1>7. \A k \in 1..n : of(k) = k
  <2> TAKE k \in 1..n
  <2>1. \A i \in left : Cardinality(upto(i)) = i
    BY <1>2, <1>3, <1>5
  <2> QED
    BY <1>2, <2>1
<1> HIDE DEF of
<1> QED
  BY <1>1, <1>2, <1>4, <1>6, <1>7

LEMMA WithoutOne ==
    ASSUME NEW R, NEW s \in Seq(R), NEW d \in DOMAIN s
    PROVE  /\ Without(s, {d}) \in Seq(R)
           /\ Len(Without(s, {d})) = Len(s) - 1
           /\ \A k \in 1..Len(s) - 1 :
                Without(s, {d})[k] = s[IF k < d THEN k ELSE k + 1]
<1> DEFINE n    == Len(s)
           left == {i \in DOMAIN s : i \notin {d}}
           upto(i) == {j \in left : j <= i}
           of(k) == CHOOSE i \in left : Cardinality(upto(i)) = k
           past(k) == IF k < d THEN k ELSE k + 1
<1>1. n \in Nat /\ DOMAIN s = 1..n /\ d \in 1..n
  OBVIOUS
<1>2. left = (1..n) \ {d}
  BY <1>1
<1>3. \A i \in left : upto(i) = IF i < d THEN 1..i ELSE (1..i) \ {d}
  BY <1>1, <1>2
<1>4. Without(s, {d}) = [k \in 1..Cardinality(left) |-> s[of(k)]]
  BY DEF Without
<1> HIDE DEF left, upto
<1>5. \A i \in 1..n : IsFiniteSet(1..i) /\ Cardinality(1..i) = i
  BY <1>1, FS_Interval
<1>6. \A i \in 1..n : d <= i => Cardinality((1..i) \ {d}) = i - 1
  <2> TAKE i \in 1..n
  <2> HAVE d <= i
  <2>1. d \in 1..i
    BY <1>1
  <2>2. Cardinality((1..i) \ {d}) = Cardinality(1..i) - 1
    BY <1>5, <2>1, FS_RemoveElement
  <2> QED
    BY <1>5, <2>2
<1>7. Cardinality(left) = n - 1
  BY <1>1, <1>2, <1>6
<1>8. \A i \in left : Cardinality(upto(i)) = IF i < d THEN i ELSE i - 1
  <2> TAKE i \in left
  <2>1. i \in 1..n
    BY <1>2
  <2>2. CASE i < d
    BY <1>3, <1>5, <2>1, <2>2
  <2>3. CASE ~(i < d)
    <3>1. d <= i
      BY <1>1, <2>1, <2>3
    <3>2. upto(i) = (1..i) \ {d}
      BY <1>3, <2>3
    <3> QED
      BY <1>6, <2>1, <2>3, <3>1, <3>2
  <2> QED
    BY <2>2, <2>3
<1>9. \A k \in 1..n - 1 : of(k) = past(k)
  <2> TAKE k \in 1..n - 1
  <2>1. past(k) \in left /\ (past(k) < d <=> k < d)
    BY <1>1, <1>2
  <2>2. Cardinality(upto(past(k))) = IF past(k) < d THEN past(k) ELSE past(k) - 1
    BY <1>8, <2>1
  <2>3. Cardinality(upto(past(k))) = k
    BY <1>1, <2>1, <2>2
  <2> HIDE DEF past
  <2>4. of(k) \in left /\ Cardinality(upto(of(k))) = k
    BY <2>1, <2>3
  <2> HIDE DEF of
  <2>5. k = IF of(k) < d THEN of(k) ELSE of(k) - 1
    BY <1>8, <2>4
  <2>6. of(k) \in 1..n /\ of(k) # d
    BY <1>2, <2>4
  <2> QED
    BY <1>1, <2>5, <2>6 DEF past
<1> HIDE DEF of
<1>10. Without(s, {d}) = [k \in 1..n - 1 |-> s[past(k)]]
  BY <1>4, <1>7, <1>9
<1>11. \A k \in 1..n - 1 : s[past(k)] \in R
  BY <1>1
<1> HIDE DEF n, past
<1>12. n - 1 \in Nat
  BY <1>1
<1>13. Without(s, {d}) \in Seq(R) /\ Len(Without(s, {d})) = n - 1
  BY <1>10, <1>11, <1>12
<1> QED
  BY <1>10, <1>13 DEF n, past

(* An id is met at one place at most, its own. *)
LEMMA OnePlace ==
    ASSUME NEW text, NEW id
    PROVE  /\ \A i, j \in Places(text, id) : i = j
           /\ \A i \in DOMAIN text : id = IdOf(text, i) => Places(text, id) = {i}
           /\ Places(text, Nothing) = {}
<1>1. \A i, j : IdOf(text, i) = IdOf(text, j) => i = j
  <2> TAKE i, j
  <2>1. \A x, y : {x} = {y} => x = y
    OBVIOUS
  <2>2. \A x, y : <<i, x>> = <<j, y>> => i = j
    OBVIOUS
  <2> QED
    BY <2>1, <2>2 DEF IdOf
<1>2. \A i : IdOf(text, i) # Nothing
  BY DEF IdOf, Nothing
<1> QED
  BY <1>1, <1>2 DEF Places

Patch == [p : FloorValues, pc : {"sent", "done"}]

FloorsShape ==
    /\ form \in FloorValues /\ base \in FloorValues
    /\ loaded \in FloorValues /\ survey \in FloorValues
    /\ adrift \subseteq FloorValues
    /\ patch \subseteq Patch /\ \A c, d \in patch : c = d
    /\ meant \in Seq(FloorRow)
    /\ aim \in [edited : Nat, doomed : Nat]

(* An id was made from the text, at the place the clerk pressed on. *)
Pressed(id, i, text) == IF id = Nothing THEN i = 0 ELSE i \in DOMAIN text /\ id = IdOf(text, i)

RowsKept ==
    odd \cap {"row moved", "reset", "usage"} = {} =>
        /\ ParseFloors(form.floors) = meant
        /\ Pressed(edited, aim.edited, form.floors)
        /\ Pressed(doomed, aim.doomed, form.floors)

(* A PATCH that is answered is what the survey holds. *)
SavedKept ==
    /\ patch # {} => promised = Nothing
    /\ odd \cap {"emptied", "late"} = {} =>
          /\ \A m \in promised : ParseFloors(survey.floors) = m
          /\ \A c \in patch :
                /\ c.pc = "sent" /\ c.p.floors = <<>> => survey.floors = <<>>
                /\ c.pc = "done" => survey.floors = c.p.floors

(* The values of all PATCHes that are or may yet be applied. *)
Sent == {c.p : c \in patch} \cup adrift

AreaAddsUp(v) == v.built = SumArea(v.floors)
MixHolds(v) == v.mixed => ~MixedError(v.floors)

AreasAddUp ==
    "no area" \notin odd =>
        /\ AreaAddsUp(form) /\ AreaAddsUp(base) /\ AreaAddsUp(loaded) /\ AreaAddsUp(survey)
        /\ \A p \in Sent : AreaAddsUp(p) /\ (p.floors # <<>> => p.built # 0)

MixesHold == MixHolds(survey) /\ \A p \in Sent : MixHolds(p)

FloorsInv == FloorsShape /\ RowsKept /\ SavedKept /\ AreasAddUp /\ MixesHold

(* A change of the form. *)
LEMMA BecomesIs ==
    ASSUME FloorsInv, NEW f \in FloorValues, NEW slips, Becomes(f, slips),
           "no area" \notin odd => AreaAddsUp(f)
    PROVE  /\ form' \in FloorValues /\ base' \in FloorValues
           /\ odd \subseteq odd' /\ slips \subseteq odd'
           /\ odd' \subseteq odd \cup slips \cup {"reset"}
           /\ "reset" \notin odd' => form' = f
           /\ "no area" \notin odd => AreaAddsUp(form') /\ AreaAddsUp(base')
<1>1. form \in FloorValues /\ base \in FloorValues /\ loaded \in FloorValues
  BY DEF FloorsInv, FloorsShape
<1>2. "no area" \notin odd => AreaAddsUp(base) /\ AreaAddsUp(loaded)
  BY DEF FloorsInv, AreasAddUp
<1>3. form' = (IF f = base THEN loaded ELSE f) /\ base' = (IF f = base THEN loaded ELSE base)
  BY DEF Becomes
<1>4. odd' = odd \cup slips \cup (IF f = base /\ loaded # base THEN {"reset"} ELSE {})
  BY DEF Becomes
<1>5. "reset" \notin odd' => ~(f = base /\ loaded # base)
  BY <1>4
<1>6. AreaAddsUp(form') = AreaAddsUp(IF f = base THEN loaded ELSE f)
      /\ AreaAddsUp(base') = AreaAddsUp(IF f = base THEN loaded ELSE base)
  BY <1>3
<1>7. CASE f = base
  BY <1>1, <1>2, <1>3, <1>4, <1>5, <1>7
<1>8. CASE f # base
  BY <1>1, <1>2, <1>3, <1>4, <1>5, <1>8
<1> QED
  BY <1>7, <1>8

LEMMA CommitIs ==
    ASSUME FloorsInv, NEW listed \in Seq(FloorRow), NEW slips, Commit(listed, slips)
    PROVE  /\ form' \in FloorValues /\ base' \in FloorValues
           /\ odd \subseteq odd' /\ slips \subseteq odd'
           /\ odd' \subseteq odd \cup slips \cup {"reset"}
           /\ "reset" \notin odd' => form'.floors = SerializeFloors(listed)
           /\ "no area" \notin odd => AreaAddsUp(form') /\ AreaAddsUp(base')
<1> DEFINE text == SerializeFloors(listed)
           f    == [form EXCEPT !.floors = text, !.built = SumArea(text)]
<1>1. text \in Seq(FloorText) /\ SumArea(text) \in Nat
  BY SerializesIs, AreaIs
<1>2. form \in FloorValues
  BY DEF FloorsInv, FloorsShape
<1> HIDE DEF text
<1>3. f \in FloorValues /\ f.floors = text /\ f.built = SumArea(text)
  BY <1>1, <1>2 DEF FloorValues
<1>4. Becomes(f, slips)
  BY DEF Commit, text
<1> HIDE DEF f
<1>5. AreaAddsUp(f)
  BY <1>3 DEF AreaAddsUp
<1>6. /\ form' \in FloorValues /\ base' \in FloorValues
      /\ odd \subseteq odd' /\ slips \subseteq odd'
      /\ odd' \subseteq odd \cup slips \cup {"reset"}
      /\ "reset" \notin odd' => form' = f
      /\ "no area" \notin odd => AreaAddsUp(form') /\ AreaAddsUp(base')
  BY <1>3, <1>4, <1>5, BecomesIs
<1> QED
  BY <1>3, <1>6 DEF text

(* What the saving side keeps while the page is being filled in. *)
LEMMA SavingStays ==
    ASSUME FloorsInv, UNCHANGED <<loaded, survey, sendVars>>, odd \subseteq odd',
           "no area" \notin odd => AreaAddsUp(form') /\ AreaAddsUp(base')
    PROVE  SavedKept' /\ AreasAddUp' /\ MixesHold'
<1>1. /\ loaded' = loaded /\ survey' = survey /\ patch' = patch /\ adrift' = adrift
      /\ promised' = promised
  BY DEF sendVars
<1>2. Sent' = Sent
  BY <1>1 DEF Sent
<1>3. AreasAddUp'
  BY <1>1, <1>2 DEF FloorsInv, AreasAddUp, AreaAddsUp
<1>4. MixesHold'
  BY <1>1, <1>2 DEF FloorsInv, MixesHold, MixHolds
<1>5. SavedKept'
  BY <1>1 DEF FloorsInv, SavedKept
<1> QED
  BY <1>3, <1>4, <1>5

LEMMA SaveFloorKeeps ==
    ASSUME FloorsInv, NEW r \in Sketches, SaveFloor(r)
    PROVE  FloorsInv'
<1> DEFINE listed  == ParseFloors(form.floors)
           at    == Places(form.floors, edited)
           slips == IF r.use = Unset /\ r.roof # Unset THEN {"usage"} ELSE {}
           more  == IF edited # Nothing THEN [i \in DOMAIN listed |-> IF i \in at THEN r ELSE listed[i]]
                    ELSE Append(listed, r)
<1>1. form.floors \in Seq(FloorText) /\ meant \in Seq(FloorRow) /\ aim \in [edited : Nat, doomed : Nat]
  BY DEF FloorsInv, FloorsShape, FloorValues
<1>2. listed \in Seq(FloorRow) /\ ToldRows(listed) /\ DOMAIN listed = DOMAIN form.floors
  BY <1>1, ParsesIs
<1>3. r \in FloorRow /\ ("usage" \notin slips => Told(r))
  BY FloorsAssumption DEF FloorRow, Told
<1>4. /\ Commit(more, slips)
      /\ IF edited # Nothing THEN meant' = [i \in DOMAIN meant |-> IF i = aim.edited THEN r ELSE meant[i]]
         ELSE meant' = Append(meant, r)
      /\ doomed = Nothing /\ doomed' = doomed /\ edited' = Nothing
      /\ aim' = [aim EXCEPT !.edited = 0]
      /\ UNCHANGED <<loaded, survey, sendVars>>
  BY DEF SaveFloor
<1> HIDE DEF listed, slips
<1>5. more \in Seq(FloorRow)
  <2>1. CASE edited # Nothing
    BY <1>2, <1>3, <2>1
  <2>2. CASE edited = Nothing
    BY <1>2, <1>3, <2>2
  <2> QED
    BY <2>1, <2>2
<1>6. "usage" \notin slips => ToldRows(more)
  <2>1. CASE edited # Nothing
    BY <1>2, <1>3, <2>1 DEF ToldRows
  <2>2. CASE edited = Nothing
    BY <1>2, <1>3, <2>2 DEF ToldRows
  <2> QED
    BY <2>1, <2>2
<1>7. meant' \in Seq(FloorRow)
  <2>1. CASE edited # Nothing
    BY <1>1, <1>3, <1>4, <2>1
  <2>2. CASE edited = Nothing
    BY <1>1, <1>3, <1>4, <2>2
  <2> QED
    BY <2>1, <2>2
<1>8. ASSUME odd \cap {"row moved", "reset", "usage"} = {}
      PROVE  meant' = more
  <2>1. listed = meant /\ Pressed(edited, aim.edited, form.floors)
    BY <1>8 DEF FloorsInv, RowsKept, listed
  <2>2. CASE edited # Nothing
    <3>1. at = {aim.edited}
      BY <2>1, <2>2, OnePlace DEF Pressed
    <3> HIDE DEF at
    <3> QED
      BY <1>4, <2>1, <2>2, <3>1
  <2>3. CASE edited = Nothing
    BY <1>4, <2>1, <2>3
  <2> QED
    BY <2>2, <2>3
<1> HIDE DEF more
<1>9. /\ form' \in FloorValues /\ base' \in FloorValues
      /\ odd \subseteq odd' /\ slips \subseteq odd'
      /\ "reset" \notin odd' => form'.floors = SerializeFloors(more)
      /\ "no area" \notin odd => AreaAddsUp(form') /\ AreaAddsUp(base')
  BY <1>4, <1>5, CommitIs
<1>10. SavedKept' /\ AreasAddUp' /\ MixesHold'
  BY <1>4, <1>9, SavingStays
<1>11. RowsKept'
  <2> SUFFICES ASSUME odd' \cap {"row moved", "reset", "usage"} = {}
               PROVE  /\ ParseFloors(form'.floors) = meant'
                      /\ Pressed(edited', aim'.edited, form'.floors)
                      /\ Pressed(doomed', aim'.doomed, form'.floors)
    BY DEF RowsKept
  <2>1. odd \cap {"row moved", "reset", "usage"} = {} /\ "usage" \notin slips /\ "reset" \notin odd'
    BY <1>9
  <2>2. ParseFloors(form'.floors) = meant'
    BY <1>5, <1>6, <1>8, <1>9, <2>1, SerializesIs
  <2>3. aim'.edited = 0 /\ aim'.doomed = aim.doomed
    BY <1>1, <1>4
  <2>4. aim.doomed = 0
    BY <1>4, <2>1 DEF FloorsInv, RowsKept, Pressed
  <2> QED
    BY <1>4, <2>2, <2>3, <2>4 DEF Pressed
<1>12. FloorsShape'
  <2>1. aim' \in [edited : Nat, doomed : Nat]
    BY <1>1, <1>4
  <2> QED
    BY <1>4, <1>7, <1>9, <2>1 DEF FloorsInv, FloorsShape, sendVars, Patch
<1> QED
  BY <1>10, <1>11, <1>12 DEF FloorsInv

(* A row above the one left out stays where it is. *)
LEMMA AboveStays ==
    ASSUME NEW R, NEW s \in Seq(R), NEW d \in DOMAIN s, NEW e \in DOMAIN s, e # d, ~(d < e)
    PROVE  e \in DOMAIN Without(s, {d}) /\ Without(s, {d})[e] = s[e]
<1> DEFINE n    == Len(s)
           less == Without(s, {d})
<1>1. n \in Nat /\ d \in 1..n /\ e \in 1..n
  OBVIOUS
<1>2. /\ less \in Seq(R) /\ Len(less) = n - 1
      /\ \A k \in 1..n - 1 : less[k] = s[IF k < d THEN k ELSE k + 1]
  BY WithoutOne
<1>3. DOMAIN less = 1..n - 1
  BY <1>2
<1> HIDE DEF n, less
<1>4. e < d /\ e \in 1..n - 1
  BY <1>1
<1> QED
  BY <1>2, <1>3, <1>4 DEF less

(* The pressed ids keep naming their rows when no row above the edited one  *)
(* goes.                                                                   *)
LEMMA ConfirmDeleteKeeps ==
    ASSUME FloorsInv, ConfirmDelete
    PROVE  FloorsInv'
<1> DEFINE listed  == ParseFloors(form.floors)
           at    == Places(form.floors, doomed)
           below == aim.doomed < aim.edited
           slips == IF below THEN {"row moved"} ELSE {}
           less  == Without(listed, at)
           still == IF edited = doomed THEN 0 ELSE aim.edited - (IF below THEN 1 ELSE 0)
<1>1. form.floors \in Seq(FloorText) /\ meant \in Seq(FloorRow) /\ aim \in [edited : Nat, doomed : Nat]
  BY DEF FloorsInv, FloorsShape, FloorValues
<1>2. /\ listed \in Seq(FloorRow) /\ ToldRows(listed) /\ DOMAIN listed = DOMAIN form.floors
      /\ Len(listed) = Len(form.floors)
      /\ \A i \in DOMAIN form.floors : listed[i].label = form.floors[i].label
  BY <1>1, ParsesIs
<1>3. /\ Commit(less, slips) /\ doomed # Nothing
      /\ meant' = Without(meant, {aim.doomed})
      /\ doomed' = Nothing /\ edited' = (IF edited = doomed THEN Nothing ELSE edited)
      /\ aim' = [doomed |-> 0, edited |-> still]
      /\ UNCHANGED <<loaded, survey, sendVars>>
  BY DEF ConfirmDelete
<1>a. aim.edited \in Nat /\ aim.doomed \in Nat
  BY <1>1
<1>b. edited = doomed => still = 0
  OBVIOUS
<1>c. edited # doomed /\ ~below => still = aim.edited
  BY <1>a
<1>d. edited # doomed /\ below => still = aim.edited - 1
  OBVIOUS
<1> HIDE DEF listed, slips, still
<1>e. aim'.doomed = 0 /\ aim'.edited = still
  BY <1>3
<1>4. less \in Seq(FloorRow) /\ ToldRows(less)
  <2>1. CASE at = {}
    <3>1. at \cap DOMAIN listed = {}
      BY <2>1
    <3> HIDE DEF at
    <3>2. less = listed
      BY <1>2, <3>1, WithoutNone
    <3> QED
      BY <1>2, <3>2
  <2>2. CASE at # {}
    <3>1. PICK d \in DOMAIN listed : at = {d}
      BY <1>2, <2>2, OnePlace DEF Places
    <3> HIDE DEF at
    <3> DEFINE left == Without(listed, {d})
    <3>2. /\ left \in Seq(FloorRow) /\ Len(left) = Len(listed) - 1
          /\ \A k \in 1..Len(listed) - 1 : left[k] = listed[IF k < d THEN k ELSE k + 1]
      BY <1>2, WithoutOne
    <3>3. less = left
      BY <3>1
    <3> HIDE DEF left
    <3>4. DOMAIN left = 1..Len(listed) - 1 /\ DOMAIN listed = 1..Len(listed) /\ Len(listed) \in Nat
      BY <1>2, <3>2
    <3>5. ToldRows(left)
      <4> SUFFICES ASSUME NEW k \in DOMAIN left
                   PROVE  Told(left[k])
        BY DEF ToldRows
      <4>1. PICK j \in DOMAIN listed : left[k] = listed[j]
        BY <3>2, <3>4
      <4> QED
        BY <1>2, <4>1 DEF ToldRows
    <3> QED
      BY <3>2, <3>3, <3>5
  <2> QED
    BY <2>1, <2>2
<1>5. meant' \in Seq(FloorRow)
  <2>1. CASE aim.doomed \in DOMAIN meant
    BY <1>1, <1>3, <2>1, WithoutOne
  <2>2. CASE aim.doomed \notin DOMAIN meant
    <3>1. {aim.doomed} \cap DOMAIN meant = {}
      BY <2>2
    <3>2. Without(meant, {aim.doomed}) = meant
      BY <1>1, <3>1, WithoutNone
    <3> QED
      BY <1>1, <1>3, <3>2
  <2> QED
    BY <2>1, <2>2
<1>6. ASSUME odd \cap {"row moved", "reset", "usage"} = {}
      PROVE  /\ meant' = less /\ aim.doomed \in DOMAIN listed /\ less = Without(listed, {aim.doomed})
             /\ Pressed(edited, aim.edited, form.floors)
             /\ Pressed(doomed, aim.doomed, form.floors)
  <2>1. listed = meant /\ Pressed(edited, aim.edited, form.floors) /\ Pressed(doomed, aim.doomed, form.floors)
    BY <1>6 DEF FloorsInv, RowsKept, listed
  <2>2. aim.doomed \in DOMAIN form.floors /\ at = {aim.doomed}
    BY <1>3, <2>1, OnePlace DEF Pressed
  <2> HIDE DEF at
  <2> QED
    BY <1>2, <1>3, <2>1, <2>2
<1> HIDE DEF at, less
<1>7. /\ form' \in FloorValues /\ base' \in FloorValues
      /\ odd \subseteq odd' /\ slips \subseteq odd'
      /\ "reset" \notin odd' => form'.floors = SerializeFloors(less)
      /\ "no area" \notin odd => AreaAddsUp(form') /\ AreaAddsUp(base')
  BY <1>3, <1>4, CommitIs
<1>8. SavedKept' /\ AreasAddUp' /\ MixesHold'
  BY <1>3, <1>7, SavingStays
<1>9. RowsKept'
  <2> SUFFICES ASSUME odd' \cap {"row moved", "reset", "usage"} = {}
               PROVE  /\ ParseFloors(form'.floors) = meant'
                      /\ Pressed(edited', aim'.edited, form'.floors)
                      /\ Pressed(doomed', aim'.doomed, form'.floors)
    BY DEF RowsKept
  <2>1. odd \cap {"row moved", "reset", "usage"} = {} /\ "row moved" \notin slips /\ "reset" \notin odd'
    BY <1>7
  <2>2. ~below
    BY <2>1 DEF slips
  <2>3. /\ form'.floors = SerializeFloors(less) /\ DOMAIN form'.floors = DOMAIN less
        /\ ParseFloors(form'.floors) = less
        /\ \A i \in DOMAIN less : form'.floors[i].label = less[i].label
    BY <1>4, <1>7, <2>1, SerializesIs
  <2>4. Pressed(doomed', aim'.doomed, form'.floors)
    BY <1>3 DEF Pressed
  <2>5. Pressed(edited', aim'.edited, form'.floors)
    <3>1. CASE edited = doomed \/ edited = Nothing
      <4>1. edited = Nothing => aim.edited = 0
        BY <1>6, <2>1 DEF Pressed
      <4>2. edited' = Nothing /\ aim'.edited = 0
        <5>1. CASE edited = doomed
          BY <1>3, <1>b, <1>e, <5>1
        <5>2. CASE edited # doomed
          BY <1>3, <1>c, <1>e, <2>2, <3>1, <4>1, <5>2
        <5> QED
          BY <5>1, <5>2
      <4> QED
        BY <4>2 DEF Pressed
    <3>2. CASE edited # doomed /\ edited # Nothing
      <4> DEFINE e == aim.edited
                 d == aim.doomed
      <4>1. e \in DOMAIN form.floors /\ edited = IdOf(form.floors, e)
            /\ d \in DOMAIN form.floors /\ doomed = IdOf(form.floors, d)
        BY <1>3, <1>6, <2>1, <3>2 DEF Pressed
      <4>2. e # d
        BY <3>2, <4>1
      <4>3. ~(d < e)
        BY <2>2
      <4>4. e \in DOMAIN listed /\ d \in DOMAIN listed /\ less = Without(listed, {d})
        BY <1>2, <1>6, <2>1, <4>1
      <4>5. aim'.edited = e /\ edited' = edited
        BY <1>3, <1>c, <1>e, <2>2, <3>2
      <4> HIDE DEF e, d
      <4>6. e \in DOMAIN less /\ less[e] = listed[e]
        BY <1>2, <4>2, <4>3, <4>4, AboveStays
      <4>7. form'.floors[e].label = form.floors[e].label
        BY <1>2, <2>3, <4>1, <4>6
      <4>8. e \in DOMAIN form'.floors /\ edited' = IdOf(form'.floors, e)
        BY <2>3, <4>1, <4>5, <4>6, <4>7 DEF IdOf
      <4> QED
        BY <3>2, <4>5, <4>8 DEF Pressed
    <3> QED
      BY <3>1, <3>2
  <2> QED
    BY <1>6, <2>1, <2>3, <2>4, <2>5
<1>10. FloorsShape'
  <2>1. aim' \in [edited : Nat, doomed : Nat]
    <3>1. CASE edited = doomed
      BY <1>3, <1>b, <3>1
    <3>2. CASE edited # doomed /\ ~below
      BY <1>3, <1>a, <1>c, <3>2
    <3>3. CASE edited # doomed /\ below
      <4>1. aim.edited - 1 \in Nat
        BY <1>a, <3>3
      <4> QED
        BY <1>3, <1>d, <3>3, <4>1
    <3> QED
      BY <3>1, <3>2, <3>3
  <2> QED
    BY <1>3, <1>5, <1>7, <2>1 DEF FloorsInv, FloorsShape, sendVars, Patch
<1> QED
  BY <1>8, <1>9, <1>10 DEF FloorsInv

LEMMA SetUseKeeps ==
    ASSUME FloorsInv, SetUse
    PROVE  FloorsInv'
<1> DEFINE f == [form EXCEPT !.mixed = ~form.mixed]
<1>1. Becomes(f, {}) /\ UNCHANGED <<loaded, survey, aimVars, sendVars, meant>>
  BY DEF SetUse
<1>2. form \in FloorValues
  BY DEF FloorsInv, FloorsShape
<1>3. f \in FloorValues /\ f.floors = form.floors /\ f.built = form.built
  BY <1>2 DEF FloorValues
<1> HIDE DEF f
<1>4. "no area" \notin odd => AreaAddsUp(f)
  BY <1>3 DEF FloorsInv, AreasAddUp, AreaAddsUp
<1>5. /\ form' \in FloorValues /\ base' \in FloorValues
      /\ odd \subseteq odd'
      /\ "reset" \notin odd' => form' = f
      /\ "no area" \notin odd => AreaAddsUp(form') /\ AreaAddsUp(base')
  BY <1>1, <1>3, <1>4, BecomesIs
<1>6. SavedKept' /\ AreasAddUp' /\ MixesHold'
  BY <1>1, <1>5, SavingStays
<1>7. RowsKept'
  <2>1. edited' = edited /\ doomed' = doomed /\ aim' = aim /\ meant' = meant
    BY <1>1 DEF aimVars
  <2>2. odd' \cap {"row moved", "reset", "usage"} = {} =>
          odd \cap {"row moved", "reset", "usage"} = {} /\ form'.floors = form.floors
    BY <1>3, <1>5
  <2> QED
    BY <2>1, <2>2 DEF FloorsInv, RowsKept
<1>8. FloorsShape'
  BY <1>1, <1>5 DEF FloorsInv, FloorsShape, aimVars, sendVars, Patch
<1> QED
  BY <1>6, <1>7, <1>8 DEF FloorsInv

(* Pressing "Edit" and "Delete", and thinking better of it. *)
LEMMA PressingKeeps ==
    ASSUME FloorsInv,
           \/ \E i \in DOMAIN form.floors : StartEdit(i) \/ AskDelete(i)
           \/ ResetDraft \/ KeepFloor
    PROVE  FloorsInv'
<1>1. UNCHANGED <<formVars, loaded, survey, sendVars, meant, odd>>
  BY DEF StartEdit, AskDelete, ResetDraft, KeepFloor
<1>2. form' = form /\ base' = base /\ loaded' = loaded /\ survey' = survey /\ meant' = meant
      /\ odd' = odd /\ patch' = patch /\ adrift' = adrift
  BY <1>1 DEF formVars, sendVars
<1>3. SavedKept' /\ AreasAddUp' /\ MixesHold'
  <2>1. "no area" \notin odd => AreaAddsUp(form') /\ AreaAddsUp(base')
    BY <1>2 DEF FloorsInv, AreasAddUp, AreaAddsUp
  <2> QED
    BY <1>1, <1>2, <2>1, SavingStays
<1>4. aim \in [edited : Nat, doomed : Nat] /\ form.floors \in Seq(FloorText)
  BY DEF FloorsInv, FloorsShape, FloorValues
<1>5. ASSUME NEW i \in DOMAIN form.floors, StartEdit(i) \/ AskDelete(i)
      PROVE  aim' \in [edited : Nat, doomed : Nat] /\ RowsKept'
  <2>1. i \in Nat
    BY <1>4
  <2>2. IdOf(form.floors, i) # Nothing
    BY DEF IdOf, Nothing
  <2>3. CASE StartEdit(i)
    <3>1. edited' = IdOf(form.floors, i) /\ aim' = [aim EXCEPT !.edited = i] /\ doomed' = doomed
      BY <2>3 DEF StartEdit
    <3>2. aim' \in [edited : Nat, doomed : Nat] /\ aim'.edited = i /\ aim'.doomed = aim.doomed
      BY <1>4, <2>1, <3>1
    <3> QED
      BY <1>2, <2>2, <3>1, <3>2 DEF FloorsInv, RowsKept, Pressed
  <2>4. CASE AskDelete(i)
    <3>1. doomed' = IdOf(form.floors, i) /\ aim' = [aim EXCEPT !.doomed = i] /\ edited' = edited
      BY <2>4 DEF AskDelete
    <3>2. aim' \in [edited : Nat, doomed : Nat] /\ aim'.doomed = i /\ aim'.edited = aim.edited
      BY <1>4, <2>1, <3>1
    <3> QED
      BY <1>2, <2>2, <3>1, <3>2 DEF FloorsInv, RowsKept, Pressed
  <2> QED
    BY <1>5, <2>3, <2>4
<1>6. ASSUME ResetDraft
      PROVE  aim' \in [edited : Nat, doomed : Nat] /\ RowsKept'
  <2>1. edited' = Nothing /\ aim' = [aim EXCEPT !.edited = 0] /\ doomed' = doomed
    BY <1>6 DEF ResetDraft
  <2>2. aim' \in [edited : Nat, doomed : Nat] /\ aim'.edited = 0 /\ aim'.doomed = aim.doomed
    BY <1>4, <2>1
  <2> QED
    BY <1>2, <2>1, <2>2 DEF FloorsInv, RowsKept, Pressed
<1>7. ASSUME KeepFloor
      PROVE  aim' \in [edited : Nat, doomed : Nat] /\ RowsKept'
  <2>1. doomed' = Nothing /\ aim' = [aim EXCEPT !.doomed = 0] /\ edited' = edited
    BY <1>7 DEF KeepFloor
  <2>2. aim' \in [edited : Nat, doomed : Nat] /\ aim'.doomed = 0 /\ aim'.edited = aim.edited
    BY <1>4, <2>1
  <2> QED
    BY <1>2, <2>1, <2>2 DEF FloorsInv, RowsKept, Pressed
<1>8. aim' \in [edited : Nat, doomed : Nat] /\ RowsKept'
  BY <1>5, <1>6, <1>7
<1>9. FloorsShape'
  BY <1>2, <1>8 DEF FloorsInv, FloorsShape, Patch
<1> QED
  BY <1>3, <1>8, <1>9 DEF FloorsInv

(* Applying a PATCH: with no floors it has no area either and no mixed use, *)
(* with floors it sends both.                                              *)
LEMMA UpdateKeeps ==
    ASSUME FloorsInv, NEW p \in Sent, UpdateSurvey(p)
    PROVE  /\ survey' \in FloorValues /\ MixHolds(survey')
           /\ "no area" \notin odd => AreaAddsUp(survey')
           /\ p.floors # <<>> => survey'.floors = p.floors
           /\ p.floors = <<>> => survey'.floors = survey.floors
<1> DEFINE floors == IF p.floors = <<>> THEN survey.floors ELSE p.floors
           built  == IF p.built = 0 THEN survey.built ELSE p.built
<1>1. p \in FloorValues /\ survey \in FloorValues
  BY DEF FloorsInv, FloorsShape, Sent, Patch
<1>2. survey' = [floors |-> floors, built |-> built, mixed |-> p.mixed]
  BY DEF UpdateSurvey
<1>3. floors \in Seq(FloorText) /\ built \in Nat /\ p.mixed \in BOOLEAN
  BY <1>1 DEF FloorValues
<1>4. /\ p.floors # <<>> => floors = p.floors
      /\ p.floors = <<>> => floors = survey.floors
      /\ p.built # 0 => built = p.built
      /\ p.built = 0 => built = survey.built
  OBVIOUS
<1> HIDE DEF floors, built
<1>5. survey'.floors = floors /\ survey'.built = built /\ survey'.mixed = p.mixed
  BY <1>2
<1>6. survey' \in FloorValues
  BY <1>2, <1>3 DEF FloorValues
<1>7. MixHolds(survey')
  <2>1. p.mixed => ~MixedError(p.floors)
    BY DEF FloorsInv, MixesHold, MixHolds
  <2>2. CASE p.floors = <<>>
    <3>1. ~p.mixed
      BY <2>1, <2>2, NoFloorsNoMix
    <3> QED
      BY <1>5, <3>1 DEF MixHolds
  <2>3. CASE p.floors # <<>>
    BY <1>4, <1>5, <2>1, <2>3 DEF MixHolds
  <2> QED
    BY <2>2, <2>3
<1>8. ASSUME "no area" \notin odd
      PROVE  AreaAddsUp(survey')
  <2>1. /\ survey.built = SumArea(survey.floors) /\ p.built = SumArea(p.floors)
        /\ p.floors # <<>> => p.built # 0
    BY <1>8 DEF FloorsInv, AreasAddUp, AreaAddsUp
  <2>2. CASE p.floors = <<>>
    <3>1. p.built = 0
      BY <2>1, <2>2, AreaIs
    <3> QED
      BY <1>4, <1>5, <2>1, <2>2, <3>1 DEF AreaAddsUp
  <2>3. CASE p.floors # <<>>
    BY <1>4, <1>5, <2>1, <2>3 DEF AreaAddsUp
  <2> QED
    BY <2>2, <2>3
<1> QED
  BY <1>4, <1>5, <1>6, <1>7, <1>8

LEMMA OnSubmitKeeps ==
    ASSUME FloorsInv, OnSubmit
    PROVE  FloorsInv'
<1>1. /\ patch = Nothing /\ patch' = {[p |-> form, pc |-> "sent"]} /\ promised' = Nothing
      /\ form.mixed => ~MixedError(form.floors)
      /\ UNCHANGED <<formVars, loaded, survey, aimVars, adrift, meant>>
  BY DEF OnSubmit, SaveOffered
<1>2. odd' = odd \cup (IF form.floors = <<>> /\ survey.floors # <<>> THEN {"emptied"} ELSE {})
                 \cup (IF form.floors # <<>> /\ form.built = 0 THEN {"no area"} ELSE {})
  BY DEF OnSubmit
<1>3. /\ odd \subseteq odd'
      /\ "emptied" \notin odd' /\ form.floors = <<>> => survey.floors = <<>>
  BY <1>2
<1>4. "no area" \notin odd' /\ form.floors # <<>> => form.built # 0
  BY <1>2
<1>5. /\ form' = form /\ base' = base /\ loaded' = loaded /\ survey' = survey /\ edited' = edited
      /\ doomed' = doomed /\ aim' = aim /\ adrift' = adrift /\ meant' = meant
  BY <1>1 DEF formVars, aimVars
<1> DEFINE c0 == [p |-> form, pc |-> "sent"]
<1>6. c0.p = form /\ c0.pc = "sent" /\ patch' = {c0} /\ (form \in FloorValues => c0 \in Patch)
  BY <1>1 DEF Patch
<1> HIDE DEF c0
<1>7. Sent' = {form} \cup adrift /\ adrift \subseteq Sent
  BY <1>5, <1>6 DEF Sent
<1>8. FloorsShape'
  BY <1>5, <1>6 DEF FloorsInv, FloorsShape, Patch
<1>9. odd' \cap {"row moved", "reset", "usage"} = {} => odd \cap {"row moved", "reset", "usage"} = {}
  BY <1>3
<1>10. RowsKept'
  BY <1>5, <1>9 DEF FloorsInv, RowsKept
<1>11. SavedKept'
  BY <1>1, <1>3, <1>5, <1>6 DEF SavedKept, Nothing
<1>12. AreasAddUp'
  BY <1>3, <1>4, <1>5, <1>7 DEF FloorsInv, AreasAddUp, AreaAddsUp
<1>13. MixesHold'
  BY <1>1, <1>5, <1>7 DEF FloorsInv, MixesHold, MixHolds
<1> QED
  BY <1>8, <1>10, <1>11, <1>12, <1>13 DEF FloorsInv

LEMMA PatchedKeeps ==
    ASSUME FloorsInv, Patched
    PROVE  FloorsInv'
<1>1. PICK c \in patch : /\ c.pc = "sent" /\ UpdateSurvey(c.p)
                         /\ patch' = {[c EXCEPT !.pc = "done"]}
  BY DEF Patched
<1>2. /\ form' = form /\ base' = base /\ loaded' = loaded /\ edited' = edited /\ odd' = odd
      /\ doomed' = doomed /\ aim' = aim /\ adrift' = adrift /\ meant' = meant
      /\ promised' = promised
  BY DEF Patched, formVars, aimVars
<1> DEFINE d == [c EXCEPT !.pc = "done"]
<1>3. c \in Patch /\ c.p \in Sent
  BY DEF FloorsInv, FloorsShape, Sent
<1>4. d \in Patch /\ d.p = c.p /\ d.pc = "done" /\ patch' = {d}
  BY <1>1, <1>3 DEF Patch
<1> HIDE DEF d
<1>5. Sent' \subseteq Sent
  BY <1>2, <1>3, <1>4 DEF Sent
<1>6. /\ survey' \in FloorValues /\ MixHolds(survey')
      /\ "no area" \notin odd => AreaAddsUp(survey')
      /\ c.p.floors # <<>> => survey'.floors = c.p.floors
      /\ c.p.floors = <<>> => survey'.floors = survey.floors
  BY <1>1, <1>3, UpdateKeeps
<1>7. FloorsShape'
  BY <1>2, <1>4, <1>6 DEF FloorsInv, FloorsShape, Patch
<1>8. RowsKept'
  BY <1>2 DEF FloorsInv, RowsKept
<1>9. SavedKept'
  <2>1. promised = Nothing
    BY DEF FloorsInv, SavedKept
  <2>2. odd \cap {"emptied", "late"} = {} /\ c.p.floors = <<>> => survey.floors = <<>>
    BY <1>1 DEF FloorsInv, SavedKept
  <2>3. odd \cap {"emptied", "late"} = {} => survey'.floors = c.p.floors
    BY <1>6, <2>2
  <2> QED
    BY <1>2, <1>4, <2>1, <2>3 DEF SavedKept, Nothing
<1>10. AreasAddUp'
  BY <1>2, <1>5, <1>6 DEF FloorsInv, AreasAddUp, AreaAddsUp
<1>11. MixesHold'
  BY <1>5, <1>6 DEF FloorsInv, MixesHold, MixHolds
<1> QED
  BY <1>7, <1>8, <1>9, <1>10, <1>11 DEF FloorsInv

LEMMA PatchedLateKeeps ==
    ASSUME FloorsInv, PatchedLate
    PROVE  FloorsInv'
<1>1. PICK p \in adrift : UpdateSurvey(p) /\ adrift' = adrift \ {p} /\ odd' = odd \cup {"late"}
  BY DEF PatchedLate
<1>2. /\ form' = form /\ base' = base /\ loaded' = loaded /\ edited' = edited
      /\ doomed' = doomed /\ aim' = aim /\ patch' = patch /\ meant' = meant
      /\ promised' = promised
  BY DEF PatchedLate, formVars, aimVars
<1>3. p \in Sent /\ Sent' \subseteq Sent
  BY <1>1, <1>2 DEF Sent
<1>4. /\ survey' \in FloorValues /\ MixHolds(survey')
      /\ "no area" \notin odd => AreaAddsUp(survey')
  BY <1>1, <1>3, UpdateKeeps
<1>5. FloorsShape'
  BY <1>1, <1>2, <1>4 DEF FloorsInv, FloorsShape, Patch
<1>6. odd' \cap {"row moved", "reset", "usage"} = {} => odd \cap {"row moved", "reset", "usage"} = {}
  BY <1>1
<1>7. RowsKept'
  BY <1>2, <1>6 DEF FloorsInv, RowsKept
<1>8. odd' \cap {"emptied", "late"} # {}
  BY <1>1
<1>9. SavedKept'
  BY <1>2, <1>8 DEF FloorsInv, SavedKept
<1>10. "no area" \notin odd' => "no area" \notin odd
  BY <1>1
<1>11. AreasAddUp'
  BY <1>2, <1>3, <1>4, <1>10 DEF FloorsInv, AreasAddUp, AreaAddsUp
<1>12. MixesHold'
  BY <1>3, <1>4 DEF FloorsInv, MixesHold, MixHolds
<1> QED
  BY <1>5, <1>7, <1>9, <1>11, <1>12 DEF FloorsInv

(* The survey takes the place of the form. *)
LEMMA ShowSurveyKeeps ==
    ASSUME FloorsInv, ShowSurvey(survey), UNCHANGED <<survey, aimVars>>, Sent' \subseteq Sent
    PROVE  /\ RowsKept' /\ AreasAddUp' /\ MixesHold'
           /\ form' \in FloorValues /\ base' \in FloorValues /\ loaded' \in FloorValues
           /\ meant' \in Seq(FloorRow)
           /\ odd \subseteq odd'
           /\ odd' \cap {"emptied", "late"} = {} => odd \cap {"emptied", "late"} = {}
<1>1. /\ form' = survey /\ base' = survey /\ loaded' = survey
      /\ meant' = ParseFloors(survey.floors)
      /\ survey' = survey /\ edited' = edited /\ doomed' = doomed /\ aim' = aim
  BY DEF ShowSurvey, aimVars
<1>2. odd' = odd \cup (IF edited \cup doomed # Nothing /\ survey.floors # form.floors
                       THEN {"reset"} ELSE {})
  BY DEF ShowSurvey
<1>3. survey \in FloorValues /\ survey.floors \in Seq(FloorText)
  BY DEF FloorsInv, FloorsShape, FloorValues
<1>4. odd \subseteq odd'
  BY <1>2
<1>5. "reset" \notin odd' => survey.floors = form.floors \/ (edited = Nothing /\ doomed = Nothing)
  BY <1>2 DEF Nothing
<1>6. RowsKept'
  <2> SUFFICES ASSUME odd' \cap {"row moved", "reset", "usage"} = {}
               PROVE  /\ ParseFloors(form'.floors) = meant'
                      /\ Pressed(edited', aim'.edited, form'.floors)
                      /\ Pressed(doomed', aim'.doomed, form'.floors)
    BY DEF RowsKept
  <2>1. odd \cap {"row moved", "reset", "usage"} = {} /\ "reset" \notin odd'
    BY <1>4
  <2>2. Pressed(edited, aim.edited, form.floors) /\ Pressed(doomed, aim.doomed, form.floors)
    BY <2>1 DEF FloorsInv, RowsKept
  <2>3. CASE survey.floors = form.floors
    BY <1>1, <2>2, <2>3
  <2>4. CASE edited = Nothing /\ doomed = Nothing
    BY <1>1, <2>2, <2>4 DEF Pressed
  <2> QED
    BY <1>5, <2>1, <2>3, <2>4
<1>7. "no area" \notin odd' => "no area" \notin odd
  BY <1>4
<1>8. AreasAddUp'
  BY <1>1, <1>7 DEF FloorsInv, AreasAddUp, AreaAddsUp
<1>9. MixesHold'
  BY <1>1 DEF FloorsInv, MixesHold, MixHolds
<1> QED
  BY <1>1, <1>3, <1>4, <1>6, <1>8, <1>9, ParsesIs

LEMMA SaveAnsweredKeeps ==
    ASSUME FloorsInv, SaveAnswered
    PROVE  FloorsInv'
<1>1. PICK c \in patch : c.pc = "done" /\ promised' = {ParseFloors(c.p.floors)}
  BY DEF SaveAnswered
<1>2. /\ patch' = Nothing /\ adrift' = adrift /\ ShowSurvey(survey) /\ survey' = survey
      /\ UNCHANGED <<survey, aimVars>>
  BY DEF SaveAnswered
<1>3. patch' = {} /\ Sent' \subseteq Sent
  BY <1>2 DEF Sent, Nothing
<1>4. /\ RowsKept' /\ AreasAddUp' /\ MixesHold'
      /\ form' \in FloorValues /\ base' \in FloorValues /\ loaded' \in FloorValues
      /\ meant' \in Seq(FloorRow)
      /\ odd' \cap {"emptied", "late"} = {} => odd \cap {"emptied", "late"} = {}
  BY <1>2, <1>3, ShowSurveyKeeps
<1>5. FloorsShape'
  BY <1>2, <1>3, <1>4 DEF FloorsInv, FloorsShape, aimVars
<1>6. odd' \cap {"emptied", "late"} = {} => survey.floors = c.p.floors
  BY <1>1, <1>4 DEF FloorsInv, SavedKept
<1>7. SavedKept'
  <2>1. \A m \in promised' : m = ParseFloors(c.p.floors)
    BY <1>1
  <2>2. odd' \cap {"emptied", "late"} = {} => \A m \in promised' : ParseFloors(survey'.floors) = m
    BY <1>2, <1>6, <2>1
  <2> QED
    BY <1>3, <2>2 DEF SavedKept
<1> QED
  BY <1>4, <1>5, <1>7 DEF FloorsInv

LEMMA SaveFailsKeeps ==
    ASSUME FloorsInv, SaveFails
    PROVE  FloorsInv'
<1>1. PICK c \in patch : adrift' = adrift \/ adrift' = adrift \cup {c.p}
  BY DEF SaveFails
<1>2. /\ form' = form /\ base' = base /\ loaded' = loaded /\ survey' = survey /\ edited' = edited
      /\ doomed' = doomed /\ aim' = aim /\ meant' = meant /\ promised' = promised /\ odd' = odd
      /\ patch' = {}
  BY DEF SaveFails, formVars, aimVars, Nothing
<1>3. Sent' \subseteq Sent
  BY <1>1, <1>2 DEF Sent
<1>4. c.p \in FloorValues
  BY DEF FloorsInv, FloorsShape, Patch
<1>5. FloorsShape'
  BY <1>1, <1>2, <1>4 DEF FloorsInv, FloorsShape
<1>6. RowsKept'
  BY <1>2 DEF FloorsInv, RowsKept
<1>7. SavedKept'
  BY <1>2 DEF FloorsInv, SavedKept
<1>8. AreasAddUp'
  BY <1>2, <1>3 DEF FloorsInv, AreasAddUp, AreaAddsUp
<1>9. MixesHold'
  BY <1>2, <1>3 DEF FloorsInv, MixesHold, MixHolds
<1> QED
  BY <1>5, <1>6, <1>7, <1>8, <1>9 DEF FloorsInv

LEMMA RefetchSurveyKeeps ==
    ASSUME FloorsInv, RefetchSurvey
    PROVE  FloorsInv'
<1>1. /\ survey' = survey /\ UNCHANGED <<survey, aimVars>> /\ patch' = patch /\ adrift' = adrift
      /\ promised' = promised
      /\ aim' = aim /\ edited' = edited /\ doomed' = doomed
  BY DEF RefetchSurvey, sendVars, aimVars
<1>2. Sent' \subseteq Sent
  BY <1>1 DEF Sent
<1>3. CASE ShowSurvey(survey)
  <2>1. /\ RowsKept' /\ AreasAddUp' /\ MixesHold'
        /\ form' \in FloorValues /\ base' \in FloorValues /\ loaded' \in FloorValues
        /\ meant' \in Seq(FloorRow)
        /\ odd' \cap {"emptied", "late"} = {} => odd \cap {"emptied", "late"} = {}
    BY <1>1, <1>2, <1>3, ShowSurveyKeeps
  <2>2. FloorsShape'
    BY <1>1, <2>1 DEF FloorsInv, FloorsShape, Patch
  <2>3. SavedKept'
    BY <1>1, <2>1 DEF FloorsInv, SavedKept
  <2> QED
    BY <2>1, <2>2, <2>3 DEF FloorsInv
<1>4. CASE loaded' = survey /\ UNCHANGED <<formVars, meant, odd>>
  <2>1. form' = form /\ base' = base /\ loaded' = survey /\ meant' = meant /\ odd' = odd
    BY <1>4 DEF formVars
  <2>2. FloorsShape'
    BY <1>1, <2>1 DEF FloorsInv, FloorsShape, Patch
  <2>3. RowsKept'
    BY <1>1, <2>1 DEF FloorsInv, RowsKept
  <2>4. SavedKept'
    BY <1>1, <2>1 DEF FloorsInv, SavedKept
  <2>5. AreasAddUp'
    BY <1>1, <1>2, <2>1 DEF FloorsInv, AreasAddUp, AreaAddsUp
  <2>6. MixesHold'
    BY <1>1, <1>2, <2>1 DEF FloorsInv, MixesHold, MixHolds
  <2> QED
    BY <2>2, <2>3, <2>4, <2>5, <2>6 DEF FloorsInv
<1> QED
  BY <1>3, <1>4 DEF RefetchSurvey

LEMMA LeavePageKeeps ==
    ASSUME FloorsInv, LeavePage
    PROVE  FloorsInv'
<1>1. /\ form' = loaded /\ base' = loaded /\ meant' = ParseFloors(loaded.floors)
      /\ edited' = Nothing /\ doomed' = Nothing /\ aim' = [edited |-> 0, doomed |-> 0]
      /\ patch' = {} /\ adrift' = adrift \cup {c.p : c \in {d \in patch : d.pc = "sent"}}
      /\ loaded' = loaded /\ survey' = survey /\ promised' = promised /\ odd' = odd
  BY DEF LeavePage, Nothing
<1>2. loaded \in FloorValues /\ loaded.floors \in Seq(FloorText)
  BY DEF FloorsInv, FloorsShape, FloorValues
<1>3. Sent' \subseteq Sent /\ adrift' \subseteq FloorValues
  BY <1>1 DEF FloorsInv, FloorsShape, Sent, Patch
<1>4. aim' \in [edited : Nat, doomed : Nat] /\ aim'.edited = 0 /\ aim'.doomed = 0
  BY <1>1
<1>5. FloorsShape'
  BY <1>1, <1>2, <1>3, <1>4, ParsesIs DEF FloorsInv, FloorsShape
<1>6. RowsKept'
  BY <1>1, <1>4 DEF RowsKept, Pressed
<1>7. SavedKept'
  BY <1>1 DEF FloorsInv, SavedKept
<1>8. AreasAddUp'
  BY <1>1, <1>3 DEF FloorsInv, AreasAddUp, AreaAddsUp
<1>9. MixesHold'
  BY <1>1, <1>3 DEF FloorsInv, MixesHold, MixHolds
<1> QED
  BY <1>5, <1>6, <1>7, <1>8, <1>9 DEF FloorsInv

LEMMA FloorsStart == FloorsInit => FloorsInv
<1> SUFFICES ASSUME FloorsInit
             PROVE  FloorsInv
  OBVIOUS
<1>1. /\ survey \in Records /\ loaded = survey /\ form = survey /\ base = survey
      /\ meant = ParseFloors(survey.floors) /\ edited = Nothing /\ doomed = Nothing
      /\ aim = [edited |-> 0, doomed |-> 0]
      /\ patch = {} /\ adrift = {} /\ promised = Nothing /\ odd = {}
  BY DEF FloorsInit, Nothing
<1>2. survey \in FloorValues /\ AreaAddsUp(survey) /\ MixHolds(survey)
  BY <1>1, RecordsAssumption DEF AreaAddsUp, MixHolds
<1>3. survey.floors \in Seq(FloorText)
  BY <1>2 DEF FloorValues
<1>4. aim \in [edited : Nat, doomed : Nat] /\ aim.edited = 0 /\ aim.doomed = 0
  BY <1>1
<1>5. FloorsShape
  BY <1>1, <1>2, <1>3, <1>4, ParsesIs DEF FloorsShape
<1>6. RowsKept
  BY <1>1, <1>4 DEF RowsKept, Pressed
<1>7. SavedKept
  BY <1>1 DEF SavedKept, Nothing
<1>8. Sent = {}
  BY <1>1 DEF Sent
<1>9. AreasAddUp /\ MixesHold
  BY <1>1, <1>2, <1>8 DEF AreasAddUp, MixesHold
<1> QED
  BY <1>5, <1>6, <1>7, <1>9 DEF FloorsInv

LEMMA FloorsStep == FloorsInv /\ [FloorsNext]_floorVars => FloorsInv'
<1> SUFFICES ASSUME FloorsInv, [FloorsNext]_floorVars
             PROVE  FloorsInv'
  OBVIOUS
<1>1. CASE (\E i \in DOMAIN form.floors : StartEdit(i) \/ AskDelete(i)) \/ ResetDraft \/ KeepFloor
  BY <1>1, PressingKeeps
<1>2. CASE \E r \in Sketches : SaveFloor(r)
  BY <1>2, SaveFloorKeeps
<1>3. CASE ConfirmDelete
  BY <1>3, ConfirmDeleteKeeps
<1>4. CASE SetUse
  BY <1>4, SetUseKeeps
<1>5. CASE OnSubmit
  BY <1>5, OnSubmitKeeps
<1>6. CASE Patched
  BY <1>6, PatchedKeeps
<1>7. CASE SaveAnswered
  BY <1>7, SaveAnsweredKeeps
<1>8. CASE SaveFails
  BY <1>8, SaveFailsKeeps
<1>9. CASE PatchedLate
  BY <1>9, PatchedLateKeeps
<1>10. CASE RefetchSurvey
  BY <1>10, RefetchSurveyKeeps
<1>11. CASE LeavePage
  BY <1>11, LeavePageKeeps
<1>12. CASE UNCHANGED floorVars
  BY <1>12 DEF floorVars, FloorsInv, FloorsShape, Patch, RowsKept, SavedKept, AreasAddUp, AreaAddsUp,
               MixesHold, MixHolds, Sent
<1> QED
  BY <1>1, <1>2, <1>3, <1>4, <1>5, <1>6, <1>7, <1>8, <1>9, <1>10, <1>11, <1>12 DEF FloorsNext

(* The rows, the promises and the areas of a survey's floors, whatever is  *)
(* pressed, saved, lost or late (floors-editor.tsx and the edit page).     *)
THEOREM FloorsInvariance == FloorsSpec => []FloorsInv
<1> QED
  BY FloorsStart, FloorsStep, PTL DEF FloorsSpec

(* FloorsAsMeant: the rows shown are the rows the clerk entered, what was  *)
(* reported as saved is what the survey holds, and the built-up area that  *)
(* is taxed is the sum of its floors, but for the exceptions the code has. *)
THEOREM FloorsStayAsMeant == FloorsSpec => [](FloorsTypeOK /\ FloorsAsMeant)
<1>1. FloorsInv => FloorsTypeOK
  BY DEF FloorsInv, FloorsShape, FloorsTypeOK
<1>2. FloorsInv => RowsAsMeant
  BY DEF FloorsInv, RowsKept, RowsAsMeant
<1>3. FloorsInv => SavedIsKept
  BY DEF FloorsInv, SavedKept, SavedIsKept
<1>4. FloorsInv => SurveyAddsUp
  BY DEF FloorsInv, AreasAddUp, AreaAddsUp, MixesHold, MixHolds, SurveyAddsUp
<1> QED
  BY <1>1, <1>2, <1>3, <1>4, FloorsInvariance, PTL DEF FloorsAsMeant

-----------------------------------------------------------------------------
(* The types of the pages, where the invariants above leave them open.     *)

(* What the rows, the drafts and the sessions of a role or a user may be.  *)
AccessTyped ==
    /\ rows \in SUBSET Grants /\ status \in {"none", "ACTIVE", "INACTIVE"}
    /\ list \in [Admins -> SUBSET SUBSET Grants]
    /\ signin \in BOOLEAN /\ signed \in BOOLEAN /\ stray \in BOOLEAN /\ spoiled \in BOOLEAN

LEMMA ResolveIs == \A set \in SUBSET Grants : Resolve(set) \in SUBSET Grants
BY AccessConstants DEF Resolve

LEMMA AccessTypedStep == AccessInv /\ AccessTyped /\ [AccessNext]_accessVars => AccessTyped'
<1> SUFFICES ASSUME AccessInv, AccessTyped, [AccessNext]_accessVars
             PROVE  AccessTyped'
  OBVIOUS
<1>1. /\ save \in [Admins -> SaveRequest] /\ list \in [Admins -> SUBSET SUBSET Grants]
      /\ rows \in SUBSET Grants /\ status \in {"none", "ACTIVE", "INACTIVE"}
      /\ signin \in BOOLEAN /\ signed \in BOOLEAN /\ stray \in BOOLEAN /\ spoiled \in BOOLEAN
  BY DEF AccessInv, AccessTyped
<1>2. ASSUME list' \in [Admins -> SUBSET SUBSET Grants], rows' \in SUBSET Grants,
             status' \in {"none", "ACTIVE", "INACTIVE"},
             signin' \in BOOLEAN, signed' \in BOOLEAN, stray' \in BOOLEAN, spoiled' \in BOOLEAN
      PROVE  AccessTyped'
  BY <1>2 DEF AccessTyped
<1>3. ASSUME NEW a \in Admins, LoadRows(a) \/ Saved(a)
      PROVE  AccessTyped'
  BY <1>1, <1>2, <1>3 DEF LoadRows, Saved, sessionVars
<1>4. ASSUME NEW a \in Admins, SaveFailed(a) \/ Deactivate(a)
      PROVE  AccessTyped'
  BY <1>1, <1>2, <1>4 DEF SaveFailed, Deactivate, sessionVars
<1>5. ASSUME NEW a \in Admins, NEW draft, NEW s, SaveForm(a, draft, s)
      PROVE  AccessTyped'
  BY <1>1, <1>2, <1>5 DEF SaveForm, sessionVars
<1>6. ASSUME NEW a \in Admins, WriteStatus(a)
      PROVE  AccessTyped'
  <2>1. save[a].status \in {"none", "ACTIVE", "INACTIVE"}
    BY <1>1 DEF SaveRequest
  <2>2. status' = save[a].status /\ UNCHANGED <<rows, list, signin, signed, stray, spoiled>>
    BY <1>6 DEF WriteStatus, sessionVars
  <2> QED
    BY <1>1, <1>2, <2>1, <2>2
<1>7. ASSUME NEW a \in Admins, DeleteRows(a)
      PROVE  AccessTyped'
  BY <1>1, <1>2, <1>7 DEF DeleteRows, DeleteAll, sessionVars, Overlapped
<1>8. ASSUME NEW a \in Admins, CreateRows(a)
      PROVE  AccessTyped'
  <2> DEFINE set == Resolve(save[a].set)
             clash == rows \cap set # {}
  <2>1. set \in SUBSET Grants
    BY <1>1, ResolveIs DEF SaveRequest
  <2>2. /\ rows' = IF clash THEN rows ELSE rows \cup set
        /\ spoiled' = (spoiled /\ (clash \/ Overlapped(a) \/ rows # {}))
        /\ stray' = (stray \/ (clash /\ EndsSessions(a)))
        /\ UNCHANGED <<status, list, signin, signed>>
    BY <1>8, Zenon DEF CreateRows
  <2> HIDE DEF set
  <2>3. spoiled' \in BOOLEAN /\ stray' \in BOOLEAN
    BY <1>1, <2>2
  <2>4. rows' \in SUBSET Grants
    BY <1>1, <2>1, <2>2
  <2> QED
    BY <1>1, <1>2, <2>2, <2>3, <2>4
<1>9. ASSUME NEW a \in Admins, RevokeSessions(a)
      PROVE  AccessTyped'
  BY <1>1, <1>2, <1>9 DEF RevokeSessions
<1>10. ASSUME NEW a \in Admins, RequestDies(a)
      PROVE  AccessTyped'
  <2>1. /\ spoiled' = (spoiled \/ save[a].pc = "create")
        /\ stray' = (stray \/ (save[a].pc # "status" /\ EndsSessions(a)))
        /\ UNCHANGED <<rows, list, status, signin, signed>>
    BY <1>10 DEF RequestDies
  <2>2. spoiled' \in BOOLEAN /\ stray' \in BOOLEAN
    BY <1>1, <2>1
  <2> QED
    BY <1>1, <1>2, <2>1, <2>2
<1>11. ASSUME NEW set \in SUBSET Grants, CreateUser(set)
      PROVE  AccessTyped'
  <2>1. rows' = Resolve(set) /\ status' = "ACTIVE" /\ UNCHANGED <<list, signin, signed, stray, spoiled>>
    BY <1>11 DEF CreateUser, sessionVars
  <2> QED
    BY <1>1, <1>2, <2>1, ResolveIs
<1>12. ASSUME LookAtStatus \/ CreateSession
      PROVE  AccessTyped'
  <2>1. signin' \in BOOLEAN /\ signed' \in BOOLEAN /\ stray' \in BOOLEAN
    BY <1>1, <1>12 DEF LookAtStatus, CreateSession
  <2>2. UNCHANGED <<rows, list, status, spoiled>>
    BY <1>12 DEF LookAtStatus, CreateSession
  <2> QED
    BY <1>1, <1>2, <2>1, <2>2
<1>13. CASE UNCHANGED accessVars
  BY <1>1, <1>2, <1>13 DEF accessVars
<1> QED
  BY <1>3, <1>4, <1>5, <1>6, <1>7, <1>8, <1>9, <1>10, <1>11, <1>12, <1>13 DEF AccessNext

LEMMA AccessTypedStart == AccessInit => AccessTyped
<1> SUFFICES ASSUME AccessInit
             PROVE  AccessTyped
  OBVIOUS
<1>1. rows \in SUBSET Grants /\ list = [a \in Admins |-> {}] /\ signin = FALSE /\ stray = FALSE /\ spoiled = FALSE
  BY DEF AccessInit
<1>2. signed = (status = "ACTIVE")
  BY DEF AccessInit
<1>3. status \in {"none", "ACTIVE", "INACTIVE"}
  <2>1. CASE holder = "role"
    BY <2>1 DEF AccessInit
  <2>2. CASE holder # "role"
    BY <2>2 DEF AccessInit
  <2> QED
    BY <2>1, <2>2
<1> QED
  BY <1>1, <1>2, <1>3 DEF AccessTyped

LEMMA AccessTypes == AccessInv /\ AccessTyped => AccessTypeOK
<1> SUFFICES ASSUME AccessInv, AccessTyped
             PROVE  AccessTypeOK
  OBVIOUS
<1>1. save \in [Admins -> SaveRequest] /\ holder \in {"role", "user"}
  BY DEF AccessInv
<1>2. {signin, signed, stray, spoiled} \subseteq BOOLEAN
  BY DEF AccessTyped
<1> QED
  BY <1>1, <1>2 DEF AccessTyped, AccessTypeOK, SaveRequest, SavePcs

(* Previews are numbered as they are asked for. *)
ClosingTyped ==
    /\ closed \subseteq Pairs
    /\ shown \subseteq [p : Pairs, committed : BOOLEAN, late : BOOLEAN]
    /\ \A c \in inquiries : c.n \in 1..asks

LEMMA ClosingTypedStep == ClosingInv /\ ClosingTyped /\ [ClosingNext]_closingVars => ClosingTyped'
<1> SUFFICES ASSUME ClosingInv, ClosingTyped, [ClosingNext]_closingVars
             PROVE  ClosingTyped'
  OBVIOUS
<1>1. /\ pair \in Pairs /\ asks \in Nat /\ inquiries \subseteq Inquiry /\ carries \subseteq Carry
      /\ closed \subseteq Pairs /\ shown \subseteq [p : Pairs, committed : BOOLEAN, late : BOOLEAN]
      /\ \A c \in inquiries : c.n \in 1..asks
  BY DEF ClosingInv, ClosingTyped
<1>2. ASSUME closed' \subseteq Pairs, shown' \subseteq [p : Pairs, committed : BOOLEAN, late : BOOLEAN],
             asks' = asks, \A c \in inquiries' : c.n \in 1..asks
      PROVE  ClosingTyped'
  BY <1>2 DEF ClosingTyped
<1>3. ASSUME MutatePreview, UNCHANGED <<closed, shown>>
      PROVE  ClosingTyped'
  <2> DEFINE n == asks + 1
             c == [n |-> n, p |-> pair, found |-> {}]
  <2>1. n \in Nat /\ n \in 1..n /\ \A k \in 1..asks : k \in 1..n
    BY <1>1
  <2>2. asks' = n /\ inquiries' = inquiries \cup {c}
    BY <1>3, Zenon DEF MutatePreview
  <2>3. c.n = n
    OBVIOUS
  <2> HIDE DEF n, c
  <2>4. \A d \in inquiries' : d.n \in 1..asks'
    BY <1>1, <2>1, <2>2, <2>3
  <2> QED
    BY <1>1, <1>3, <2>4 DEF ClosingTyped
<1>4. ASSUME NEW s, NEW y, ChooseYear(s, y)
      PROVE  ClosingTyped'
  BY <1>1, <1>2, <1>4 DEF ChooseYear, Cleared
<1>5. CASE PressPreview
  BY <1>3, <1>5 DEF PressPreview
<1>6. CASE PressCommit
  BY <1>1, <1>2, <1>6 DEF PressCommit
<1>7. ASSUME NEW c \in inquiries, PreviewYearEnd(c)
      PROVE  ClosingTyped'
  <2> DEFINE d == [c EXCEPT !.found = {c.p \in closed}]
  <2>1. inquiries' = (inquiries \ {c}) \cup {d} /\ UNCHANGED <<shown, asks, closed>>
    BY <1>7, Zenon DEF PreviewYearEnd
  <2>2. d.n = c.n
    BY <1>1 DEF Inquiry
  <2> HIDE DEF d
  <2>3. \A e \in inquiries' : e.n \in 1..asks
    BY <1>1, <2>1, <2>2
  <2> QED
    BY <1>1, <1>2, <2>1, <2>3
<1>8. ASSUME NEW c \in inquiries, PreviewShown(c)
      PROVE  ClosingTyped'
  <2> DEFINE s == [p |-> c.p, committed |-> TRUE \in c.found, late |-> c.p # pair]
  <2>1. s \in [p : Pairs, committed : BOOLEAN, late : BOOLEAN]
    BY <1>1 DEF Inquiry
  <2>2. shown' = {s} /\ inquiries' \subseteq inquiries /\ UNCHANGED <<asks, closed>>
    BY <1>8 DEF PreviewShown
  <2> HIDE DEF s
  <2> QED
    BY <1>1, <1>2, <2>1, <2>2
<1>9. ASSUME NEW c \in inquiries, PreviewFails(c)
      PROVE  ClosingTyped'
  BY <1>1, <1>2, <1>9 DEF PreviewFails
<1>10. ASSUME NEW c \in carries, CommitYearEnd(c)
       PROVE  ClosingTyped'
  <2>1. closed' = closed \cup {c.p} /\ c.p \in Pairs /\ UNCHANGED <<shown, asks, inquiries>>
    BY <1>1, <1>10 DEF CommitYearEnd, Carry
  <2> QED
    BY <1>1, <1>2, <2>1
<1>11. ASSUME NEW c \in carries, CommitAnswered(c)
       PROVE  ClosingTyped'
  BY <1>3, <1>11 DEF CommitAnswered
<1>12. ASSUME NEW c \in carries, CommitFails(c)
       PROVE  ClosingTyped'
  BY <1>1, <1>2, <1>12 DEF CommitFails
<1>13. ASSUME NEW p \in Pairs, ClosedElsewhere(p)
       PROVE  ClosingTyped'
  BY <1>1, <1>2, <1>13 DEF ClosedElsewhere
<1>14. CASE UNCHANGED closingVars
  BY <1>1, <1>2, <1>14 DEF closingVars
<1> QED
  BY <1>4, <1>5, <1>6, <1>7, <1>8, <1>9, <1>10, <1>11, <1>12, <1>13, <1>14 DEF ClosingNext

LEMMA ClosingTypes == ClosingInv /\ ClosingTyped => ClosingTypeOK
BY DEF ClosingInv, ClosingTyped, Inquiry, Carry, ClosingTypeOK

LEMMA DeskTypes == DeskInv => DeskTypeOK
<1> SUFFICES ASSUME DeskInv
             PROVE  DeskTypeOK
  OBVIOUS
<1>1. DeskShape /\ desk.last \subseteq coll /\ \A q \in DeskReqs : sent[q].got \subseteq coll
  BY DEF DeskInv, PageKnows
<1>2. desk \in [step : 0..4, sel : SUBSET Parcels, amt : Amounts, key : 0..MaxConfirms,
                wait : SUBSET DeskReqs, last : SUBSET coll, sub : Collection, forked : BOOLEAN]
  BY <1>1 DEF DeskShape, DeskPage
<1>3. sent \in [DeskReqs -> [pc : {"idle", "lookup", "collect", "ok", "error"},
                             sub : Collection, got : SUBSET coll]]
  BY <1>1 DEF DeskShape, DeskRequest
<1> QED
  BY <1>1, <1>2, <1>3 DEF DeskShape, DeskTypeOK

LEMMA ScreenTypes == ScreenInv => ScreenTypeOK
<1> SUFFICES ASSUME ScreenInv
             PROVE  ScreenTypeOK
  OBVIOUS
<1>1. scr \in ScreenState /\ pages \in [Filters \X Finds -> 1..MaxPages]
  BY DEF ScreenInv
<1> QED
  BY <1>1, ScreenFields DEF ScreenTypeOK, Query

LEMMA AssessTypes == AssessInv => AssessTypeOK
BY DEF AssessInv, AccountOK, AssessTypeOK

-----------------------------------------------------------------------------
(* The parts together.  MCOffice lets one part move and the others stand   *)
(* still; so what is proved of a part's specification holds of the sum.    *)

LEMMA ScreensAreAPart == MCSpec => ScreenSpec
<1>1. MCInit => ScreenInit
  BY DEF MCInit
<1>2. [MCNext]_officeVars => [ScreenNext]_screenVars
  BY DEF MCNext, officeVars, ScreensPart
<1> QED
  BY <1>1, <1>2, PTL DEF MCSpec, ScreenSpec

LEMMA FiguresAreAPart == MCSpec => FiguresSpec
<1>1. MCInit => FiguresInit
  BY DEF MCInit
<1>2. [MCNext]_officeVars => [FiguresNext]_figureVars
  BY DEF MCNext, officeVars, FiguresPart
<1> QED
  BY <1>1, <1>2, PTL DEF MCSpec, FiguresSpec

LEMMA RatesAreAPart == MCSpec => RatesSpec
<1>1. MCInit => RatesInit
  BY DEF MCInit
<1>2. [MCNext]_officeVars => [RatesNext]_rateVars
  BY DEF MCNext, officeVars, RatesPart
<1> QED
  BY <1>1, <1>2, PTL DEF MCSpec, RatesSpec

LEMMA ReferenceIsAPart == MCSpec => RefSpec
<1>1. MCInit => RefInit
  BY DEF MCInit
<1>2. [MCNext]_officeVars => [RefNext]_refVars
  BY DEF MCNext, officeVars, ReferencePart
<1> QED
  BY <1>1, <1>2, PTL DEF MCSpec, RefSpec

LEMMA DeskIsAPart == MCSpec => DeskSpec
<1>1. MCInit => DeskInit
  BY DEF MCInit
<1>2. [MCNext]_officeVars => [DeskNext]_deskVars
  BY DEF MCNext, officeVars, DeskPart
<1> QED
  BY <1>1, <1>2, PTL DEF MCSpec, DeskSpec

LEMMA AccessIsAPart == MCSpec => AccessSpec
<1>1. MCInit => AccessInit
  BY DEF MCInit
<1>2. [MCNext]_officeVars => [AccessNext]_accessVars
  BY DEF MCNext, officeVars, AccessPart
<1> QED
  BY <1>1, <1>2, PTL DEF MCSpec, AccessSpec

LEMMA PapersAreAPart == MCSpec => AssessSpec
<1>1. MCInit => AssessInit
  BY DEF MCInit
<1>2. [MCNext]_officeVars => [AssessNext]_assessVars
  <2>1. BillPart \/ PayPart => AssessNext
    BY DEF BillPart, PayPart, AssessNext, Billing
  <2> QED
    BY <2>1 DEF MCNext, officeVars
<1> QED
  BY <1>1, <1>2, PTL DEF MCSpec, AssessSpec

LEMMA GatewayIsAPart == MCSpec => GatewaySpec
<1>1. MCInit => GatewayInit
  BY DEF MCInit
<1>2. [MCNext]_officeVars => [GatewayNext]_gatewayVars
  BY DEF MCNext, officeVars, GatewayPart
<1> QED
  BY <1>1, <1>2, PTL DEF MCSpec, GatewaySpec

LEMMA FloorsAreAPart == MCSpec => FloorsSpec
<1>1. MCInit => FloorsInit
  BY DEF MCInit
<1>2. [MCNext]_officeVars => [FloorsNext]_floorVars
  BY DEF MCNext, officeVars, FloorsPart
<1> QED
  BY <1>1, <1>2, PTL DEF MCSpec, FloorsSpec

LEMMA ClosingIsAPart == MCSpec => ClosingSpec
<1>1. MCInit => ClosingInit
  BY DEF MCInit
<1>2. [MCNext]_officeVars => [ClosingNext]_closingVars
  BY DEF MCNext, officeVars, ClosingPart
<1> QED
  BY <1>1, <1>2, PTL DEF MCSpec, ClosingSpec

(* A browser whose checkout is open has its order. *)
LEMMA FirstOrderIs == FirstOrder \in Orders
<1>1. \E p \in Orders : \A q \in Orders : p <= q
  BY SomeOrder, SiteConstants, LeastNat
<1> QED
  BY <1>1 DEF FirstOrder

LEMMA FirstIsLeast == \A q \in Orders : FirstOrder <= q
<1>1. \E p \in Orders : \A q \in Orders : p <= q
  BY SomeOrder, SiteConstants, LeastNat
<1> QED
  BY <1>1 DEF FirstOrder

LEMMA SiteStarts == MCInit => SiteInv
<1> SUFFICES ASSUME MCInit
             PROVE  SiteInv
  OBVIOUS
<1>1. /\ check = [t \in Tabs |-> NoCheck] /\ owed = TRUE /\ calls = {} /\ failures = 0 /\ srch = NoSearch
      /\ \/ AtCheckout
         \/ /\ order = [p \in Orders |-> NoOrder]
            /\ \E open : tab = [t \in Tabs |-> [NoTab EXCEPT !.at = IF open /\ t \notin Followed
                                                                THEN "search" ELSE "closed"]]
  BY DEF MCInit
<1>2. SearchInv /\ SearchesCounted
  BY <1>1, SearchStart
<1> DEFINE at == [NoTab EXCEPT !.at = "checkout", !.payable = TRUE, !.submitted = TRUE, !.pid = {FirstOrder}]
           none == [NoTab EXCEPT !.at = "closed"]
           one == [NoOrder EXCEPT !.st = "PENDING", !.recent = TRUE, !.gw = "open"]
<1>3. /\ NoTab \in TabPage /\ NoTab.pid = {} /\ NoTab.shown = "none"
      /\ none \in TabPage /\ none.pid = {} /\ none.shown = "none"
      /\ at \in TabPage /\ at.at = "checkout" /\ at.pid = {FirstOrder} /\ at.shown = "none"
  BY NewTabs, FirstOrderIs DEF NoTab, TabPage
<1>4. /\ NoOrder \in OrderRow /\ NoOrder.st = "none"
      /\ one \in OrderRow /\ one.st = "PENDING"
  BY DEF NoOrder, OrderRow, Comings, OpenStates
<1>5. AtCheckout => /\ tab = [t \in Tabs |-> IF t \in Followed THEN at ELSE none]
                    /\ order = [p \in Orders |-> IF p # FirstOrder THEN NoOrder ELSE one]
  BY Zenon DEF AtCheckout
<1>6. ASSUME NEW t \in Tabs, ~AtCheckout
      PROVE  tab[t] \in {[NoTab EXCEPT !.at = "search"], none}
  <2>1. PICK open : tab = [u \in Tabs |-> [NoTab EXCEPT !.at = IF open /\ u \notin Followed
                                                          THEN "search" ELSE "closed"]]
    BY <1>1, <1>6
  <2>2. tab[t] = [NoTab EXCEPT !.at = IF open /\ t \notin Followed THEN "search" ELSE "closed"]
    BY <2>1
  <2> QED
    BY <2>2
<1>7. ~AtCheckout => \E open : tab = [t \in Tabs |-> [NoTab EXCEPT !.at = IF open /\ t \notin Followed
                                                                      THEN "search" ELSE "closed"]]
  BY <1>1
<1>8. LET looking == [NoTab EXCEPT !.at = "search"]
      IN  looking \in TabPage /\ looking.pid = {} /\ looking.shown = "none"
  BY DEF NoTab, TabPage
<1> HIDE DEF at, none, one
<1>9. tab \in [Tabs -> TabPage]
  <2>1. CASE AtCheckout
    BY <1>3, <1>5, <2>1
  <2>2. CASE ~AtCheckout
    <3>1. PICK open : tab = [t \in Tabs |-> [NoTab EXCEPT !.at = IF open /\ t \notin Followed
                                                            THEN "search" ELSE "closed"]]
      BY <1>7, <2>2
    <3> DEFINE n(t) == [NoTab EXCEPT !.at = IF open /\ t \notin Followed THEN "search" ELSE "closed"]
    <3>2. \A t \in Tabs : n(t) \in TabPage
      BY <1>3 DEF TabPage
    <3>3. tab = [t \in Tabs |-> n(t)]
      BY <3>1
    <3> HIDE DEF n
    <3> QED
      BY <3>2, <3>3
  <2> QED
    BY <2>1, <2>2
<1>10. /\ \A t \in Tabs : tab[t].shown = "none"
       /\ \A t \in Tabs : tab[t].at # "checkout" => tab[t].pid = {}
       /\ \A t \in Tabs : tab[t].pid # {} => AtCheckout /\ tab[t].pid = {FirstOrder}
  BY <1>3, <1>5, <1>6, <1>8
<1>11. /\ order \in [Orders -> OrderRow]
       /\ \A p \in Orders : order[p] = NoOrder \/ (p = FirstOrder /\ order[p] = one)
       /\ AtCheckout => order[FirstOrder] = one
  BY <1>1, <1>4, <1>5, FirstOrderIs
<1>12. TabsTyped
  BY <1>1, <1>9, SiteConstants DEF TabsTyped
<1>13. OrdersInv
  <2>1. \A p \in Orders : ~Placed(p) => order[p] = NoOrder
    BY <1>4, <1>11 DEF Placed
  <2>2. \A p, q \in Orders : Placed(q) => q <= p
    BY <1>4, <1>11, FirstOrderIs, SiteConstants, FirstIsLeast DEF Placed
  <2>3. \A t \in Tabs : tab[t].pid \subseteq {p \in Orders : Placed(p)}
    BY <1>4, <1>10, <1>11, FirstOrderIs DEF Placed
  <2> QED
    BY <1>1, <1>11, <2>1, <2>2, <2>3, OrdersStart
<1>14. MoneyInv
  <2>1. \A p \in Orders : order[p].st # "SUCCESS"
    BY <1>4, <1>11
  <2>2. \A t \in Tabs : check[t].awaited = FALSE
    BY <1>1 DEF NoCheck
  <2> QED
    BY <1>1, <1>10, <2>1, <2>2 DEF MoneyInv, SuccessShownIsPaid
<1> QED
  BY <1>2, <1>12, <1>13, <1>14 DEF SiteInv

LEMMA SiteIsAPart == MCSpec => [](SiteInv /\ SiteTypeOK)
<1>1. [MCNext]_officeVars => [SiteNext]_siteVars
  BY DEF MCNext, officeVars, SearchPart, SitePart, ReturnPart, SiteNext
<1> QED
  BY <1>1, SiteStarts, SiteStep, SiteTypes, PTL DEF MCSpec

(* ScreensAgree: a list shows a page that it has, with what was asked for, *)
(* and the figures, wards and totals of the dashboard belong together (the *)
(* portal's list pages; getSummary of dashboard.service.ts).               *)
THEOREM ScreensStayAgreed == MCSpec => []ScreensAgree
<1> QED
  BY ScreensAreAPart, FiguresAreAPart, PagesExist, DashboardAddsUp, PTL DEF ScreensAgree

(* OfficeTypeOK: the state of every part keeps its shape, in the           *)
(* specification that puts the parts together.                             *)
THEOREM OfficeTyped == MCSpec => []OfficeTypeOK
<1>1. MCSpec => [](RatesTypeOK /\ RefTypeOK)
  BY RatesAreAPart, ReferenceIsAPart, RatesTyped, ReferenceTyped, PTL
<1>2. MCSpec => []DeskTypeOK
  BY DeskIsAPart, DeskInvariance, DeskTypes, PTL
<1>3. MCSpec => []SiteTypeOK
  BY SiteIsAPart, PTL
<1>4. MCSpec => []ScreenTypeOK
  BY ScreensAreAPart, ScreenInvariance, ScreenTypes, PTL
<1>5. MCSpec => []AccessTypeOK
  BY AccessIsAPart, AccessInvariance, AccessTypedStart, AccessTypedStep, AccessTypes, PTL DEF AccessSpec
<1>6. MCSpec => []AssessTypeOK
  BY PapersAreAPart, AssessInvariance, AssessTypes, PTL
<1>7. MCSpec => []GatewayTypeOK
  BY GatewayIsAPart, GatewayTyped, PTL
<1>8. MCSpec => []FloorsTypeOK
  BY FloorsAreAPart, FloorsStayAsMeant, PTL
<1>9. MCSpec => []ClosingTypeOK
  <2>1. ClosingInit => ClosingTyped
    BY DEF ClosingInit, ClosingTyped
  <2> QED
    BY <2>1, ClosingIsAPart, ClosingInvariance, ClosingTypedStep, ClosingTypes, PTL DEF ClosingSpec
<1>10. MCSpec => []FiguresTypeOK
  BY FiguresAreAPart, DashboardAddsUp, PTL
<1> QED
  BY <1>1, <1>2, <1>3, <1>4, <1>5, <1>6, <1>7, <1>8, <1>9, <1>10, PTL DEF OfficeTypeOK

(* What the office run checks holds of the specification it checks: the    *)
(* parts' properties, each for every value of its constants, hold where    *)
(* the parts are put together.                                             *)
THEOREM OfficeHolds ==
    MCSpec => /\ [](/\ RatesAreVersioned /\ YearsDisjoint /\ PassCollectsOnce /\ NoOpenOrderPassedBy
                    /\ SuccessShownIsPaid /\ ResultsAnswerQuery /\ ScreensAgree /\ AccessIsAsSaved /\ PapersAgree
                    /\ BooksAgree /\ FloorsAsMeant /\ CommitsWhatIsShown)
              /\ BilledAsShown
<1>1. MCSpec => []RatesAreVersioned /\ BilledAsShown
  BY RatesAreAPart, VersionsTell, BillsAsShown
<1>2. MCSpec => []YearsDisjoint
  BY ReferenceIsAPart, DayHasOneYear
<1>3. MCSpec => []PassCollectsOnce
  BY DeskIsAPart, OncePerPass
<1>4. MCSpec => [](NoOpenOrderPassedBy /\ SuccessShownIsPaid /\ ResultsAnswerQuery)
  <2>1. SiteInv => NoOpenOrderPassedBy /\ SuccessShownIsPaid /\ ResultsAnswerQuery
    BY OrdersKnow DEF SiteInv, MoneyInv, SearchInv, ResultsAnswerQuery
  <2> QED
    BY <2>1, SiteIsAPart, PTL
<1>5. MCSpec => []AccessIsAsSaved
  BY AccessIsAPart, GrantsAsSaved
<1>6. MCSpec => []PapersAgree
  BY PapersAreAPart, PapersStayAgreed
<1>7. MCSpec => []BooksAgree
  BY GatewayIsAPart, BooksStayEven
<1>8. MCSpec => []FloorsAsMeant
  BY FloorsAreAPart, FloorsStayAsMeant, PTL
<1>9. MCSpec => []CommitsWhatIsShown
  BY ClosingIsAPart, CommitsAsShown
<1> QED
  BY <1>1, <1>2, <1>3, <1>4, <1>5, <1>6, <1>7, <1>8, <1>9, ScreensStayAgreed, PTL
=============================================================================
