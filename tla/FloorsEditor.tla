---------------------------- MODULE FloorsEditor ----------------------------
(***************************************************************************)
(* The floors of one survey on the edit page: the editor of floor rows     *)
(* over the text the form keeps (every change writes the rows out and      *)
(* reads them back), the built-up area that follows from them, the check   *)
(* of a mixed use, and the PATCH that saves the form, which may fail, be   *)
(* applied after the page stopped waiting, or have its read-back fail.     *)
(***************************************************************************)
EXTENDS Integers, Sequences, SequencesExt, FiniteSets

CONSTANTS Storeys, Uses, Roofs,  \* labels, usage types and constructions of a floor
          Sketches,              \* the rows the clerk may fill in
          Records,               \* what a survey may start as
          MaxFloors, MaxChanges, MaxSubmits, MaxDrifts

Unset == ""   \* a text that is not there

ASSUME FloorsAssumption ==
    /\ Unset \notin Storeys \cup Uses \cup Roofs
    /\ Sketches \subseteq [label : Storeys, area : Nat, use : Uses \cup {Unset}, roof : Roofs \cup {Unset}]

VARIABLES form,     \* the values of the form: floors as text, built-up area, mixed use
          base,     \* the values it was last reset to
          loaded,   \* the survey as last fetched
          survey,   \* the survey in the database
          edited,   \* id of the row "Edit" was pressed on
          doomed,   \* id of the row the delete dialog asks about
          patch,    \* the PATCH awaited by the page
          adrift,   \* PATCHes nobody awaits that may still be applied
          meant,    \* the floors as the clerk put them
          aim,      \* where among them the edited and the doomed row are
          promised, \* the floors the clerk was told are saved
          odd,      \* which exceptions happened
          work      \* how often what was done

formVars == <<form, base>>
aimVars == <<edited, doomed, aim>>
sendVars == <<patch, adrift, promised>>
floorVars == <<form, base, loaded, survey, edited, doomed, patch, adrift, meant, aim, promised, odd, work>>

Nothing == {}   \* no id, no PATCH, nothing promised; otherwise the set of one

-----------------------------------------------------------------------------
(* The text of a floor keeps the label, the area and the values written as  *)
(* "Usage Type": the usage first, then the construction, when given.        *)

Given(v) == IF v = Unset THEN <<>> ELSE <<v>>
SerializeFloor(r) == [label |-> r.label, area |-> r.area,
                      types |-> Given(r.use) \o Given(r.roof)]

ParseFloor(s) ==
    LET Nth(n) == IF n <= Len(s.types) THEN s.types[n] ELSE Unset IN
    [label |-> s.label, area |-> s.area, use |-> Nth(1), roof |-> Nth(2)]

SerializeFloors(rows) == [i \in DOMAIN rows |-> SerializeFloor(rows[i])]
ParseFloors(text) == [i \in DOMAIN text |-> ParseFloor(text[i])]

\* A row is known by its place and its label, both read from the text.
\* Mutant: by the label alone
MutIdOf(text, i) == {<<0, text[i].label>>}

IdOf(text, i) == {<<i, text[i].label>>}

Places(text, id) == {i \in DOMAIN text : IdOf(text, i) = id}

SumArea(text) == LET area == [i \in DOMAIN text |-> text[i].area]
                 IN  MapThenSumSet(LAMBDA i : area[i], DOMAIN area)

\* The area of each usage, "Unspecified" being one
Composition(text) ==
    [u \in {r.use : r \in ToSet(ParseFloors(text))} |->
        SumArea(SelectSeq(text, LAMBDA s : ParseFloor(s).use = u))]

\* A mixed use needs two usages and some area
MixedError(text) ==
    Cardinality(DOMAIN Composition(text)) < 2 \/ SumArea(text) <= 0

-----------------------------------------------------------------------------
\* A form brought back to the values it was reset to has no changes, and the
\* effect resets it to the survey as last fetched, which may be another one
Becomes(f, slips) ==
    /\ form' = IF f = base THEN loaded ELSE f
    /\ base' = IF f = base THEN loaded ELSE base
    /\ odd' = odd \cup slips \cup (IF f = base /\ loaded # base THEN {"reset"} ELSE {})

\* commit: the rows are written out and the built-up area follows
Commit(rows, slips) == LET text == SerializeFloors(rows) IN
                       Becomes([form EXCEPT !.floors = text, !.built = SumArea(text)], slips)

Bounded(what, most) == work[what] < most /\ work' = [work EXCEPT ![what] = @ + 1]

StartEdit(i) ==
    /\ doomed = Nothing
    /\ edited' = IdOf(form.floors, i) /\ aim' = [aim EXCEPT !.edited = i]
    /\ UNCHANGED <<formVars, loaded, survey, doomed, sendVars, meant, odd, work>>

ResetDraft ==
    /\ edited # Nothing /\ doomed = Nothing
    /\ edited' = Nothing /\ aim' = [aim EXCEPT !.edited = 0]
    /\ UNCHANGED <<formVars, loaded, survey, doomed, sendVars, meant, odd, work>>

\* The inputs, filled in: no select has an empty choice, so that only a row
\* read without usage can be saved without, and the area must be above 0
Filled(r, before) == r.area > 0 /\ (r.use = Unset => \E b \in before : b.use = Unset)

\* "Save floor" adds the row, "Update floor" puts it in the place of the row
\* whose id is the edited one
SaveFloor(r) ==
    LET rows == ParseFloors(form.floors)
        at == Places(form.floors, edited)
        slips == IF r.use = Unset /\ r.roof # Unset THEN {"usage"} ELSE {} IN
    /\ doomed = Nothing /\ Bounded("changes", MaxChanges)
    /\ Filled(r, {rows[i] : i \in at})
    /\ \/ edited # Nothing
          /\ Commit([i \in DOMAIN rows |-> IF i \in at THEN r ELSE rows[i]], slips)
          /\ meant' = [i \in DOMAIN meant |-> IF i = aim.edited THEN r ELSE meant[i]]
       \/ edited = Nothing /\ Len(rows) < MaxFloors
          /\ Commit(Append(rows, r), slips) /\ meant' = Append(meant, r)
    /\ edited' = Nothing /\ aim' = [aim EXCEPT !.edited = 0]
    /\ UNCHANGED <<loaded, survey, doomed, sendVars>>

AskDelete(i) ==
    /\ doomed = Nothing
    /\ doomed' = IdOf(form.floors, i) /\ aim' = [aim EXCEPT !.doomed = i]
    /\ UNCHANGED <<formVars, loaded, survey, edited, sendVars, meant, odd, work>>

KeepFloor ==
    /\ doomed # Nothing
    /\ doomed' = Nothing /\ aim' = [aim EXCEPT !.doomed = 0]
    /\ UNCHANGED <<formVars, loaded, survey, edited, sendVars, meant, odd, work>>

\* The rows that are not at these places
Without(s, places) ==
    LET left == {i \in DOMAIN s : i \notin places} IN
    [k \in 1..Cardinality(left) |->
        s[CHOOSE i \in left : Cardinality({j \in left : j <= i}) = k]]

\* The draft goes only with the row it edits: the id of an edited row below
\* the deleted one then names another row, or none
ConfirmDelete ==
    LET rows == ParseFloors(form.floors)
        below == aim.doomed < aim.edited IN
    /\ doomed # Nothing /\ Bounded("changes", MaxChanges)
    /\ Commit(Without(rows, Places(form.floors, doomed)), IF below THEN {"row moved"} ELSE {})
    /\ meant' = Without(meant, {aim.doomed})
    /\ edited' = IF edited = doomed THEN Nothing ELSE edited
    /\ doomed' = Nothing
    /\ aim' = [doomed |-> 0, edited |-> IF edited = doomed THEN 0
                                        ELSE aim.edited - (IF below THEN 1 ELSE 0)]
    /\ UNCHANGED <<loaded, survey, sendVars>>

\* The property use is mixed or not; the floors stay
SetUse ==
    /\ doomed = Nothing /\ Bounded("changes", MaxChanges)
    /\ Becomes([form EXCEPT !.mixed = ~@], {})
    /\ UNCHANGED <<loaded, survey, aimVars, sendVars, meant>>

-----------------------------------------------------------------------------
\* A field that is empty is not sent, and what is not sent stays
UpdateSurvey(p) ==
    survey' = [floors |-> IF p.floors = <<>> THEN survey.floors ELSE p.floors,
               built  |-> IF p.built = 0 THEN survey.built ELSE p.built,
               mixed  |-> p.mixed]

\* Save Changes: with changes only, and one at a time
SaveOffered == form # base /\ patch = Nothing

OnSubmit ==
    /\ SaveOffered /\ doomed = Nothing /\ Bounded("submits", MaxSubmits)
    /\ ~(form.mixed /\ MixedError(form.floors))
    /\ patch' = {[p |-> form, pc |-> "sent"]}
    /\ promised' = Nothing
    /\ odd' = odd \cup (IF form.floors = <<>> /\ survey.floors # <<>> THEN {"emptied"} ELSE {})
                   \cup (IF form.floors # <<>> /\ form.built = 0 THEN {"no area"} ELSE {})
    /\ UNCHANGED <<formVars, loaded, survey, aimVars, adrift, meant>>

Patched ==
    \E c \in patch :
        /\ c.pc = "sent" /\ UpdateSurvey(c.p)
        /\ patch' = {[c EXCEPT !.pc = "done"]}
        /\ UNCHANGED <<formVars, loaded, aimVars, adrift, meant, promised, odd, work>>

\* The survey is shown as read: rows the clerk was at may no longer be there
ShowSurvey(s) ==
    /\ form' = s /\ base' = s /\ loaded' = s /\ meant' = ParseFloors(s.floors)
    /\ odd' = odd \cup (IF edited \cup doomed # Nothing /\ s.floors # form.floors
                        THEN {"reset"} ELSE {})

\* onSuccess: the survey read after the PATCH takes the form's place, with
\* whatever was entered since Save was pressed
SaveAnswered ==
    \E c \in patch :
        /\ c.pc = "done" /\ ShowSurvey(survey)
        /\ patch' = Nothing /\ promised' = {ParseFloors(c.p.floors)}
        /\ UNCHANGED <<survey, aimVars, adrift, work>>

\* onError: the PATCH or the reading after it failed, or nobody waits longer
SaveFails ==
    \E c \in patch :
        /\ patch' = Nothing
        /\ \/ UNCHANGED <<adrift, work>>
           \/ c.pc = "sent" /\ Bounded("drifts", MaxDrifts)
              /\ adrift' = adrift \cup {c.p}
        /\ UNCHANGED <<formVars, loaded, survey, aimVars, meant, promised, odd>>

PatchedLate ==
    \E p \in adrift :
        /\ UpdateSurvey(p) /\ adrift' = adrift \ {p}
        /\ odd' = odd \cup {"late"}
        /\ UNCHANGED <<formVars, loaded, aimVars, patch, meant, promised, work>>

\* The survey is fetched again; a form with changes keeps them
RefetchSurvey ==
    /\ loaded # survey
    /\ \/ form = base /\ ShowSurvey(survey)
       \/ form # base /\ loaded' = survey /\ UNCHANGED <<formVars, meant, odd>>
    /\ UNCHANGED <<survey, aimVars, sendVars, work>>

\* The page is left (Cancel asks first, a link of the menu does not) and
\* opened again on the survey as last fetched
LeavePage ==
    /\ form # base \/ edited # Nothing
    /\ form' = loaded /\ base' = loaded /\ meant' = ParseFloors(loaded.floors)
    /\ edited' = Nothing /\ doomed' = Nothing /\ aim' = [edited |-> 0, doomed |-> 0]
    /\ patch' = Nothing /\ adrift' = adrift \cup {c.p : c \in {d \in patch : d.pc = "sent"}}
    /\ UNCHANGED <<loaded, survey, promised, odd, work>>

-----------------------------------------------------------------------------
FloorsInit ==
    /\ survey \in Records /\ loaded = survey /\ form = survey /\ base = survey
    /\ meant = ParseFloors(survey.floors) /\ edited = Nothing /\ doomed = Nothing
    /\ aim = [edited |-> 0, doomed |-> 0]
    /\ patch = Nothing /\ adrift = {} /\ promised = Nothing /\ odd = {}
    /\ work = [changes |-> 0, submits |-> 0, drifts |-> 0]

FloorsNext ==
    \/ \E i \in DOMAIN form.floors : StartEdit(i) \/ AskDelete(i)
    \/ \E r \in Sketches : SaveFloor(r)
    \/ ResetDraft \/ KeepFloor \/ ConfirmDelete \/ SetUse
    \/ OnSubmit \/ Patched \/ SaveAnswered \/ SaveFails \/ PatchedLate \/ RefetchSurvey \/ LeavePage

FloorsSpec == FloorsInit /\ [][FloorsNext]_floorVars

-----------------------------------------------------------------------------
FloorText == [label : Storeys, area : Nat, types : Seq(Uses \cup Roofs)]
FloorValues == [floors : Seq(FloorText), built : Nat, mixed : BOOLEAN]

ASSUME RecordsAssumption ==
    \A s \in Records : /\ s \in FloorValues
                       /\ s.built = SumArea(s.floors)
                       /\ s.mixed => ~MixedError(s.floors)

\* The forms and the survey hold floors in the text's shape
FloorsTypeOK == {form, base, loaded, survey} \cup adrift \subseteq FloorValues

\* The rows on the page are the rows the clerk added, updated and left, each
\* update and deletion having met the row it was pressed on (startEdit,
\* saveFloor and confirmDelete find it again by an id made from its place).
\* Exceptions the code has: a row above the edited one was deleted, the form
\* was reset to other rows meanwhile, or a construction was given without a
\* usage, which the text cannot tell from a usage
RowsAsMeant ==
    odd \cap {"row moved", "reset", "usage"} = {} => ParseFloors(form.floors) = meant

\* What the page said is saved is what the survey holds until the next save
\* (mutation.onSuccess).  Exceptions: the last floor cannot be removed, as
\* an empty field is not sent, and a PATCH given up on may be applied after
\* a later one
SavedIsKept ==
    odd \cap {"emptied", "late"} = {} => \A m \in promised : ParseFloors(survey.floors) = m

\* The built-up area of the survey is the sum of its floors, whatever fails
\* or comes late, and a survey of mixed use has two usages.  Exception: when
\* the floors left have no area, the empty total is not sent either
SurveyAddsUp ==
    /\ "no area" \notin odd => survey.built = SumArea(survey.floors)
    /\ survey.mixed => ~MixedError(survey.floors)

\* The floors of a survey are the ones the clerk entered: on the page, after
\* a save, and in the total that is taxed
FloorsAsMeant == RowsAsMeant /\ SavedIsKept /\ SurveyAddsUp
=============================================================================
