---------------------------- MODULE ClosingPage -----------------------------
(***************************************************************************)
(* The year-end page: the clerk chooses two years, asks for a preview of   *)
(* the demands that would be carried, and commits the carrying.  Calls may *)
(* fail or go on after the page stopped waiting, and a preview may be      *)
(* answered after other years were chosen.  The carrying itself is module  *)
(* YearEnd's; here a pair of years is committed or not.                    *)
(***************************************************************************)
EXTENDS Integers, FiniteSets

CONSTANTS FiscalYears, MaxPreviews, MaxCommits

VARIABLES pair,      \* the years chosen: none, one or both
          shown,     \* the preview on the page, or none
          asks,      \* how many previews were asked for
          inquiries, \* the previews under way
          carries,   \* the commits under way
          closed,    \* the pairs of years that are committed
          commits    \* every commit pressed, with the preview shown then

closingVars == <<pair, shown, asks, inquiries, carries, closed, commits>>

Sides == {"from", "to"}
Pairs == UNION {[d -> FiscalYears] : d \in SUBSET Sides}

\* Both years, and not the same: the Preview button and, for both calls, the
\* API (assertDistinctAssessmentYears)
Closable(p) == DOMAIN p = Sides /\ p["from"] # p["to"]

\* Mutant: the preview stays
MutCleared == shown

\* Choosing a year takes the preview away
Cleared == {}

ChooseYear(side, y) ==
    /\ pair' = [s \in DOMAIN pair \cup {side} |-> IF s = side THEN y ELSE pair[s]]
    /\ shown' = Cleared
    /\ UNCHANGED <<asks, inquiries, carries, closed, commits>>

-----------------------------------------------------------------------------
\* previewMutation.mutate() sends the years chosen now
MutatePreview ==
    /\ asks < MaxPreviews /\ asks' = asks + 1
    /\ inquiries' = inquiries \cup {[n |-> asks + 1, p |-> pair, found |-> {}]}

\* The button waits for the preview asked for last
PressPreview ==
    /\ Closable(pair) /\ ~\E c \in inquiries : c.n = asks
    /\ MutatePreview
    /\ UNCHANGED <<pair, shown, carries, closed, commits>>

PreviewYearEnd(c) ==
    /\ c.found = {} /\ Closable(c.p)
    /\ inquiries' = (inquiries \ {c}) \cup {[c EXCEPT !.found = {c.p \in closed}]}
    /\ UNCHANGED <<pair, shown, asks, carries, closed, commits>>

\* onSuccess shows the answer, whatever years are chosen by now
PreviewShown(c) ==
    /\ c.found # {}
    /\ shown' = {[p |-> c.p, committed |-> TRUE \in c.found, late |-> c.p # pair]}
    /\ inquiries' = inquiries \ {c}
    /\ UNCHANGED <<pair, asks, carries, closed, commits>>

\* onError: refused, failed or not answered in time; the page stays
PreviewFails(c) ==
    /\ inquiries' = inquiries \ {c}
    /\ UNCHANGED <<pair, shown, asks, carries, closed, commits>>

-----------------------------------------------------------------------------
\* Commit carry-forward: a preview is shown that is not committed yet, and no
\* commit is awaited.  It sends the years chosen now
PressCommit ==
    /\ \E s \in shown :
          /\ ~s.committed
          /\ commits' = commits \cup {[p |-> pair, shown |-> s]}
    /\ ~\E c \in carries : c.awaited
    /\ Cardinality(carries) < MaxCommits
    /\ carries' = carries \cup {[n |-> Cardinality(carries), p |-> pair, awaited |-> TRUE, ok |-> FALSE]}
    /\ UNCHANGED <<pair, shown, asks, inquiries, closed>>

\* A pair that is committed already is left as it is
CommitYearEnd(c) ==
    /\ ~c.ok /\ Closable(c.p)
    /\ closed' = closed \cup {c.p}
    /\ carries' = (carries \ {c}) \cup {[c EXCEPT !.ok = TRUE]}
    /\ UNCHANGED <<pair, shown, asks, inquiries, commits>>

\* onSuccess asks for the preview of the years chosen now
CommitAnswered(c) ==
    /\ c.awaited /\ c.ok
    /\ carries' = (carries \ {c}) \cup {[c EXCEPT !.awaited = FALSE]}
    /\ MutatePreview
    /\ UNCHANGED <<pair, shown, closed, commits>>

\* onError: the API refused, or goes on alone; the preview stays
CommitFails(c) ==
    /\ c.awaited
    /\ carries' = (carries \ {c}) \cup {[c EXCEPT !.awaited = FALSE]}
    /\ UNCHANGED <<pair, shown, asks, inquiries, closed, commits>>

\* Another clerk commits a pair
ClosedElsewhere(p) ==
    /\ Closable(p) /\ p \notin closed /\ closed' = closed \cup {p}
    /\ UNCHANGED <<pair, shown, asks, inquiries, carries, commits>>

-----------------------------------------------------------------------------
ClosingInit ==
    /\ pair \in [{} -> FiscalYears] /\ shown = {} /\ asks = 0 /\ inquiries = {}
    /\ carries = {} /\ closed = {} /\ commits = {}

ClosingNext ==
    \/ \E s \in Sides, y \in FiscalYears : ChooseYear(s, y)
    \/ PressPreview \/ PressCommit
    \/ \E c \in inquiries : PreviewYearEnd(c) \/ PreviewShown(c) \/ PreviewFails(c)
    \/ \E c \in carries : CommitYearEnd(c) \/ CommitAnswered(c) \/ CommitFails(c)
    \/ \E p \in Pairs : ClosedElsewhere(p)

ClosingSpec == ClosingInit /\ [][ClosingNext]_closingVars

-----------------------------------------------------------------------------
\* The page and the calls hold what they may hold
ClosingTypeOK ==
    /\ pair \in Pairs /\ closed \subseteq Pairs
    /\ shown \subseteq [p : Pairs, committed : BOOLEAN, late : BOOLEAN]
    /\ \A c \in inquiries : c.n \in 1..asks /\ c.p \in Pairs /\ c.found \subseteq BOOLEAN
    /\ \A c \in carries : c.p \in Pairs /\ c.awaited \in BOOLEAN /\ c.ok \in BOOLEAN

\* A clerk commits the two years whose preview is on the page, and a page
\* that says a pair is committed is right (setPreview(null) on every change
\* of the years).  The exception the code has: a preview answered after the
\* years were changed is shown for the new ones, and Commit sends those
CommitsWhatIsShown ==
    /\ \A c \in commits : c.p = c.shown.p \/ c.shown.late
    /\ \A s \in shown : s.committed => s.p \in closed
=============================================================================
