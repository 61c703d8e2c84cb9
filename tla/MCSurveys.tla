----------------------------- MODULE MCSurveys -----------------------------
(* Surveys for TLC: a registry with a survey under a placeholder id and a  *)
(* deleted one, and workbooks of one ward, one with a row given twice.     *)
EXTENDS Surveys

CONSTANTS r1, r2, r3, j1, j2, j3, j4

Line(w, n, rw, v, x, ok) ==
    [ward |-> w, num |-> n, raw |-> <<rw, n, "R">>, val |-> v, x |-> x, ok |-> ok]

MCFiles == [j \in Jobs |->
    IF j = j1 THEN <<Line(1, 1, 0, "b", "p", TRUE), Line(1, 2, 1, "a", "p", TRUE)>>
    ELSE IF j = j2 THEN <<Line(1, 1, 1, "b", "p", FALSE), Line(1, 2, 0, "b", "p", TRUE)>>
    ELSE IF j = j3 THEN <<Line(1, 1, 0, "b", "p", TRUE)>>
    ELSE <<Line(2, 1, 0, "a", "p", TRUE), Line(2, 1, 2, "b", "p", TRUE)>>]
MCStrategy == [j \in Jobs |-> CASE j = j2 -> "SKIP" [] j = j3 -> "CREATE" [] OTHER -> "UPDATE"]

Base == [on |-> TRUE, gone |-> FALSE, status |-> "ACTIVE", ward |-> 1, num |-> 1,
         id |-> <<0, 1, "R">>, val |-> "a", x |-> "p"]
MCLegacy == [r \in Rows |->
    CASE r = r1 -> Base
      [] r = r2 -> [Base EXCEPT !.num = 2, !.id = <<1, 2, "R">>, !.gone = TRUE, !.status = "DELETED"]
      [] r = r3 -> [Base EXCEPT !.num = 2, !.id = <<0, 2, "R">>]
      [] OTHER -> [Base EXCEPT !.on = FALSE]]

\* Two requests; a request beside an import that may crash; two starts
MCSpent == {<<0, MaxStarts, MaxCrashes>>, <<1, 1, 0>>, <<MaxReq, 0, 0>>}
=============================================================================
