------------------------------ MODULE MCYearEnd ------------------------------
(* Instances of YearEnd for TLC. *)
EXTENDS YearEnd, TLC

(* Surveys, years and tasks are interchangeable. *)
Symmetry == Permutations(Surveys) \cup Permutations(Years) \cup Permutations(Tasks)

=============================================================================
