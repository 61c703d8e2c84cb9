----------------------------- MODULE MCPayments -----------------------------
(* Instances of Payments for TLC. *)
EXTENDS Payments, TLC

(* Payment ids and request slots are interchangeable. *)
Symmetry == Permutations(Payments) \cup Permutations(Requests)

=============================================================================
