------------------------------ MODULE Registry ------------------------------
(* What the survey registry promises, whoever writes it and in whatever    *)
(* order: a set of survey ids, each absent, live or deleted.  An id once   *)
(* taken is given up only by moving its survey to a free id; surveys are   *)
(* never merged; a step deletes at most Cap of them.                       *)
EXTENDS Integers, FiniteSets

CONSTANTS Ids, Cap
VARIABLE reg    \* [Ids -> {"absent", "live", "deleted"}]

Register(k) == reg[k] = "absent" /\ reg' = [reg EXCEPT ![k] = "live"]
Revive(k) == reg[k] = "deleted" /\ reg' = [reg EXCEPT ![k] = "live"]
Move(k, l, st) == /\ reg[k] # "absent" /\ reg[l] = "absent" /\ st \in {reg[k], "live"}
                  /\ reg' = [reg EXCEPT ![k] = "absent", ![l] = st]
Retire(K) == /\ \A k \in K : reg[k] = "live" /\ Cardinality(K) <= Cap
             /\ reg' = [k \in Ids |-> IF k \in K THEN "deleted" ELSE reg[k]]

Changed == {k \in Ids : reg'[k] # reg[k]}

Change == \/ \E k \in Changed : Register(k) \/ Revive(k)
          \/ \E k, l \in Changed : \E st \in {"live", "deleted"} : Move(k, l, st)
          \/ Retire(Changed)

Spec == reg \in [Ids -> {"absent", "live", "deleted"}] /\ [][Change]_reg
=============================================================================
