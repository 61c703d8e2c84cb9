--------------------------- MODULE SessionsProofs ---------------------------
(***************************************************************************)
(* Proofs about the login throttle and about staff sessions, for any       *)
(* number of attempts, calls, retries and sessions and any limits.         *)
(***************************************************************************)
EXTENDS Sessions, LoginProtection, FiniteSetTheorems, TLAPS

-----------------------------------------------------------------------------
(* The login throttle                                                      *)
(*                                                                         *)
(* GuessesBounded is not inductive: it does not say why an attempt that    *)
(* has passed the lock check still fits under the bound.  The invariant    *)
(* counts where the attempts of the current window are: about to verify,   *)
(* about to count, or about to set the lock.                               *)

LoginTypeOK ==
    /\ failures \in Nat /\ guesses \in Nat /\ crashes \in Nat
    /\ window \in BOOLEAN /\ lock \in BOOLEAN
    /\ attempt \in [Logins -> [pc : {"idle", "verify", "count", "expire", "slow"}, n : Nat]]

Verifying == {l \in Logins : attempt[l].pc = "verify"}
Counting  == {l \in Logins : attempt[l].pc = "count"}

(* Attempts that will set the lock when their delay is over. *)
Locking == {l \in Logins : attempt[l].pc \in {"expire", "slow"} /\ attempt[l].n >= MaxFailures}

(* Every guess was counted, is about to be, or was cut off before it was. *)
GuessesCounted == guesses <= failures + Cardinality(Counting) + crashes

(* The guesses beyond the limit, while nothing is locked yet, belong to    *)
(* attempts that are still to be counted or are about to lock.             *)
UnlockedGuesses ==
    ~lock => guesses <= MaxFailures - 1 + Cardinality(Counting) + Cardinality(Locking) + crashes

(* The attempts past the lock check still have room for their guess. *)
RoomForVerifying ==
    guesses + Cardinality(Verifying) <= MaxFailures - 1 + Cardinality(Logins) + crashes

LoginInv == LoginTypeOK /\ GuessesCounted /\ UnlockedGuesses /\ RoomForVerifying

(* What an attempt's step does to the three counts. *)
Recount(old, new, was, is) ==
    Cardinality(new) = Cardinality(old) + (IF is THEN 1 ELSE 0) - (IF was THEN 1 ELSE 0)

LEMMA RecountOne ==
    ASSUME NEW old, IsFiniteSet(old), NEW l, NEW is \in BOOLEAN, NEW new,
           new = IF is THEN old \cup {l} ELSE old \ {l}
    PROVE  Recount(old, new, l \in old, is)
<1>1. Cardinality(old) \in Nat
  BY FS_CardinalityType
<1>2. CASE is
  <2>1. new = old \cup {l}
    BY <1>2
  <2>2. Cardinality(new) = IF l \in old THEN Cardinality(old) ELSE Cardinality(old) + 1
    BY <2>1, FS_AddElement
  <2> QED
    BY <1>1, <1>2, <2>2 DEF Recount
<1>3. CASE ~is
  <2>1. new = old \ {l}
    BY <1>3
  <2>2. Cardinality(new) = IF l \in old THEN Cardinality(old) - 1 ELSE Cardinality(old)
    BY <2>1, FS_RemoveElement
  <2> QED
    BY <1>1, <1>3, <2>2 DEF Recount
<1> QED
  BY <1>2, <1>3

LEMMA DisjointUnion ==
    ASSUME NEW S, NEW T, IsFiniteSet(S), IsFiniteSet(T), S \cap T = {}
    PROVE  /\ IsFiniteSet(S \cup T)
           /\ Cardinality(S \cup T) = Cardinality(S) + Cardinality(T)
<1>1. Cardinality(S \cap T) = 0
  BY FS_EmptySet
<1>2. Cardinality(S) \in Nat /\ Cardinality(T) \in Nat
  BY FS_CardinalityType
<1>3. /\ IsFiniteSet(S \cup T)
      /\ Cardinality(S \cup T) = Cardinality(S) + Cardinality(T) - Cardinality(S \cap T)
  BY FS_Union
<1> QED
  BY <1>1, <1>2, <1>3

LEMMA CountsNat ==
    /\ IsFiniteSet(Verifying) /\ IsFiniteSet(Counting) /\ IsFiniteSet(Locking)
    /\ Cardinality(Verifying) \in Nat /\ Cardinality(Counting) \in Nat
    /\ Cardinality(Locking) \in Nat /\ Cardinality(Logins) \in Nat
    /\ Cardinality(Verifying) <= Cardinality(Logins)
    /\ Cardinality(Counting) + Cardinality(Verifying) <= Cardinality(Logins)
    /\ \A l \in Logins : attempt[l].pc = "idle" =>
          Cardinality(Verifying) + Cardinality(Counting) + Cardinality(Locking) + 1
            <= Cardinality(Logins)
<1> DEFINE V == Verifying
           C == Counting
           K == Locking
<1>1. V \subseteq Logins /\ C \subseteq Logins /\ K \subseteq Logins
  BY DEF Verifying, Counting, Locking
<1>2. V \cap C = {} /\ (V \cup C) \cap K = {}
  BY DEF Verifying, Counting, Locking
<1>3. \A l \in Logins : attempt[l].pc = "idle" => l \notin (V \cup C) \cup K
  BY DEF Verifying, Counting, Locking
<1> HIDE DEF V, C, K
<1>4. IsFiniteSet(V) /\ IsFiniteSet(C) /\ IsFiniteSet(K) /\ IsFiniteSet(Logins)
  BY <1>1, FS_Subset, LoginAssumption
<1>5. /\ Cardinality(V) \in Nat /\ Cardinality(C) \in Nat /\ Cardinality(K) \in Nat
      /\ Cardinality(Logins) \in Nat
  BY <1>4, FS_CardinalityType
<1>6. IsFiniteSet(V \cup C) /\ Cardinality(V \cup C) = Cardinality(V) + Cardinality(C)
  BY <1>2, <1>4, DisjointUnion
<1>7. /\ IsFiniteSet((V \cup C) \cup K)
      /\ Cardinality((V \cup C) \cup K) = Cardinality(V) + Cardinality(C) + Cardinality(K)
  <2>1. /\ IsFiniteSet((V \cup C) \cup K)
        /\ Cardinality((V \cup C) \cup K) = Cardinality(V \cup C) + Cardinality(K)
    BY <1>2, <1>4, <1>6, DisjointUnion
  <2> QED
    BY <1>6, <2>1
<1>8. Cardinality(V \cup C) <= Cardinality(Logins)
  <2>1. V \cup C \in SUBSET Logins
    BY <1>1
  <2> QED
    BY <1>4, <2>1, FS_Subset
<1>9. ASSUME NEW l \in Logins, attempt[l].pc = "idle"
      PROVE  Cardinality(V) + Cardinality(C) + Cardinality(K) + 1 <= Cardinality(Logins)
  <2> DEFINE B == (V \cup C) \cup K
  <2>1. B \cup {l} \in SUBSET Logins /\ l \notin B
    BY <1>1, <1>3, <1>9
  <2>2. Cardinality(B \cup {l}) <= Cardinality(Logins)
    BY <1>4, <2>1, FS_Subset
  <2>3. Cardinality(B \cup {l}) = Cardinality(B) + 1
    BY <1>7, <2>1, FS_AddElement
  <2>4. Cardinality(B) = Cardinality(V) + Cardinality(C) + Cardinality(K)
    BY <1>7
  <2> HIDE DEF B
  <2> QED
    BY <1>5, <2>2, <2>3, <2>4
<1>10. Cardinality(V) <= Cardinality(Logins) /\ Cardinality(C) + Cardinality(V) <= Cardinality(Logins)
  BY <1>5, <1>6, <1>8
<1>11. \A l \in Logins : attempt[l].pc = "idle" =>
          Cardinality(V) + Cardinality(C) + Cardinality(K) + 1 <= Cardinality(Logins)
  BY <1>9
<1> QED
  BY <1>4, <1>5, <1>10, <1>11 DEF V, C, K

(* One attempt moves on: each of the three counts follows it. *)
LEMMA AttemptMoves ==
    ASSUME LoginTypeOK, NEW l \in Logins, NEW pc, NEW n, GoOn(l, pc, n)
    PROVE  /\ Recount(Verifying, Verifying', attempt[l].pc = "verify", pc = "verify")
           /\ Recount(Counting, Counting', attempt[l].pc = "count", pc = "count")
           /\ Recount(Locking, Locking',
                      attempt[l].pc \in {"expire", "slow"} /\ attempt[l].n >= MaxFailures,
                      pc \in {"expire", "slow"} /\ n >= MaxFailures)
<1> DEFINE locks == pc \in {"expire", "slow"} /\ n >= MaxFailures
<1>1. \A m \in Logins : attempt'[m] = IF m = l THEN [pc |-> pc, n |-> n] ELSE attempt[m]
  BY DEF LoginTypeOK, GoOn
<1>2. Verifying' = IF pc = "verify" THEN Verifying \cup {l} ELSE Verifying \ {l}
  BY <1>1 DEF Verifying
<1>3. Counting' = IF pc = "count" THEN Counting \cup {l} ELSE Counting \ {l}
  BY <1>1 DEF Counting
<1>4. Locking' = IF locks THEN Locking \cup {l} ELSE Locking \ {l}
  BY <1>1 DEF Locking
<1>5. /\ (l \in Verifying) = (attempt[l].pc = "verify")
      /\ (l \in Counting) = (attempt[l].pc = "count")
      /\ (l \in Locking) = (attempt[l].pc \in {"expire", "slow"} /\ attempt[l].n >= MaxFailures)
  BY DEF Verifying, Counting, Locking
<1>6. Recount(Verifying, Verifying', l \in Verifying, pc = "verify")
  BY <1>2, CountsNat, RecountOne
<1>7. Recount(Counting, Counting', l \in Counting, pc = "count")
  BY <1>3, CountsNat, RecountOne
<1>8. Recount(Locking, Locking', l \in Locking, locks)
  <2>1. locks \in BOOLEAN
    OBVIOUS
  <2> HIDE DEF locks
  <2> QED
    BY <1>4, <2>1, CountsNat, RecountOne
<1> QED
  BY <1>5, <1>6, <1>7, <1>8

LEMMA LoginInitInv == LoginInit => LoginInv
<1> SUFFICES ASSUME LoginInit PROVE LoginInv
  OBVIOUS
<1>1. LoginTypeOK
  BY DEF LoginInit, LoginTypeOK
<1>2. Verifying = {} /\ Counting = {} /\ Locking = {} /\ Cardinality({}) = 0
  BY FS_EmptySet DEF LoginInit, Verifying, Counting, Locking
<1>3. guesses = 0 /\ failures = 0 /\ crashes = 0 /\ Cardinality(Logins) \in Nat
  BY CountsNat DEF LoginInit
<1> QED
  BY <1>1, <1>2, <1>3, LoginAssumption
     DEF LoginInv, GuessesCounted, UnlockedGuesses, RoomForVerifying

LEMMA LoginTypes == LoginInv /\ [LoginNext]_loginVars => LoginTypeOK'
<1> SUFFICES ASSUME LoginInv, [LoginNext]_loginVars PROVE LoginTypeOK'
  OBVIOUS
<1>1. LoginTypeOK /\ Uncounted \in Nat
  BY CountsNat DEF LoginInv, Uncounted, Counting
<1>2. ASSUME NEW l \in Logins, NEW pc \in {"idle", "verify", "count", "expire", "slow"},
             NEW n \in Nat, GoOn(l, pc, n)
      PROVE  attempt' \in [Logins -> [pc : {"idle", "verify", "count", "expire", "slow"}, n : Nat]]
  BY <1>1, <1>2 DEF LoginTypeOK, GoOn
<1>3. ASSUME NEW l \in Logins, AssertAllowed(l) PROVE LoginTypeOK'
  <2>1. attempt' \in [Logins -> [pc : {"idle", "verify", "count", "expire", "slow"}, n : Nat]]
    BY <1>2, <1>3 DEF AssertAllowed
  <2> QED
    BY <1>1, <1>3, <2>1 DEF LoginTypeOK, AssertAllowed
<1>4. ASSUME NEW l \in Logins, WrongPassword(l) PROVE LoginTypeOK'
  <2>1. attempt' \in [Logins -> [pc : {"idle", "verify", "count", "expire", "slow"}, n : Nat]]
    BY <1>2, <1>4 DEF WrongPassword
  <2> QED
    BY <1>1, <1>4, <2>1 DEF LoginTypeOK, WrongPassword
<1>5. ASSUME NEW l \in Logins, ClearFailures(l) PROVE LoginTypeOK'
  <2>1. attempt' \in [Logins -> [pc : {"idle", "verify", "count", "expire", "slow"}, n : Nat]]
    BY <1>2, <1>5 DEF ClearFailures
  <2> QED
    BY <1>1, <1>5, <2>1 DEF LoginTypeOK, ClearFailures
<1>6. ASSUME NEW l \in Logins, SetLock(l) PROVE LoginTypeOK'
  <2>1. attempt' \in [Logins -> [pc : {"idle", "verify", "count", "expire", "slow"}, n : Nat]]
    BY <1>2, <1>6 DEF SetLock
  <2> QED
    BY <1>1, <1>6, <2>1 DEF LoginTypeOK, SetLock
<1>7. ASSUME NEW l \in Logins, CutOff(l) PROVE LoginTypeOK'
  <2>1. attempt' \in [Logins -> [pc : {"idle", "verify", "count", "expire", "slow"}, n : Nat]]
    BY <1>2, <1>7 DEF CutOff
  <2> QED
    BY <1>1, <1>7, <2>1 DEF LoginTypeOK, CutOff
<1>8. ASSUME NEW l \in Logins, IncrementFailures(l) PROVE LoginTypeOK'
  <2> DEFINE pc == IF failures = 0 THEN "expire" ELSE "slow"
  <2>1. failures + 1 \in Nat
    BY <1>1 DEF LoginTypeOK
  <2>2. GoOn(l, pc, failures + 1) /\ pc \in {"idle", "verify", "count", "expire", "slow"}
    BY <1>8 DEF IncrementFailures
  <2> HIDE DEF pc
  <2>3. attempt' \in [Logins -> [pc : {"idle", "verify", "count", "expire", "slow"}, n : Nat]]
    BY <1>2, <2>1, <2>2
  <2> QED
    BY <1>1, <1>8, <2>1, <2>3 DEF LoginTypeOK, IncrementFailures
<1>9. ASSUME NEW l \in Logins, SetWindow(l) PROVE LoginTypeOK'
  <2>1. attempt[l].n \in Nat
    BY <1>1 DEF LoginTypeOK
  <2>2. attempt' \in [Logins -> [pc : {"idle", "verify", "count", "expire", "slow"}, n : Nat]]
    BY <1>2, <1>9, <2>1 DEF SetWindow
  <2>3. window' \in BOOLEAN
    BY <1>9 DEF SetWindow
  <2>4. UNCHANGED <<failures, lock, guesses, crashes>>
    BY <1>9 DEF SetWindow
  <2> QED
    BY <1>1, <2>2, <2>3, <2>4 DEF LoginTypeOK
<1>10. CASE Expire
  <2>1. guesses' \in Nat /\ crashes' \in Nat /\ failures' \in Nat /\ UNCHANGED attempt
    BY <1>1, <1>10 DEF LoginTypeOK, Expire
  <2>2. window' \in BOOLEAN /\ lock' \in BOOLEAN
    BY <1>1, <1>10 DEF LoginTypeOK, Expire
  <2> QED
    BY <1>1, <2>1, <2>2 DEF LoginTypeOK
<1>11. CASE UNCHANGED loginVars
  BY <1>1, <1>11 DEF LoginTypeOK, loginVars
<1> QED
  BY <1>3, <1>4, <1>5, <1>6, <1>7, <1>8, <1>9, <1>10, <1>11 DEF LoginNext

(* The steps of one attempt, by where it stands and what they count. *)
LEMMA LoginCounts == LoginInv /\ [LoginNext]_loginVars => LoginInv'
<1> SUFFICES ASSUME LoginInv, [LoginNext]_loginVars PROVE LoginInv'
  OBVIOUS
<1> DEFINE v == Cardinality(Verifying)
           c == Cardinality(Counting)
           k == Cardinality(Locking)
           v1 == Cardinality(Verifying')
           c1 == Cardinality(Counting')
           k1 == Cardinality(Locking')
           L == Cardinality(Logins)
<1>1. LoginTypeOK /\ LoginTypeOK'
  BY LoginTypes DEF LoginInv
<1>2. /\ v \in Nat /\ c \in Nat /\ k \in Nat /\ L \in Nat /\ v <= L /\ c + v <= L
      /\ \A l \in Logins : attempt[l].pc = "idle" => v + c + k + 1 <= L
  BY CountsNat
<1>3. /\ guesses <= failures + c + crashes
      /\ ~lock => guesses <= MaxFailures - 1 + c + k + crashes
      /\ guesses + v <= MaxFailures - 1 + L + crashes
  BY DEF LoginInv, GuessesCounted, UnlockedGuesses, RoomForVerifying
<1>4. /\ failures \in Nat /\ guesses \in Nat /\ crashes \in Nat /\ MaxFailures \in Nat \ {0}
      /\ failures' \in Nat /\ guesses' \in Nat /\ crashes' \in Nat /\ lock \in BOOLEAN
  BY <1>1, LoginAssumption DEF LoginTypeOK
<1>5. SUFFICES /\ guesses' <= failures' + c1 + crashes'
               /\ ~lock' => guesses' <= MaxFailures - 1 + c1 + k1 + crashes'
               /\ guesses' + v1 <= MaxFailures - 1 + L + crashes'
  BY <1>1 DEF LoginInv, GuessesCounted, UnlockedGuesses, RoomForVerifying
<1>6. Uncounted = c
  BY DEF Uncounted, Counting
<1> HIDE DEF v, c, k, v1, c1, k1, L
<1>7. ASSUME NEW l \in Logins, AssertAllowed(l)
      PROVE  /\ guesses' <= failures' + c1 + crashes'
             /\ ~lock' => guesses' <= MaxFailures - 1 + c1 + k1 + crashes'
             /\ guesses' + v1 <= MaxFailures - 1 + L + crashes'
  <2>1. v1 = v + 1 /\ c1 = c /\ k1 = k
    BY <1>1, <1>2, <1>7, AttemptMoves DEF AssertAllowed, Recount, v, c, k, v1, c1, k1
  <2> QED
    BY <1>2, <1>3, <1>4, <1>7, <2>1 DEF AssertAllowed
<1>8. ASSUME NEW l \in Logins, WrongPassword(l)
      PROVE  /\ guesses' <= failures' + c1 + crashes'
             /\ ~lock' => guesses' <= MaxFailures - 1 + c1 + k1 + crashes'
             /\ guesses' + v1 <= MaxFailures - 1 + L + crashes'
  <2>1. v1 = v - 1 /\ c1 = c + 1 /\ k1 = k
    BY <1>1, <1>2, <1>8, AttemptMoves DEF WrongPassword, Recount, v, c, k, v1, c1, k1
  <2> QED
    BY <1>2, <1>3, <1>4, <1>8, <2>1 DEF WrongPassword
<1>9. ASSUME NEW l \in Logins, ClearFailures(l)
      PROVE  /\ guesses' <= failures' + c1 + crashes'
             /\ ~lock' => guesses' <= MaxFailures - 1 + c1 + k1 + crashes'
             /\ guesses' + v1 <= MaxFailures - 1 + L + crashes'
  <2>1. v1 = v - 1 /\ c1 = c /\ k1 = k
    BY <1>1, <1>2, <1>9, AttemptMoves DEF ClearFailures, Recount, v, c, k, v1, c1, k1
  <2>2. guesses' = c /\ failures' = 0 /\ crashes' = 0
    BY <1>6, <1>9 DEF ClearFailures
  <2> QED
    BY <1>2, <1>4, <2>1, <2>2
<1>10. ASSUME NEW l \in Logins, IncrementFailures(l)
       PROVE  /\ guesses' <= failures' + c1 + crashes'
              /\ ~lock' => guesses' <= MaxFailures - 1 + c1 + k1 + crashes'
              /\ guesses' + v1 <= MaxFailures - 1 + L + crashes'
  <2> DEFINE pc == IF failures = 0 THEN "expire" ELSE "slow"
  <2>1. /\ attempt[l].pc = "count" /\ GoOn(l, pc, failures + 1) /\ pc \in {"expire", "slow"}
        /\ failures' = failures + 1 /\ UNCHANGED <<lock, guesses, crashes>>
    BY <1>10 DEF IncrementFailures
  <2> HIDE DEF pc
  <2>2. v1 = v /\ c1 = c - 1 /\ k1 = k + (IF failures + 1 >= MaxFailures THEN 1 ELSE 0)
    BY <1>1, <1>2, <2>1, AttemptMoves DEF Recount, v, c, k, v1, c1, k1
  <2> QED
    BY <1>2, <1>3, <1>4, <2>1, <2>2
<1>11. ASSUME NEW l \in Logins, SetWindow(l)
       PROVE  /\ guesses' <= failures' + c1 + crashes'
              /\ ~lock' => guesses' <= MaxFailures - 1 + c1 + k1 + crashes'
              /\ guesses' + v1 <= MaxFailures - 1 + L + crashes'
  <2>1. v1 = v /\ c1 = c /\ k1 = k
    BY <1>1, <1>2, <1>11, AttemptMoves DEF SetWindow, Recount, v, c, k, v1, c1, k1
  <2> QED
    BY <1>2, <1>3, <1>4, <1>11, <2>1 DEF SetWindow
<1>12. ASSUME NEW l \in Logins, SetLock(l)
       PROVE  /\ guesses' <= failures' + c1 + crashes'
              /\ ~lock' => guesses' <= MaxFailures - 1 + c1 + k1 + crashes'
              /\ guesses' + v1 <= MaxFailures - 1 + L + crashes'
  <2>1. v1 = v /\ c1 = c /\ k1 = k - (IF attempt[l].n >= MaxFailures THEN 1 ELSE 0)
    BY <1>1, <1>2, <1>12, AttemptMoves DEF SetLock, Recount, v, c, k, v1, c1, k1
  <2>2. ~lock' => ~lock /\ ~(attempt[l].n >= MaxFailures)
    BY <1>12 DEF SetLock
  <2> QED
    BY <1>2, <1>3, <1>4, <1>12, <2>1, <2>2 DEF SetLock
<1>13. ASSUME NEW l \in Logins, CutOff(l)
       PROVE  /\ guesses' <= failures' + c1 + crashes'
              /\ ~lock' => guesses' <= MaxFailures - 1 + c1 + k1 + crashes'
              /\ guesses' + v1 <= MaxFailures - 1 + L + crashes'
  <2>1. v1 <= v /\ c1 + k1 + 1 >= c + k /\ c1 + 1 >= c /\ v1 \in Int /\ c1 \in Int /\ k1 \in Int
    BY <1>1, <1>2, <1>13, AttemptMoves DEF CutOff, Recount, v, c, k, v1, c1, k1
  <2> QED
    BY <1>2, <1>3, <1>4, <1>13, <2>1 DEF CutOff
<1>14. ASSUME UNCHANGED attempt
       PROVE  v1 = v /\ c1 = c /\ k1 = k
  BY <1>14 DEF Verifying, Counting, Locking, v, c, k, v1, c1, k1
<1>15. CASE Expire
  <2>1. guesses' = c /\ crashes' = 0 /\ UNCHANGED attempt
    BY <1>6, <1>15 DEF Expire
  <2>2. v1 = v /\ c1 = c /\ k1 = k
    BY <1>14, <2>1
  <2>3. guesses' = c /\ crashes' = 0
    BY <2>1
  <2>4. v \in Nat /\ c \in Nat /\ k \in Nat /\ L \in Nat /\ c + v <= L
    BY <1>2
  <2>5. failures' \in Nat /\ MaxFailures \in Nat /\ MaxFailures >= 1
    BY <1>4
  <2>6. c <= failures' + c + 0
    <3> SUFFICES ASSUME NEW x \in Nat, NEW y \in Nat PROVE x <= y + x + 0
      BY <2>4, <2>5
    <3> QED
      OBVIOUS
  <2>7. c <= MaxFailures - 1 + c + k + 0
    BY <2>4, <2>5
  <2>8. c + v <= MaxFailures - 1 + L + 0
    BY <2>4, <2>5
  <2> QED
    BY <2>2, <2>3, <2>6, <2>7, <2>8
<1>16. CASE UNCHANGED loginVars
  BY <1>3, <1>14, <1>16 DEF loginVars
<1> QED
  BY <1>7, <1>8, <1>9, <1>10, <1>11, <1>12, <1>13, <1>15, <1>16 DEF LoginNext

(* However many sign-in attempts overlap and wherever they are cut off, no *)
(* more passwords are tried on one address between two resets than the     *)
(* limit, the attempts under way and those cut off (assertLoginAllowed     *)
(* checks the lock long before recordFailure sets it).                     *)
THEOREM GuessesStayBounded == LoginSpec => []GuessesBounded
<1>1. LoginInit => LoginInv
  BY LoginInitInv
<1>2. LoginInv /\ [LoginNext]_loginVars => LoginInv'
  BY LoginCounts
<1>3. LoginInv => GuessesBounded
  <2> SUFFICES ASSUME LoginInv PROVE GuessesBounded
    OBVIOUS
  <2>1. /\ guesses + Cardinality(Verifying) <= MaxFailures - 1 + Cardinality(Logins) + crashes
        /\ guesses \in Nat /\ crashes \in Nat
    BY DEF LoginInv, LoginTypeOK, RoomForVerifying
  <2> QED
    BY <2>1, CountsNat, LoginAssumption DEF GuessesBounded
<1> QED
  BY <1>1, <1>2, <1>3, PTL DEF LoginSpec

-----------------------------------------------------------------------------
(* Calls, attempts and effects                                             *)
(*                                                                         *)
(* MutationOnce counts how often the API started the operation of a call.  *)
(* It holds because a call that is not a read has one execution, and that  *)
(* execution starts its operation in one step of its way, never to come    *)
(* back to a step before it.                                               *)

AllOps == Guarded \cup {"login", "logout", "reset", "disable", "enable", "reassign", "issue"}

(* The steps of the guard, and the steps before an operation starts. *)
GuardSteps == {"lookup", "expireCache", "expireRow", "dbRead", "fill", "refresh", "rotDel", "rotSet",
               "touch", "touchAgain", "user"}
Before     == GuardSteps \cup {"handler", "outCache", "outRow", "create", "resetTx"}
Steps      == Before \cup {"revList", "revCache", "createCache", "issue", "answer", "idle"}

Entry == [in : BOOLEAN, created : Nat, active : Nat, expires : Nat]

Exec == [pc : Steps, op : AllOps, tok : Tokens \cup {NoToken}, rec : Entry, phase : {1, 2},
         cookie : Tokens \cup {NoToken, <<"clear">>}, todo : SUBSET Tokens, keep : SUBSET Sids,
         found : SUBSET Links, ans : {"", "ok", "denied", "down", "broken"}]

SessionRow == [st : {"none", "live", "revoked"}, gen : 0..MaxGen, created : Nat, active : Nat,
               expires : Nat]

Call == [st : {"idle", "waiting"}, op : AllOps, tok : Tokens \cup {NoToken}, attempt : Attempts]

SessionTypeOK ==
    /\ now \in Nat
    /\ row \in [Sids -> SessionRow]
    /\ cache \in [Tokens -> Entry]
    /\ active \in BOOLEAN
    /\ jar \in Tokens \cup {NoToken}
    /\ call \in [Calls -> Call]
    /\ exec \in [Calls -> [Attempts -> Exec]]
    /\ effects \in [Calls -> Nat]

(* What holds of one execution by where it stands. *)
ExecOK(e) ==
    /\ e.pc \in GuardSteps \ {"lookup", "user"} => e.tok \in Tokens
    /\ e.pc \in {"rotDel", "rotSet", "createCache"} => e.cookie \in Tokens
    /\ e.phase = 2 => e.op = "revokeOthers"
    /\ e.pc \in {"refresh", "rotDel", "rotSet", "touch", "touchAgain", "user", "handler",
                 "create", "resetTx", "outRow", "outCache"} => e.phase = 1

(* The operation is not started yet. *)
Early(e) == e.phase = 1 /\ e.pc \in Before

(* An execution goes on, or starts its operation. *)
GoesOn(e, f) ==
    /\ f \in Exec /\ ExecOK(f) /\ f.op = e.op
    /\ Early(f) => Early(e)

Starts(e, f) ==
    /\ f \in Exec /\ ExecOK(f) /\ f.op = e.op
    /\ Early(e) /\ ~Early(f)

LEMMA ExecTyped ==
    ASSUME SessionTypeOK, NEW c \in Calls, NEW a \in Attempts
    PROVE  /\ exec[c][a] \in Exec /\ exec[c][a].rec \in Entry
           /\ exec[c][a].tok \in Tokens \cup {NoToken}
<1>1. exec[c][a] \in Exec
  BY DEF SessionTypeOK
<1> QED
  BY <1>1 DEF Exec

LEMMA TokenParts ==
    ASSUME NEW t \in Tokens
    PROVE  t[1] \in Sids /\ t[2] \in 0..MaxGen /\ t = <<t[1], t[2]>>
BY DEF Tokens

LEMMA TokenMade ==
    ASSUME NEW s \in Sids, NEW g \in 0..MaxGen
    PROVE  <<s, g>> \in Tokens
BY DEF Tokens

LEMMA EntryOfRow == ASSUME NEW r \in SessionRow PROVE EntryOf(r) \in Entry
BY DEF SessionRow, EntryOf, Entry

(* The answer of an execution. *)
LEMMA AnsweredOK ==
    ASSUME NEW e \in Exec, ExecOK(e), NEW ans \in {"ok", "denied", "down", "broken"}
    PROVE  /\ Answered(e, ans) \in Exec /\ ExecOK(Answered(e, ans))
           /\ Answered(e, ans).op = e.op /\ ~Early(Answered(e, ans))
           /\ Answered(e, ans).pc = "answer" /\ Answered(e, ans).tok = e.tok
           /\ Answered(e, ans).cookie = e.cookie /\ Answered(e, ans).todo = e.todo
<1> DEFINE f == Answered(e, ans)
<1>1. /\ f \in Exec /\ f.op = e.op /\ f.pc = "answer" /\ f.tok = e.tok
      /\ f.cookie = e.cookie /\ f.todo = e.todo /\ f.phase = e.phase
  BY DEF Exec, Answered, Steps
<1>2. e.phase = 2 => e.op = "revokeOthers"
  BY DEF ExecOK
<1> HIDE DEF f
<1>3. ExecOK(f) /\ ~Early(f)
  BY <1>1, <1>2 DEF ExecOK, Early, Before, GuardSteps
<1> QED
  BY <1>1, <1>3 DEF f

LEMMA FoundOK ==
    ASSUME NEW e \in Exec, ExecOK(e), e.tok \in Tokens, NEW rec \in Entry,
           e.pc \in {"lookup", "fill"}
    PROVE  GoesOn(e, Found(e, rec))
<1>1. e.tok[1] \in Sids
  BY TokenParts
<1>2. CASE e.op = "logout"
  BY <1>2 DEF Exec, ExecOK, Found, GoesOn, Early, Steps, Before, GuardSteps
<1>3. CASE e.op # "logout" /\ e.phase = 2
  BY <1>1, <1>3 DEF Exec, ExecOK, Found, GoesOn, Early, Steps, Before, GuardSteps
<1>4. CASE e.op # "logout" /\ e.phase # 2
  BY <1>1, <1>4 DEF Exec, ExecOK, Found, GoesOn, Early, Steps, Before, GuardSteps
<1> QED
  BY <1>2, <1>3, <1>4

LEMMA NotFoundOK ==
    ASSUME NEW e \in Exec, ExecOK(e), e.pc \in {"lookup", "dbRead", "expireRow"}
    PROVE  GoesOn(e, NotFound(e))
<1>1. CASE e.op = "logout"
  BY <1>1 DEF Exec, ExecOK, NotFound, GoesOn, Early, Steps, Before, GuardSteps
<1>2. CASE e.op # "logout" /\ e.phase = 2
  BY <1>2 DEF Exec, ExecOK, NotFound, GoesOn, Early, Steps, Before, GuardSteps
<1>3. CASE e.op # "logout" /\ e.phase # 2
  BY <1>3, AnsweredOK DEF NotFound, GoesOn
<1> QED
  BY <1>1, <1>2, <1>3

(* What one step of an execution does to it and to the count of effects. *)
Moves(c, a) ==
    /\ exec[c][a].pc \notin {"idle", "answer"}
    /\ \E f : /\ exec' = [exec EXCEPT ![c][a] = f]
             /\ \/ GoesOn(exec[c][a], f) /\ UNCHANGED effects
                \/ Starts(exec[c][a], f) /\ Started(c)
    /\ UNCHANGED call

(* A rotated row. *)
LEMMA RotatedRow ==
    ASSUME NEW s \in Sids, NEW x \in [Sids -> SessionRow], x[s].gen + 1 \in 0..MaxGen,
           NEW t \in Nat, NEW u \in Nat
    PROVE  [x EXCEPT ![s].gen = @ + 1, ![s].expires = u, ![s].active = t] \in [Sids -> SessionRow]
<1> DEFINE r == [x[s] EXCEPT !.gen = x[s].gen + 1, !.expires = u, !.active = t]
<1>1. x[s] \in SessionRow
  OBVIOUS
<1>2. r \in SessionRow
  BY <1>1 DEF SessionRow
<1>3. [x EXCEPT ![s].gen = @ + 1, ![s].expires = u, ![s].active = t] = [x EXCEPT ![s] = r]
  OBVIOUS
<1> HIDE DEF r
<1> QED
  BY <1>2, <1>3

LEMMA LookupMoves ==
    ASSUME SessionTypeOK, NEW c \in Calls, NEW a \in Attempts, ExecOK(exec[c][a]),
           Lookup(c, a) \/ ExpireCache(c, a) \/ ExpireRow(c, a) \/ DbRead(c, a) \/ Fill(c, a)
    PROVE  Moves(c, a)
<1> DEFINE e == exec[c][a]
<1>1. e \in Exec /\ e.rec \in Entry /\ e.tok \in Tokens \cup {NoToken}
  BY ExecTyped
<1>2. UNCHANGED <<call, effects>>
  BY DEF Lookup, ExpireCache, ExpireRow, DbRead, Fill, Steady
<1>3. SUFFICES /\ e.pc \notin {"idle", "answer"}
               /\ \E f : exec' = [exec EXCEPT ![c][a] = f] /\ GoesOn(e, f)
  BY <1>2 DEF Moves
<1>4. CASE Lookup(c, a)
  <2>1. e.pc = "lookup"
    BY <1>4 DEF Lookup, At
  <2>2. CASE e.tok = NoToken
    BY <1>1, <1>4, <2>1, <2>2, NotFoundOK DEF Lookup, Become
  <2>3. CASE e.tok # NoToken /\ ~cache[e.tok].in
    <3>1. GoesOn(e, [e EXCEPT !.pc = "dbRead"])
      BY <1>1, <2>1, <2>3 DEF GoesOn, Exec, ExecOK, Early, Steps, Before, GuardSteps
    <3> QED
      BY <1>4, <2>1, <2>3, <3>1 DEF Lookup, Become
  <2>4. CASE e.tok # NoToken /\ cache[e.tok].in /\ Expired(cache[e.tok])
    <3>1. GoesOn(e, [e EXCEPT !.pc = "expireCache"])
      BY <1>1, <2>1, <2>4 DEF GoesOn, Exec, ExecOK, Early, Steps, Before, GuardSteps
    <3> QED
      BY <1>4, <2>1, <2>4, <3>1 DEF Lookup, Become
  <2>5. CASE e.tok # NoToken /\ cache[e.tok].in /\ ~Expired(cache[e.tok])
    <3>1. e.tok \in Tokens /\ cache[e.tok] \in Entry
      BY <1>1, <2>5 DEF SessionTypeOK
    <3>2. GoesOn(e, Found(e, cache[e.tok]))
      BY <1>1, <2>1, <3>1, FoundOK
    <3> QED
      BY <1>4, <2>1, <2>5, <3>2 DEF Lookup, Become
  <2> QED
    BY <2>2, <2>3, <2>4, <2>5
<1>5. CASE ExpireCache(c, a)
  <2>1. e.pc = "expireCache" /\ GoesOn(e, [e EXCEPT !.pc = "expireRow"])
    BY <1>1, <1>5 DEF ExpireCache, At, GoesOn, Exec, ExecOK, Early, Steps, Before, GuardSteps
  <2> QED
    BY <1>5, <2>1 DEF ExpireCache, Goto, Become
<1>6. CASE ExpireRow(c, a)
  <2>1. e.pc = "expireRow"
    BY <1>6 DEF ExpireRow, At
  <2> QED
    BY <1>1, <1>6, <2>1, NotFoundOK DEF ExpireRow, Become
<1>7. CASE DbRead(c, a)
  <2> DEFINE r == row[e.tok[1]]
  <2>1. e.pc = "dbRead" /\ e.tok \in Tokens
    BY <1>7 DEF DbRead, At, ExecOK, GuardSteps
  <2>2. EntryOf(r) \in Entry
    <3>1. e.tok[1] \in Sids
      BY <2>1, TokenParts, Zenon
    <3>2. r \in SessionRow
      BY <3>1, Zenon DEF SessionTypeOK
    <3> QED
      BY <3>2, EntryOfRow
  <2>3. CASE r.st # "live" \/ r.gen # e.tok[2]
    BY <1>1, <1>7, <2>1, <2>3, NotFoundOK DEF DbRead, Become
  <2>4. CASE ~(r.st # "live" \/ r.gen # e.tok[2]) /\ Expired(r)
    <3>1. GoesOn(e, [e EXCEPT !.pc = "expireRow"])
      BY <1>1, <2>1 DEF GoesOn, Exec, ExecOK, Early, Steps, Before, GuardSteps
    <3> QED
      BY <1>7, <2>1, <2>4, <3>1 DEF DbRead, Become
  <2>5. CASE ~(r.st # "live" \/ r.gen # e.tok[2]) /\ ~Expired(r)
    <3> DEFINE n == EntryOf(r)
    <3>1. n \in Entry
      BY <2>2
    <3> HIDE DEF n
    <3>2. GoesOn(e, [e EXCEPT !.pc = "fill", !.rec = n])
      BY <1>1, <2>1, <3>1 DEF GoesOn, Exec, ExecOK, Early, Steps, Before, GuardSteps
    <3> QED
      BY <1>7, <2>1, <2>5, <3>2 DEF DbRead, Become, n
  <2> QED
    BY <2>3, <2>4, <2>5, Zenon
<1>8. CASE Fill(c, a)
  <2>1. e.pc = "fill" /\ e.tok \in Tokens
    BY <1>8 DEF Fill, At, ExecOK, GuardSteps
  <2> QED
    BY <1>1, <1>8, <2>1, FoundOK DEF Fill, Become
<1> QED
  BY <1>4, <1>5, <1>6, <1>7, <1>8

LEMMA GuardMoves ==
    ASSUME SessionTypeOK, NEW c \in Calls, NEW a \in Attempts, ExecOK(exec[c][a]),
           Refresh(c, a) \/ RotDel(c, a) \/ RotSet(c, a) \/ Touch(c, a) \/ GuardUser(c, a)
    PROVE  Moves(c, a)
<1> DEFINE e == exec[c][a]
<1>1. e \in Exec /\ e.rec \in Entry
  BY ExecTyped, Zenon
<1>2. UNCHANGED <<call, effects>>
  BY Zenon DEF Refresh, RotDel, RotSet, Touch, GuardUser, Steady
<1>3. SUFFICES /\ e.pc \notin {"idle", "answer"}
               /\ \E f : exec' = [exec EXCEPT ![c][a] = f] /\ GoesOn(e, f)
  BY <1>2 DEF Moves
<1>4. CASE Refresh(c, a)
  <2> DEFINE s == e.tok[1]
             n == EntryOf(row'[s])
             k == <<s, row[s].gen + 1>>
  <2>1. e.pc = "refresh" /\ e.tok \in Tokens /\ s \in Sids /\ row[s] \in SessionRow
    <3>1. e.pc = "refresh"
      BY <1>4, Zenon DEF Refresh, At
    <3>2. e.tok \in Tokens
      BY <3>1 DEF ExecOK, GuardSteps
    <3>3. s \in Sids
      BY <3>2, TokenParts, Zenon
    <3>4. row \in [Sids -> SessionRow]
      BY DEF SessionTypeOK
    <3> QED
      BY <3>1, <3>2, <3>3, <3>4
  <2>2. CASE e.rec.expires - now < Threshold
    <3>1. row[s].gen \in 0..MaxGen /\ row[s].gen < MaxGen
      BY <1>4, <2>1, <2>2, Zenon DEF Refresh, SessionRow
    <3>2. row[s].gen + 1 \in 0..MaxGen
      BY <3>1, SessionAssumption
    <3>3. k \in Tokens
      BY <2>1, <3>2, TokenMade, Zenon
    <3>4. row'[s] \in SessionRow
      <4>1. now \in Nat /\ now + TTL \in Nat
        BY SessionAssumption DEF SessionTypeOK
      <4>2. row' = [row EXCEPT ![s].gen = @ + 1, ![s].expires = now + TTL, ![s].active = now]
        BY <1>4, <2>2, Zenon DEF Refresh
      <4>3. row' \in [Sids -> SessionRow]
        BY <2>1, <3>2, <4>1, <4>2, RotatedRow, Zenon DEF SessionTypeOK
      <4> QED
        BY <2>1, <4>3
    <3>5. n \in Entry
      BY <3>4, EntryOfRow, Zenon
    <3>6. exec' = [exec EXCEPT ![c][a] = [e EXCEPT !.pc = "rotDel", !.cookie = k, !.rec = n]]
      BY <1>4, <2>2, Zenon DEF Refresh, Become
    <3> HIDE DEF k, n
    <3>7. GoesOn(e, [e EXCEPT !.pc = "rotDel", !.cookie = k, !.rec = n])
      BY <1>1, <2>1, <3>3, <3>5 DEF GoesOn, Exec, ExecOK, Early, Steps, Before, GuardSteps
    <3> QED
      BY <2>1, <3>6, <3>7, Zenon
  <2>3. CASE ~(e.rec.expires - now < Threshold)
    <3>1. GoesOn(e, [e EXCEPT !.pc = "touch"])
      BY <1>1, <2>1 DEF GoesOn, Exec, ExecOK, Early, Steps, Before, GuardSteps
    <3> QED
      BY <1>4, <2>1, <2>3, <3>1 DEF Refresh, Goto, Become
  <2> QED
    BY <2>2, <2>3, Zenon
<1>5. CASE RotDel(c, a)
  <2>1. e.pc = "rotDel" /\ GoesOn(e, [e EXCEPT !.pc = "rotSet"])
    BY <1>1, <1>5 DEF RotDel, At, GoesOn, Exec, ExecOK, Early, Steps, Before, GuardSteps
  <2> QED
    BY <1>5, <2>1 DEF RotDel, Goto, Become
<1>6. CASE RotSet(c, a)
  <2>1. e.pc = "rotSet" /\ GoesOn(e, [e EXCEPT !.pc = "user"])
    BY <1>1, <1>6 DEF RotSet, At, GoesOn, Exec, ExecOK, Early, Steps, Before, GuardSteps
  <2> QED
    BY <1>6, <2>1 DEF RotSet, Goto, Become
<1>7. CASE Touch(c, a)
  <2> DEFINE pc == IF e.pc = "touch" THEN "touchAgain" ELSE "user"
  <2>1. e.pc \in {"touch", "touchAgain"} /\ pc \in {"touchAgain", "user"}
    BY <1>7 DEF Touch
  <2>2. exec' = [exec EXCEPT ![c][a] = [e EXCEPT !.pc = pc]]
    BY <1>7 DEF Touch, Goto, Become
  <2> HIDE DEF pc
  <2>3. GoesOn(e, [e EXCEPT !.pc = pc])
    BY <1>1, <2>1 DEF GoesOn, Exec, ExecOK, Early, Steps, Before, GuardSteps
  <2> QED
    BY <2>1, <2>2, <2>3
<1>8. CASE GuardUser(c, a)
  <2>1. e.pc = "user"
    BY <1>8 DEF GuardUser, At
  <2>2. GoesOn(e, [e EXCEPT !.pc = "handler"])
    BY <1>1, <2>1 DEF GoesOn, Exec, ExecOK, Early, Steps, Before, GuardSteps
  <2>3. GoesOn(e, Answered(e, "denied"))
    BY <1>1, <2>1, AnsweredOK DEF GoesOn
  <2>4. CASE active
    BY <1>8, <2>1, <2>2, <2>4 DEF GuardUser, Become
  <2>5. CASE ~active
    BY <1>8, <2>1, <2>3, <2>5 DEF GuardUser, Become
  <2> QED
    BY <2>4, <2>5
<1> QED
  BY <1>4, <1>5, <1>6, <1>7, <1>8

(* The handlers' steps, all but RevokeList and RevokeOne of which leave no *)
(* trace in the history of overlaps.                                       *)
LEMMA HandlerMoves ==
    ASSUME SessionTypeOK, NEW c \in Calls, NEW a \in Attempts, ExecOK(exec[c][a]),
           \/ HandleRead(c, a) \/ RevokeOthers(c, a) \/ Login(c, a) \/ AdminUpdate(c, a)
           \/ IssueDrop(c, a) \/ ResetFails(c, a) \/ ResetCommit(c, a) \/ LogoutRow(c, a)
           \/ \E s \in Sids : RevokeOne(c, a, s) \/ CreateSession(c, a, s)
           \/ \E k \in Links : ResetRead(c, a, k)
    PROVE  Moves(c, a)
<1> DEFINE e == exec[c][a]
<1>1. e \in Exec /\ e.rec \in Entry
  BY ExecTyped
<1>2. UNCHANGED call
  BY DEF HandleRead, RevokeOthers, Login, AdminUpdate, IssueDrop, ResetFails, ResetCommit, LogoutRow, RevokeOne,
         CreateSession, ResetRead, Steady
<1>3. SUFFICES /\ e.pc \notin {"idle", "answer"}
               /\ \E f : /\ exec' = [exec EXCEPT ![c][a] = f]
                         /\ (GoesOn(e, f) /\ UNCHANGED effects) \/ (Starts(e, f) /\ Started(c))
  BY <1>2 DEF Moves
<1>4. ASSUME e.pc \in {"handler", "create", "resetTx", "outRow"} PROVE e.phase = 1 /\ Early(e)
  BY <1>4 DEF ExecOK, Early, Before
<1>5. ASSUME NEW ans \in {"ok", "denied"}, Early(e)
      PROVE  Starts(e, Answered(e, ans)) /\ GoesOn(e, Answered(e, ans))
  BY <1>1, <1>5, AnsweredOK DEF Starts, GoesOn
<1>6. CASE HandleRead(c, a)
  BY <1>4, <1>5, <1>6 DEF HandleRead, At, Become
<1>7. CASE RevokeOthers(c, a)
  <2>1. e.pc = "handler" /\ e.op = "revokeOthers" /\ Early(e)
    BY <1>4, <1>7 DEF RevokeOthers, At
  <2> DEFINE f == [e EXCEPT !.pc = "lookup", !.phase = 2]
  <2>2. f \in Exec /\ f.op = "revokeOthers" /\ f.pc = "lookup" /\ f.phase = 2
    BY <1>1, <2>1 DEF Exec, Steps, Before, GuardSteps
  <2> HIDE DEF f
  <2>3. Starts(e, f)
    BY <2>1, <2>2 DEF Starts, ExecOK, Early
  <2> QED
    BY <1>7, <2>1, <2>3 DEF RevokeOthers, Become, f
<1>8. CASE Login(c, a)
  <2>1. e.pc = "handler" /\ Early(e) /\ UNCHANGED effects
    BY <1>4, <1>8 DEF Login, At
  <2>2. GoesOn(e, [e EXCEPT !.pc = "create"])
    BY <1>1, <1>4, <2>1 DEF GoesOn, Exec, ExecOK, Early, Steps, Before, GuardSteps
  <2>3. Starts(e, Answered(e, "denied")) /\ GoesOn(e, Answered(e, "denied"))
    BY <1>5, <2>1
  <2>4. CASE exec' = [exec EXCEPT ![c][a] = [e EXCEPT !.pc = "create"]]
    BY <2>1, <2>2, <2>4
  <2>5. CASE exec' = [exec EXCEPT ![c][a] = Answered(e, "denied")]
    BY <2>1, <2>3, <2>5
  <2> QED
    BY <1>8, <2>4, <2>5 DEF Login, Goto, Become
<1>9. CASE AdminUpdate(c, a)
  <2>1. e.pc = "handler" /\ Early(e) /\ Started(c)
    BY <1>4, <1>9 DEF AdminUpdate, At
  <2>2. Starts(e, [e EXCEPT !.pc = "revList"])
    BY <1>1, <2>1 DEF Starts, Exec, ExecOK, Early, Steps, Before, GuardSteps
  <2>3. CASE e.op = "enable"
    BY <1>5, <1>9, <2>1, <2>3 DEF AdminUpdate, Become
  <2>4. CASE e.op # "enable"
    BY <1>9, <2>1, <2>2, <2>4 DEF AdminUpdate, Become
  <2> QED
    BY <2>3, <2>4
<1>10. CASE IssueDrop(c, a)
  <2>1. e.pc = "handler" /\ Early(e) /\ Started(c)
    BY <1>4, <1>10 DEF IssueDrop, At
  <2>2. Starts(e, [e EXCEPT !.pc = "issue"])
    BY <1>1, <2>1 DEF Starts, Exec, ExecOK, Early, Steps, Before, GuardSteps
  <2> QED
    BY <1>10, <2>1, <2>2 DEF IssueDrop, Goto, Become
<1>11. CASE ResetCommit(c, a)
  <2>1. e.pc = "resetTx" /\ Early(e) /\ Started(c)
    BY <1>4, <1>11 DEF ResetCommit, At
  <2>2. Starts(e, [e EXCEPT !.pc = "revList"])
    BY <1>1, <2>1 DEF Starts, Exec, ExecOK, Early, Steps, Before, GuardSteps
  <2> QED
    BY <1>11, <2>1, <2>2 DEF ResetCommit, Goto, Become
<1>11a. CASE ResetFails(c, a)
  <2>1. e.pc = "resetTx" /\ Early(e) /\ UNCHANGED effects
    BY <1>4, <1>11a DEF ResetFails, At
  <2>2. exec' = [exec EXCEPT ![c][a] = Answered(e, "denied")]
    BY <1>11a DEF ResetFails, Become
  <2> QED
    BY <1>5, <2>1, <2>2
<1>12. CASE LogoutRow(c, a)
  <2>1. e.pc = "outRow" /\ Early(e) /\ Started(c)
    BY <1>4, <1>12 DEF LogoutRow, At
  <2>2. Starts(e, [Answered(e, "ok") EXCEPT !.cookie = <<"clear">>])
    BY <1>1, <2>1 DEF Answered, Starts, Exec, ExecOK, Early, Steps, Before, GuardSteps
  <2> QED
    BY <1>12, <2>1, <2>2 DEF LogoutRow, Become
<1>13. ASSUME NEW s \in Sids, RevokeOne(c, a, s)
       PROVE  /\ e.pc \notin {"idle", "answer"}
              /\ \E f : /\ exec' = [exec EXCEPT ![c][a] = f]
                        /\ (GoesOn(e, f) /\ UNCHANGED effects) \/ (Starts(e, f) /\ Started(c))
  <2> DEFINE t == <<s, row[s].gen>>
             K == Sids \ {s}
  <2>1. e.pc = "handler" /\ Early(e) /\ Started(c)
    BY <1>4, <1>13 DEF RevokeOne, At
  <2>2. t \in Tokens /\ K \subseteq Sids
    BY TokenMade DEF SessionTypeOK, SessionRow
  <2>3. CASE row[s].st = "live"
    <3>1. exec' = [exec EXCEPT ![c][a] = [e EXCEPT !.pc = "revCache", !.todo = {t}, !.keep = K]]
      BY <1>13, <2>3 DEF RevokeOne, SessionTypeOK
    <3> HIDE DEF t, K
    <3>2. Starts(e, [e EXCEPT !.pc = "revCache", !.todo = {t}, !.keep = K])
      BY <1>1, <2>1, <2>2 DEF Starts, Exec, ExecOK, Early, Steps, Before, GuardSteps
    <3> QED
      BY <2>1, <3>1, <3>2
  <2>4. CASE row[s].st # "live"
    <3>1. exec' = [exec EXCEPT ![c][a] = Answered(e, "ok")]
      BY <1>13, <2>4 DEF RevokeOne, SessionTypeOK
    <3> QED
      BY <1>5, <2>1, <3>1
  <2> QED
    BY <2>3, <2>4
<1>14. ASSUME NEW s \in Sids, CreateSession(c, a, s)
       PROVE  /\ e.pc \notin {"idle", "answer"}
              /\ \E f : /\ exec' = [exec EXCEPT ![c][a] = f]
                        /\ (GoesOn(e, f) /\ UNCHANGED effects) \/ (Starts(e, f) /\ Started(c))
  <2> DEFINE r == [st |-> "live", gen |-> 0, created |-> now, active |-> now, expires |-> now + TTL]
             t == <<s, 0>>
             n == EntryOf(r)
  <2>1. e.pc = "create" /\ Early(e) /\ Started(c)
    BY <1>4, <1>14 DEF CreateSession, At
  <2>2. 0 \in 0..MaxGen /\ now \in Nat /\ now + TTL \in Nat
    BY SessionAssumption DEF SessionTypeOK
  <2>3. t \in Tokens
    BY <2>2, TokenMade
  <2>4. n \in Entry
    BY <2>2 DEF EntryOf, Entry
  <2>5. exec' = [exec EXCEPT ![c][a] = [e EXCEPT !.pc = "createCache", !.cookie = t, !.tok = t, !.rec = n]]
    BY <1>14 DEF CreateSession, SessionTypeOK
  <2> HIDE DEF t, n
  <2>6. Starts(e, [e EXCEPT !.pc = "createCache", !.cookie = t, !.tok = t, !.rec = n])
    BY <1>1, <2>1, <2>3, <2>4 DEF Starts, Exec, ExecOK, Early, Steps, Before, GuardSteps
  <2> QED
    BY <2>1, <2>5, <2>6
<1>15. ASSUME NEW k \in Links, ResetRead(c, a, k)
       PROVE  /\ e.pc \notin {"idle", "answer"}
              /\ \E f : /\ exec' = [exec EXCEPT ![c][a] = f]
                        /\ (GoesOn(e, f) /\ UNCHANGED effects) \/ (Starts(e, f) /\ Started(c))
  <2>1. e.pc = "handler" /\ Early(e) /\ UNCHANGED effects
    BY <1>4, <1>15 DEF ResetRead, At
  <2>2. GoesOn(e, [e EXCEPT !.pc = "resetTx", !.found = {k}])
    BY <1>1, <1>4, <2>1 DEF GoesOn, Exec, ExecOK, Early, Steps, Before, GuardSteps
  <2>3. GoesOn(e, Answered(e, "denied"))
    BY <1>5, <2>1
  <2> DEFINE f == IF link[k] = "unused" THEN [e EXCEPT !.pc = "resetTx", !.found = {k}] ELSE Answered(e, "denied")
  <2>4. exec' = [exec EXCEPT ![c][a] = f]
    BY <1>15 DEF ResetRead, Become
  <2>5. GoesOn(e, f)
    BY <2>2, <2>3
  <2> HIDE DEF f
  <2> QED
    BY <2>1, <2>4, <2>5
<1> QED
  BY <1>6, <1>7, <1>8, <1>9, <1>10, <1>11, <1>11a, <1>12, <1>13, <1>14, <1>15

(* The rest of a handler, and the faults that end an execution. *)
LEMMA RestMoves ==
    ASSUME SessionTypeOK, NEW c \in Calls, NEW a \in Attempts, ExecOK(exec[c][a]),
           \/ RevokeList(c, a) \/ RevokeRows(c, a) \/ LogoutCache(c, a) \/ CreateCache(c, a)
           \/ \E t \in Tokens : RevokeCache(c, a, t)
           \/ \E k \in Links : IssueAdd(c, a, k)
           \/ CacheDown(c, a) \/ Crash(c, a)
    PROVE  Moves(c, a)
<1> DEFINE e == exec[c][a]
<1>1. e \in Exec /\ e.rec \in Entry
  BY ExecTyped
<1>2. UNCHANGED <<call, effects>>
  BY Zenon DEF RevokeList, RevokeRows, LogoutCache, CreateCache, RevokeCache, IssueAdd, CacheDown, Crash, Steady
<1>3. SUFFICES /\ e.pc \notin {"idle", "answer"}
               /\ \E f : exec' = [exec EXCEPT ![c][a] = f] /\ GoesOn(e, f)
  BY <1>2 DEF Moves
<1>4. ASSUME NEW ans \in {"ok", "denied", "down", "broken"} PROVE GoesOn(e, Answered(e, ans))
  BY <1>1, AnsweredOK DEF GoesOn
<1>5. CASE RevokeList(c, a)
  <2> DEFINE S == {s \in Sids \ e.keep : row[s].st = "live"}
             T == {<<s, row[s].gen>> : s \in S}
  <2>1. e.pc = "revList"
    BY <1>5 DEF RevokeList, At
  <2>2. T \subseteq Tokens
    BY TokenMade DEF SessionTypeOK, SessionRow
  <2>3. exec' = [exec EXCEPT ![c][a] = [e EXCEPT !.pc = "revCache", !.todo = T]]
    BY <1>5 DEF RevokeList
  <2> HIDE DEF T
  <2>4. GoesOn(e, [e EXCEPT !.pc = "revCache", !.todo = T])
    BY <1>1, <2>1, <2>2 DEF GoesOn, Exec, ExecOK, Early, Steps, Before, GuardSteps
  <2> QED
    BY <2>1, <2>3, <2>4
<1>6. CASE RevokeRows(c, a)
  BY <1>4, <1>6 DEF RevokeRows, At, Become
<1>7. CASE LogoutCache(c, a)
  <2>1. e.pc = "outCache" /\ GoesOn(e, [e EXCEPT !.pc = "outRow"])
    BY <1>1, <1>7 DEF LogoutCache, At, GoesOn, Exec, ExecOK, Early, Steps, Before, GuardSteps
  <2> QED
    BY <1>7, <2>1 DEF LogoutCache, Goto, Become
<1>8. CASE CreateCache(c, a)
  BY <1>4, <1>8 DEF CreateCache, At, Become
<1>9. ASSUME NEW t \in Tokens, RevokeCache(c, a, t)
      PROVE  e.pc \notin {"idle", "answer"} /\ \E f : exec' = [exec EXCEPT ![c][a] = f] /\ GoesOn(e, f)
  <2>1. e.pc = "revCache" /\ e.todo \ {t} \subseteq Tokens
    BY <1>1, <1>9 DEF RevokeCache, At, Exec
  <2>2. GoesOn(e, [e EXCEPT !.todo = @ \ {t}])
    BY <1>1, <2>1 DEF GoesOn, Exec, ExecOK, Early
  <2> QED
    BY <1>9, <2>1, <2>2 DEF RevokeCache, Become
<1>10. CASE \E k \in Links : IssueAdd(c, a, k)
  BY <1>4, <1>10 DEF IssueAdd, At, Become
<1>11. CASE CacheDown(c, a)
  BY <1>4, <1>11 DEF CacheDown, Become
<1>12. CASE Crash(c, a)
  BY <1>4, <1>12 DEF Crash, Running, Become
<1> QED
  BY <1>5, <1>6, <1>7, <1>8, <1>9, <1>10, <1>11, <1>12

-----------------------------------------------------------------------------
(* The rows and the cache keep their shape. *)

LEMMA RevokeShape ==
    ASSUME SessionTypeOK, NEW S, Revoke(S)
    PROVE  row' \in [Sids -> SessionRow]
BY DEF SessionTypeOK, Revoke, SessionRow

(* The rows after a step of an execution. *)
LEMMA RowShape ==
    ASSUME SessionTypeOK, NEW c \in Calls, NEW a \in Attempts, ExecOK(exec[c][a]), Step(c, a)
    PROVE  row' \in [Sids -> SessionRow]
<1> DEFINE e == exec[c][a]
<1>1. row \in [Sids -> SessionRow] /\ now \in Nat /\ now + TTL \in Nat /\ 0 \in 0..MaxGen
  BY SessionAssumption DEF SessionTypeOK
<1>2. CASE UNCHANGED row
  BY <1>1, <1>2
<1>3. CASE ExpireRow(c, a) \/ RevokeRows(c, a) \/ LogoutRow(c, a)
  BY <1>3, RevokeShape DEF ExpireRow, RevokeRows, LogoutRow
<1>4. CASE Refresh(c, a)
  <2> DEFINE s == e.tok[1]
  <2>1. e.tok \in Tokens /\ s \in Sids
    <3>1. e.pc = "refresh"
      BY <1>4, Zenon DEF Refresh, At
    <3>2. e.tok \in Tokens
      BY <3>1, Zenon DEF ExecOK, GuardSteps
    <3> QED
      BY <3>2, TokenParts, Zenon
  <2>2. CASE e.rec.expires - now < Threshold
    <3>1. row[s].gen + 1 \in 0..MaxGen
      <4>1. row[s].gen \in 0..MaxGen /\ row[s].gen < MaxGen
        BY <1>1, <1>4, <2>1, <2>2, Zenon DEF Refresh, SessionRow
      <4> QED
        BY <4>1, SessionAssumption
    <3>2. row' = [row EXCEPT ![s].gen = @ + 1, ![s].expires = now + TTL, ![s].active = now]
      BY <1>4, <2>2, Zenon DEF Refresh
    <3> QED
      BY <1>1, <2>1, <3>1, <3>2, RotatedRow, Zenon
  <2>3. CASE ~(e.rec.expires - now < Threshold)
    BY <1>2, <1>4, <2>3 DEF Refresh
  <2> QED
    BY <2>2, <2>3, Zenon
<1>5. CASE Touch(c, a)
  <2>1. e.tok \in Tokens
    BY <1>5 DEF Touch, ExecOK, GuardSteps
  <2> QED
    BY <1>1, <1>5, <2>1, TokenParts DEF Touch, SessionRow
<1>6. CASE \E s \in Sids : CreateSession(c, a, s)
  BY <1>1, <1>6 DEF CreateSession, SessionRow
<1>7. CASE \/ Lookup(c, a) \/ ExpireCache(c, a) \/ DbRead(c, a) \/ Fill(c, a) \/ RotDel(c, a)
           \/ RotSet(c, a) \/ GuardUser(c, a) \/ HandleRead(c, a) \/ RevokeOthers(c, a)
           \/ RevokeList(c, a) \/ LogoutCache(c, a) \/ Login(c, a) \/ CreateCache(c, a)
           \/ AdminUpdate(c, a) \/ IssueDrop(c, a) \/ ResetFails(c, a) \/ ResetCommit(c, a)
           \/ \E s \in Sids : RevokeOne(c, a, s)
           \/ \E t \in Tokens : RevokeCache(c, a, t)
           \/ \E k \in Links : IssueAdd(c, a, k) \/ ResetRead(c, a, k)
  <2>1. UNCHANGED row
    BY <1>7, Zenon DEF Lookup, ExpireCache, DbRead, Fill, RotDel, RotSet, GuardUser, HandleRead, RevokeOthers,
         RevokeList, LogoutCache, Login, CreateCache, AdminUpdate, IssueDrop, ResetFails, ResetCommit, RevokeOne,
         RevokeCache, IssueAdd, ResetRead
  <2> QED
    BY <1>2, <2>1, Zenon
<1> QED
  BY <1>3, <1>4, <1>5, <1>6, <1>7 DEF Step

(* The cache after a step of an execution. *)
LEMMA CacheShape ==
    ASSUME SessionTypeOK, NEW c \in Calls, NEW a \in Attempts, ExecOK(exec[c][a]), Step(c, a)
    PROVE  cache' \in [Tokens -> Entry]
<1> DEFINE e == exec[c][a]
<1>1. /\ cache \in [Tokens -> Entry] /\ NoEntry \in Entry /\ now \in Nat
      /\ e.rec \in Entry /\ [e.rec EXCEPT !.active = now] \in Entry
      /\ e.tok \in Tokens \cup {NoToken}
  <2>1. e \in Exec /\ now \in Nat /\ cache \in [Tokens -> Entry]
    BY DEF SessionTypeOK
  <2>2. e.rec \in Entry /\ e.tok \in Tokens \cup {NoToken}
    BY <2>1 DEF Exec
  <2>3. [e.rec EXCEPT !.active = now] \in Entry
    BY <2>1, <2>2 DEF Entry
  <2>4. NoEntry \in Entry
    BY DEF Entry, NoEntry
  <2> QED
    BY <2>1, <2>2, <2>3, <2>4
<1>2. ASSUME NEW t \in Tokens, NEW n \in Entry, cache' = [cache EXCEPT ![t] = n]
      PROVE  cache' \in [Tokens -> Entry]
  BY <1>1, <1>2
<1>3. CASE UNCHANGED cache
  BY <1>1, <1>3
<1>4. CASE ExpireCache(c, a) \/ RotDel(c, a)
  <2>1. e.tok \in Tokens /\ cache' = [cache EXCEPT ![e.tok] = NoEntry]
    BY <1>4 DEF ExpireCache, RotDel, At, ExecOK, GuardSteps
  <2> QED
    BY <1>1, <1>2, <2>1
<1>5. CASE Fill(c, a)
  <2>1. e.tok \in Tokens /\ cache' = [cache EXCEPT ![e.tok] = e.rec]
    BY <1>5 DEF Fill, At, ExecOK, GuardSteps
  <2> QED
    BY <1>1, <1>2, <2>1
<1>6. CASE RotSet(c, a) \/ CreateCache(c, a)
  <2>1. e.cookie \in Tokens /\ cache' = [cache EXCEPT ![e.cookie] = e.rec]
    BY <1>6 DEF RotSet, CreateCache, At, ExecOK
  <2> QED
    BY <1>1, <1>2, <2>1
<1>7. CASE Touch(c, a)
  <2>1. e.tok \in Tokens /\ cache' = [cache EXCEPT ![e.tok] = [e.rec EXCEPT !.active = now]]
    BY <1>7 DEF Touch, ExecOK, GuardSteps
  <2> QED
    BY <1>1, <1>2, <2>1
<1>8. CASE LogoutCache(c, a)
  BY <1>1, <1>8 DEF LogoutCache
<1>9. CASE \E t \in Tokens : RevokeCache(c, a, t)
  BY <1>1, <1>9 DEF RevokeCache
<1>10. CASE \/ Lookup(c, a) \/ ExpireRow(c, a) \/ DbRead(c, a) \/ Refresh(c, a)
            \/ GuardUser(c, a) \/ HandleRead(c, a) \/ RevokeOthers(c, a)
            \/ RevokeList(c, a) \/ RevokeRows(c, a) \/ LogoutRow(c, a) \/ Login(c, a)
            \/ AdminUpdate(c, a) \/ IssueDrop(c, a) \/ ResetFails(c, a) \/ ResetCommit(c, a)
            \/ \E s \in Sids : RevokeOne(c, a, s) \/ CreateSession(c, a, s)
            \/ \E k \in Links : IssueAdd(c, a, k) \/ ResetRead(c, a, k)
  <2>1. UNCHANGED cache
    BY <1>10, Zenon DEF Lookup, ExpireRow, DbRead, Refresh, GuardUser, HandleRead, RevokeOthers, RevokeList,
         RevokeRows, LogoutRow, Login, AdminUpdate, IssueDrop, ResetFails, ResetCommit, RevokeOne, CreateSession,
         IssueAdd, ResetRead
  <2> QED
    BY <1>3, <2>1, Zenon
<1> QED
  BY <1>4, <1>5, <1>6, <1>7, <1>8, <1>9, <1>10 DEF Step

(* The rest of the store. *)
LEMMA StepElse ==
    ASSUME SessionTypeOK, NEW c \in Calls, NEW a \in Attempts, Step(c, a)
    PROVE  now' = now /\ jar' = jar /\ active' \in BOOLEAN
<1>1. CASE AdminUpdate(c, a)
  BY <1>1, Zenon DEF AdminUpdate, SessionTypeOK
<1>2. CASE ~AdminUpdate(c, a)
  BY <1>2, Zenon DEF SessionTypeOK, Step, Lookup, ExpireCache, ExpireRow, DbRead, Fill, Refresh, RotDel, RotSet,
      Touch, GuardUser, HandleRead, RevokeOthers, RevokeList, RevokeRows, LogoutCache, LogoutRow, Login,
      CreateCache, IssueDrop, ResetFails, ResetCommit, RevokeOne, CreateSession, RevokeCache, IssueAdd, ResetRead, Steady
<1> QED
  BY <1>1, <1>2

(* Every step of an execution is one of its way. *)
LEMMA StepMoves ==
    ASSUME SessionTypeOK, NEW c \in Calls, NEW a \in Attempts, ExecOK(exec[c][a]),
           Step(c, a) \/ CacheDown(c, a) \/ Crash(c, a)
    PROVE  Moves(c, a)
BY LookupMoves, GuardMoves, HandlerMoves, RestMoves DEF Step

-----------------------------------------------------------------------------
(* A call and its executions.  All of them are at the operation of the call;*)
(* a call that is not a read has no second one, and has had no effect while*)
(* its only one has not started.                                           *)

CallSound(c) ==
    /\ \A a \in Attempts : /\ ExecOK(exec[c][a])
                           /\ exec[c][a].pc # "idle" => exec[c][a].op = call[c].op
    /\ call[c].op \notin Reads =>
           /\ call[c].attempt = 0
           /\ \A a \in Attempts \ {0} : exec[c][a].pc = "idle"
           /\ effects[c] <= 1
           /\ Early(exec[c][0]) => effects[c] = 0

SessionInv == SessionTypeOK /\ \A c \in Calls : CallSound(c)

LEMMA FirstAttempt == 0 \in Attempts
BY SessionAssumption DEF Attempts

(* A new execution, and none. *)
LEMMA NewExecOK ==
    ASSUME NEW op \in AllOps, NEW tok \in Tokens \cup {NoToken}
    PROVE  /\ NewExec(op, tok) \in Exec /\ ExecOK(NewExec(op, tok))
           /\ NewExec(op, tok).op = op /\ NewExec(op, tok).pc # "idle"
<1> DEFINE pc == IF op \in Guarded \cup {"logout"} THEN "lookup" ELSE "handler"
<1>1. pc \in {"lookup", "handler"}
  OBVIOUS
<1>2. NoEntry \in Entry
  BY DEF NoEntry, Entry
<1> DEFINE n == [pc |-> pc, op |-> op, tok |-> tok, rec |-> NoEntry, phase |-> 1,
                 cookie |-> NoToken, todo |-> {}, keep |-> {}, found |-> {}, ans |-> ""]
<1>3. NewExec(op, tok) = n
  BY DEF NewExec
<1> HIDE DEF pc
<1>4. n \in Exec
  BY <1>1, <1>2 DEF Exec, Steps, Before, GuardSteps
<1>5. n.pc \in {"lookup", "handler"} /\ n.op = op /\ n.phase = 1
  BY <1>1
<1> HIDE DEF n
<1>6. ExecOK(n) /\ n.pc # "idle"
  BY <1>5 DEF ExecOK, GuardSteps
<1> QED
  BY <1>3, <1>4, <1>5, <1>6

LEMMA NoExecOK == NoExec \in Exec /\ ExecOK(NoExec) /\ NoExec.pc = "idle" /\ ~Early(NoExec)
<1>1. "page" \in AllOps /\ NoToken \in Tokens \cup {NoToken}
  BY DEF AllOps, Guarded, Reads
<1> DEFINE n == NewExec("page", NoToken)
<1>2. n \in Exec
  BY <1>1, NewExecOK
<1>3. n.phase = 1
  BY DEF NewExec
<1>4. NoExec = [n EXCEPT !.pc = "idle"]
  BY DEF NoExec
<1> HIDE DEF n
<1>5. NoExec \in Exec
  BY <1>2, <1>4 DEF Exec, Steps
<1>6. NoExec.pc = "idle" /\ NoExec.phase = 1
  BY <1>2, <1>3, <1>4 DEF Exec
<1> QED
  BY <1>5, <1>6 DEF ExecOK, Early, Before, GuardSteps

LEMMA SessionInitInv == Init => SessionInv
<1> SUFFICES ASSUME Init PROVE SessionInv
  OBVIOUS
<1>1. 0 \in 0..MaxGen /\ "page" \in AllOps /\ NoEntry \in Entry
  BY SessionAssumption DEF AllOps, Guarded, Reads, NoEntry, Entry
<1>2. /\ now \in Nat /\ row \in [Sids -> SessionRow] /\ cache \in [Tokens -> Entry]
      /\ active \in BOOLEAN /\ jar \in Tokens \cup {NoToken} /\ effects \in [Calls -> Nat]
  BY <1>1 DEF Init, SessionRow
<1>3. call \in [Calls -> Call] /\ \A c \in Calls : call[c].op \in Reads
  BY <1>1, FirstAttempt DEF Init, Call, Reads
<1>4. exec \in [Calls -> [Attempts -> Exec]] /\ \A c \in Calls, a \in Attempts : exec[c][a] = NoExec
  BY NoExecOK DEF Init
<1>5. \A c \in Calls, a \in Attempts : ExecOK(exec[c][a]) /\ exec[c][a].pc = "idle"
  BY <1>4, NoExecOK
<1> QED
  BY <1>2, <1>3, <1>4, <1>5 DEF SessionInv, SessionTypeOK, CallSound

(* What an execution does to the calls. *)
LEMMA MovesCalls ==
    ASSUME SessionInv, NEW c \in Calls, NEW a \in Attempts, Moves(c, a)
    PROVE  /\ exec' \in [Calls -> [Attempts -> Exec]] /\ effects' \in [Calls -> Nat]
           /\ call' \in [Calls -> Call] /\ (\A d \in Calls : CallSound(d))'
<1>1. PICK f : /\ exec' = [exec EXCEPT ![c][a] = f]
               /\ \/ GoesOn(exec[c][a], f) /\ UNCHANGED effects
                  \/ Starts(exec[c][a], f) /\ Started(c)
  BY DEF Moves
<1>2. /\ f \in Exec /\ ExecOK(f) /\ f.op = exec[c][a].op /\ exec[c][a].pc # "idle"
      /\ call' = call
  BY <1>1 DEF GoesOn, Starts, Moves
<1>3. /\ exec \in [Calls -> [Attempts -> Exec]] /\ effects \in [Calls -> Nat] /\ call \in [Calls -> Call]
      /\ \A d \in Calls : CallSound(d)
  BY DEF SessionInv, SessionTypeOK
<1>4. /\ exec' \in [Calls -> [Attempts -> Exec]]
      /\ \A d \in Calls, b \in Attempts : exec'[d][b] = IF d = c /\ b = a THEN f ELSE exec[d][b]
  BY <1>1, <1>2, <1>3
<1>5. effects' \in [Calls -> Nat] /\ \A d \in Calls \ {c} : effects'[d] = effects[d]
  BY <1>1, <1>3 DEF Started
<1>6. ASSUME NEW d \in Calls PROVE CallSound(d)'
  <2>1. \A b \in Attempts : ExecOK(exec'[d][b]) /\ (exec'[d][b].pc # "idle" => exec'[d][b].op = call'[d].op)
    BY <1>2, <1>3, <1>4 DEF CallSound
  <2>2. ASSUME call[d].op \notin Reads
        PROVE  /\ call'[d].attempt = 0
               /\ \A b \in Attempts \ {0} : exec'[d][b].pc = "idle"
               /\ effects'[d] <= 1
               /\ Early(exec'[d][0]) => effects'[d] = 0
    <3>1. /\ call[d].attempt = 0 /\ \A b \in Attempts \ {0} : exec[d][b].pc = "idle"
          /\ effects[d] <= 1 /\ (Early(exec[d][0]) => effects[d] = 0)
      BY <1>3, <2>2 DEF CallSound
    <3>2. d = c => a = 0
      BY <1>2, <3>1
    <3>3. CASE d # c
      BY <1>2, <1>4, <1>5, <3>1, <3>3, FirstAttempt
    <3>4. CASE d = c
      <4>1. exec'[d][0] = f /\ \A b \in Attempts \ {0} : exec'[d][b] = exec[d][b]
        BY <1>4, <3>2, <3>4, FirstAttempt
      <4>2. CASE GoesOn(exec[c][a], f) /\ UNCHANGED effects
        BY <1>2, <3>1, <3>2, <3>4, <4>1, <4>2 DEF GoesOn
      <4>3. CASE Starts(exec[c][a], f) /\ Started(c)
        <5>1. effects[c] = 0 /\ ~Early(f)
          BY <3>1, <3>2, <3>4, <4>3 DEF Starts
        <5>2. effects'[c] = 1
          BY <1>3, <4>3, <5>1 DEF Started
        <5> QED
          BY <1>2, <3>1, <3>4, <4>1, <5>1, <5>2
      <4> QED
        BY <1>1, <4>2, <4>3
    <3> QED
      BY <3>3, <3>4
  <2> QED
    BY <1>2, <2>1, <2>2 DEF CallSound
<1> QED
  BY <1>2, <1>3, <1>4, <1>5, <1>6

(* A page sends a request: no execution of an earlier one is left. *)
LEMMA SendInv ==
    ASSUME SessionInv, NEW c \in Calls, NEW op \in AllOps, Send(c, op)
    PROVE  SessionInv'
<1> DEFINE tok == IF op \in Guarded \cup {"logout"} THEN jar ELSE NoToken
           n   == NewExec(op, tok)
           r   == [st |-> "waiting", op |-> op, tok |-> tok, attempt |-> 0]
<1>1. SessionTypeOK /\ \A d \in Calls : CallSound(d)
  BY DEF SessionInv
<1>2. tok \in Tokens \cup {NoToken}
  BY <1>1 DEF SessionTypeOK
<1>3. n \in Exec /\ ExecOK(n) /\ n.op = op
  BY <1>2, NewExecOK
<1>4. r \in Call /\ r.op = op /\ r.attempt = 0
  BY <1>2, FirstAttempt DEF Call
<1>5. /\ exec' = [exec EXCEPT ![c][0] = n] /\ call' = [call EXCEPT ![c] = r]
      /\ effects' = [effects EXCEPT ![c] = 0] /\ UNCHANGED <<now, store, jar>>
      /\ \A a \in Attempts : exec[c][a].pc = "idle"
  BY DEF Send
<1> HIDE DEF n, r
<1>6. /\ exec' \in [Calls -> [Attempts -> Exec]] /\ call' \in [Calls -> Call] /\ effects' \in [Calls -> Nat]
      /\ exec'[c][0] = n /\ \A a \in Attempts \ {0} : exec'[c][a] = exec[c][a]
      /\ call'[c] = r /\ effects'[c] = 0
      /\ \A d \in Calls \ {c} : exec'[d] = exec[d] /\ call'[d] = call[d] /\ effects'[d] = effects[d]
  BY <1>1, <1>3, <1>4, <1>5, FirstAttempt DEF SessionTypeOK
<1>7. CallSound(c)'
  <2>1. ASSUME NEW a \in Attempts
        PROVE  ExecOK(exec'[c][a]) /\ (exec'[c][a].pc # "idle" => exec'[c][a].op = call'[c].op)
    BY <1>1, <1>3, <1>4, <1>5, <1>6 DEF CallSound
  <2>2. \A a \in Attempts \ {0} : exec'[c][a].pc = "idle"
    BY <1>5, <1>6
  <2> QED
    BY <1>4, <1>6, <2>1, <2>2 DEF CallSound
<1>8. \A d \in Calls \ {c} : CallSound(d)'
  BY <1>1, <1>6, FirstAttempt DEF CallSound
<1>9. SessionTypeOK'
  BY <1>1, <1>5, <1>6 DEF SessionTypeOK, store
<1> QED
  BY <1>7, <1>8, <1>9 DEF SessionInv

(* What the proxy's next attempt does. *)
LEMMA AgainShape ==
    ASSUME SessionInv, NEW c \in Calls, Again(c)
    PROVE  \E a \in Attempts : \E n, l \in Exec :
               /\ a = call[c].attempt + 1 /\ a - 1 \in Attempts /\ a - 1 # a /\ call[c].op \in Reads
               /\ n = NewExec(call[c].op, call[c].tok) /\ ExecOK(n) /\ n.op = call[c].op
               /\ l = IF exec[c][a - 1].pc = "answer" THEN NoExec ELSE exec[c][a - 1]
               /\ exec' \in [Calls -> [Attempts -> Exec]] /\ call' \in [Calls -> Call]
               /\ \A b \in Attempts : exec'[c][b] = IF b = a - 1 THEN l ELSE IF b = a THEN n ELSE exec[c][b]
               /\ call'[c].op = call[c].op /\ call'[c].attempt = a /\ jar' = jar
               /\ \A d \in Calls \ {c} : exec'[d] = exec[d] /\ call'[d] = call[d]
<1> DEFINE a == call[c].attempt + 1
           n == NewExec(call[c].op, call[c].tok)
           l == IF exec[c][a - 1].pc = "answer" THEN NoExec ELSE exec[c][a - 1]
<1>1. SessionTypeOK /\ \A d \in Calls : CallSound(d)
  BY DEF SessionInv
<1>2. call[c] \in Call /\ call[c].op \in Reads /\ call[c].attempt < MaxRetries
  BY <1>1 DEF Again, Retryable, SessionTypeOK
<1>3. call[c].attempt \in Nat /\ call[c].attempt <= MaxRetries
  BY <1>2, SessionAssumption DEF Call, Attempts
<1>4. a \in Attempts /\ a - 1 \in Attempts /\ a - 1 # a
  BY <1>2, <1>3, SessionAssumption DEF Attempts
<1>5. n \in Exec /\ ExecOK(n) /\ n.op = call[c].op
  BY <1>2, NewExecOK DEF Call
<1>6. l \in Exec
  BY <1>1, <1>4, NoExecOK DEF SessionTypeOK
<1>7. exec' = [exec EXCEPT ![c][a] = n, ![c][a - 1] = l]
  <2>1. exec' = [exec EXCEPT ![c][a] = n, ![c][a - 1] = IF @.pc = "answer" THEN NoExec ELSE @]
    BY DEF Again
  <2>2. [exec EXCEPT ![c][a] = n][c][a - 1] = exec[c][a - 1]
    BY <1>1, <1>4 DEF SessionTypeOK
  <2> HIDE DEF a, n
  <2> QED
    BY <1>1, <2>1, <2>2 DEF SessionTypeOK
<1>8. call' = [call EXCEPT ![c].attempt = a] /\ jar' = jar
  BY DEF Again
<1>9. l = IF exec[c][a - 1].pc = "answer" THEN NoExec ELSE exec[c][a - 1]
  OBVIOUS
<1> HIDE DEF a, n, l
<1>10. /\ call' \in [Calls -> Call] /\ call'[c].op = call[c].op /\ call'[c].attempt = a
       /\ \A d \in Calls \ {c} : call'[d] = call[d]
  BY <1>1, <1>2, <1>4, <1>8 DEF SessionTypeOK, Call
<1>11. /\ exec' \in [Calls -> [Attempts -> Exec]]
       /\ \A b \in Attempts : exec'[c][b] = IF b = a - 1 THEN l ELSE IF b = a THEN n ELSE exec[c][b]
       /\ \A d \in Calls \ {c} : exec'[d] = exec[d]
  <2> DEFINE x == [exec EXCEPT ![c][a] = n]
  <2>1. /\ x \in [Calls -> [Attempts -> Exec]] /\ x[c][a] = n
        /\ \A b \in Attempts \ {a} : x[c][b] = exec[c][b]
        /\ \A d \in Calls \ {c} : x[d] = exec[d]
    BY <1>1, <1>4, <1>5 DEF SessionTypeOK
  <2>2. exec' = [x EXCEPT ![c][a - 1] = l]
    BY <1>7
  <2> HIDE DEF x
  <2>3. /\ exec' \in [Calls -> [Attempts -> Exec]] /\ exec'[c][a - 1] = l
        /\ \A b \in Attempts \ {a - 1} : exec'[c][b] = x[c][b]
        /\ \A d \in Calls \ {c} : exec'[d] = x[d]
    BY <1>4, <1>6, <2>1, <2>2
  <2> QED
    BY <1>4, <2>1, <2>3
<1>12. a = call[c].attempt + 1 /\ n = NewExec(call[c].op, call[c].tok)
  BY DEF a, n
<1> USE <1>4, <1>5, <1>6
<1> WITNESS a \in Attempts
<1> WITNESS n \in Exec, l \in Exec
<1> QED
  BY <1>2, <1>4, <1>5, <1>8, <1>9, <1>10, <1>11, <1>12

(* The proxy sends a read once more. *)
LEMMA AgainInv ==
    ASSUME SessionInv, NEW c \in Calls, Again(c), UNCHANGED <<now, store, effects>>
    PROVE  SessionInv'
<1>1. SessionTypeOK /\ \A d \in Calls : CallSound(d)
  BY DEF SessionInv
<1>2. PICK a \in Attempts : \E n, l \in Exec :
          /\ a = call[c].attempt + 1 /\ a - 1 \in Attempts /\ a - 1 # a /\ call[c].op \in Reads
          /\ n = NewExec(call[c].op, call[c].tok) /\ ExecOK(n) /\ n.op = call[c].op
          /\ l = IF exec[c][a - 1].pc = "answer" THEN NoExec ELSE exec[c][a - 1]
          /\ exec' \in [Calls -> [Attempts -> Exec]] /\ call' \in [Calls -> Call]
          /\ \A b \in Attempts : exec'[c][b] = IF b = a - 1 THEN l ELSE IF b = a THEN n ELSE exec[c][b]
          /\ call'[c].op = call[c].op /\ call'[c].attempt = a /\ jar' = jar
          /\ \A d \in Calls \ {c} : exec'[d] = exec[d] /\ call'[d] = call[d]
  BY AgainShape
<1>3. PICK n \in Exec, l \in Exec :
          /\ ExecOK(n) /\ n.op = call[c].op
          /\ l = IF exec[c][a - 1].pc = "answer" THEN NoExec ELSE exec[c][a - 1]
          /\ \A b \in Attempts : exec'[c][b] = IF b = a - 1 THEN l ELSE IF b = a THEN n ELSE exec[c][b]
  BY <1>2
<1>4. ExecOK(l) /\ (l.pc # "idle" => l.op = call[c].op)
  BY <1>1, <1>2, <1>3, NoExecOK DEF CallSound
<1>5. CallSound(c)'
  <2>1. ASSUME NEW b \in Attempts
        PROVE  ExecOK(exec'[c][b]) /\ (exec'[c][b].pc # "idle" => exec'[c][b].op = call'[c].op)
    BY <1>1, <1>2, <1>3, <1>4 DEF CallSound
  <2> QED
    BY <1>2, <2>1 DEF CallSound
<1>6. \A d \in Calls \ {c} : CallSound(d)'
  BY <1>1, <1>2, FirstAttempt DEF CallSound
<1>7. SessionTypeOK'
  BY <1>1, <1>2 DEF SessionTypeOK, store
<1> QED
  BY <1>5, <1>6, <1>7 DEF SessionInv

(* The proxy stops waiting, or an answer arrives, or nobody wants it: the  *)
(* executions that change are gone.                                        *)
LEMMA EndsInv ==
    ASSUME SessionInv, NEW c \in Calls, UNCHANGED <<now, store, effects>>,
           jar' \in Tokens \cup {NoToken},
           call' = call \/ call' = [call EXCEPT ![c].st = "idle"],
           exec' = exec \/ \E a \in Attempts : exec' = [exec EXCEPT ![c][a] = NoExec]
    PROVE  SessionInv'
<1>1. SessionTypeOK /\ \A d \in Calls : CallSound(d)
  BY DEF SessionInv
<1>2. /\ call' \in [Calls -> Call]
      /\ \A d \in Calls : call'[d].op = call[d].op /\ call'[d].attempt = call[d].attempt
  <2>1. call \in [Calls -> Call] /\ call[c] \in Call
    BY <1>1 DEF SessionTypeOK
  <2> DEFINE r == [call[c] EXCEPT !.st = "idle"]
  <2>2. r \in Call /\ r.op = call[c].op /\ r.attempt = call[c].attempt
    BY <2>1 DEF Call
  <2>3. call' = call \/ call' = [call EXCEPT ![c] = r]
    OBVIOUS
  <2> HIDE DEF r
  <2>4. call' \in [Calls -> Call] /\ \A d \in Calls : call'[d] = call[d] \/ (d = c /\ call'[d] = r)
    BY <2>1, <2>2, <2>3
  <2> QED
    BY <2>2, <2>4
<1>3. /\ exec' \in [Calls -> [Attempts -> Exec]]
      /\ \A d \in Calls, b \in Attempts : exec'[d][b] \in {exec[d][b], NoExec}
  BY <1>1, NoExecOK DEF SessionTypeOK
<1>4. ASSUME NEW d \in Calls PROVE CallSound(d)'
  <2>1. \A b \in Attempts : ExecOK(exec'[d][b]) /\ (exec'[d][b].pc # "idle" => exec'[d][b].op = call'[d].op)
    BY <1>1, <1>2, <1>3, NoExecOK DEF CallSound
  <2>2. exec[d][0].pc = "idle" => ~Early(exec[d][0])
    BY DEF Early, Before, GuardSteps
  <2>3. ASSUME call'[d].op \notin Reads
        PROVE  /\ call'[d].attempt = 0 /\ (\A b \in Attempts \ {0} : exec'[d][b].pc = "idle")
               /\ effects'[d] <= 1 /\ (Early(exec'[d][0]) => effects'[d] = 0)
    BY <1>1, <1>2, <1>3, <2>3, FirstAttempt, NoExecOK DEF CallSound
  <2> QED
    BY <2>1, <2>3 DEF CallSound
<1>5. SessionTypeOK'
  BY <1>1, <1>2, <1>3 DEF SessionTypeOK, store
<1> QED
  BY <1>4, <1>5 DEF SessionInv

LEMMA SessionNextInv == SessionInv /\ [Next]_vars => SessionInv'
<1> SUFFICES ASSUME SessionInv, [Next]_vars PROVE SessionInv'
  OBVIOUS
<1>1. SessionTypeOK /\ \A d \in Calls : CallSound(d)
  BY DEF SessionInv
<1>2. ASSUME NEW c \in Calls,
             \/ LoadPage(c) \/ Query(c) \/ SignIn(c) \/ SignOut(c) \/ ResetPassword(c)
             \/ RevokeSession(c) \/ RevokeAllOthers(c) \/ EditUser(c) \/ GenerateResetLink(c)
      PROVE  SessionInv'
  <2>1. PICK op \in AllOps : Send(c, op)
    BY <1>2 DEF LoadPage, Query, SignIn, SignOut, ResetPassword, RevokeSession, RevokeAllOthers, EditUser,
                GenerateResetLink, AllOps, Guarded, Reads
  <2> QED
    BY <2>1, SendInv
<1>3. ASSUME NEW c \in Calls, Timeout(c) PROVE SessionInv'
  <2>1. UNCHANGED <<now, store, effects>>
    BY <1>3 DEF Timeout
  <2>2. CASE Again(c)
    BY <2>1, <2>2, AgainInv
  <2>3. CASE GiveUp(c) /\ UNCHANGED exec
    BY <1>1, <2>1, <2>3, EndsInv DEF GiveUp, SessionTypeOK
  <2> QED
    BY <1>3, <2>2, <2>3 DEF Timeout
<1>4. ASSUME NEW c \in Calls, Answer(c) PROVE SessionInv'
  <2> DEFINE a == call[c].attempt
             e == exec[c][a]
             j == IF e.ans \in {"ok", "denied"} THEN Keep(e.op, e.cookie, jar) ELSE jar
  <2>1. UNCHANGED <<now, store, effects>>
    BY <1>4 DEF Answer
  <2>2. a \in Attempts
    BY <1>1 DEF SessionTypeOK, Call
  <2>3. e \in Exec /\ jar \in Tokens \cup {NoToken}
    BY <1>1, <2>2 DEF SessionTypeOK
  <2>4. Keep(e.op, e.cookie, jar) \in Tokens \cup {NoToken}
    <3>1. e.cookie \in Tokens \cup {NoToken, <<"clear">>}
      BY <2>3 DEF Exec
    <3>2. CASE e.cookie = NoToken \/ e.op = "page"
      BY <2>3, <3>2 DEF Keep
    <3>3. CASE ~(e.cookie = NoToken \/ e.op = "page") /\ e.cookie = <<"clear">>
      BY <3>3 DEF Keep
    <3>4. CASE ~(e.cookie = NoToken \/ e.op = "page") /\ e.cookie # <<"clear">>
      BY <3>1, <3>4 DEF Keep
    <3> QED
      BY <3>2, <3>3, <3>4
  <2>5. CASE Again(c)
    BY <2>1, <2>5, AgainInv
  <2>6. CASE /\ call' = [call EXCEPT ![c].st = "idle"]
             /\ jar' = j
             /\ exec' = [exec EXCEPT ![c][a] = NoExec]
    <3>1. jar' \in Tokens \cup {NoToken}
      BY <2>3, <2>4, <2>6
    <3> HIDE DEF a, j
    <3> QED
      BY <2>1, <2>2, <2>6, <3>1, EndsInv
  <2> QED
    BY <1>4, <2>5, <2>6 DEF Answer
<1>5. ASSUME NEW c \in Calls, NEW a \in Attempts, Discard(c, a) PROVE SessionInv'
  BY <1>1, <1>5, EndsInv DEF Discard, Become, SessionTypeOK
<1>6. ASSUME NEW c \in Calls, NEW a \in Attempts, Step(c, a) \/ CacheDown(c, a) \/ Crash(c, a)
      PROVE  SessionInv'
  <2>1. ExecOK(exec[c][a])
    BY <1>1 DEF CallSound
  <2>2. Moves(c, a)
    BY <1>1, <1>6, <2>1, StepMoves
  <2>3. /\ exec' \in [Calls -> [Attempts -> Exec]] /\ effects' \in [Calls -> Nat]
        /\ call' \in [Calls -> Call] /\ (\A d \in Calls : CallSound(d))'
    BY <2>2, MovesCalls
  <2>4. /\ now' \in Nat /\ row' \in [Sids -> SessionRow] /\ cache' \in [Tokens -> Entry]
        /\ active' \in BOOLEAN /\ jar' \in Tokens \cup {NoToken}
    <3>1. CASE Step(c, a)
      BY <1>1, <2>1, <3>1, RowShape, CacheShape, StepElse DEF SessionTypeOK
    <3>2. CASE CacheDown(c, a) \/ Crash(c, a)
      <4>1. UNCHANGED <<now, row, cache, active, jar>>
        BY <3>2 DEF CacheDown, Crash, store
      <4> QED
        BY <1>1, <4>1 DEF SessionTypeOK
    <3> QED
      BY <1>6, <3>1, <3>2
  <2>5. SessionTypeOK'
    BY <2>3, <2>4 DEF SessionTypeOK
  <2> QED
    BY <2>3, <2>5 DEF SessionInv
<1>7. ASSUME UNCHANGED <<jar, call, exec, effects>>, UNCHANGED <<row, active>>,
             now' \in Nat, cache' \in [Tokens -> Entry]
      PROVE  SessionInv'
  <2>1. SessionTypeOK'
    BY <1>1, <1>7 DEF SessionTypeOK
  <2>2. \A d \in Calls : CallSound(d)'
    BY <1>1, <1>7 DEF CallSound
  <2> QED
    BY <2>1, <2>2 DEF SessionInv
<1>8. ASSUME NEW t \in Tokens, Evict(t) PROVE SessionInv'
  <2>1. NoEntry \in Entry
    BY DEF NoEntry, Entry
  <2> QED
    BY <1>1, <1>7, <1>8, <2>1 DEF Evict, SessionTypeOK
<1>9. CASE Tick
  BY <1>1, <1>7, <1>9 DEF Tick, SessionTypeOK, store
<1>10. CASE UNCHANGED vars
  BY <1>1, <1>7, <1>10 DEF vars, store, SessionTypeOK
<1> QED
  BY <1>2, <1>3, <1>4, <1>5, <1>6, <1>8, <1>9, <1>10 DEF Next

(* The rows, the cache, the calls and what works on them keep their types. *)
THEOREM SessionsTyped == Spec => []SessionTypeOK
<1>1. SessionInv => SessionTypeOK
  BY DEF SessionInv
<1> QED
  BY <1>1, SessionInitInv, SessionNextInv, PTL DEF Spec

(* However late an answer is, the operation of a call is started at most   *)
(* once unless it is a read: the proxy repeats nothing else (canRetry), and*)
(* the one execution starts it in one step of its way.                     *)
THEOREM MutatedOnce == Spec => []MutationOnce
<1>1. SessionInv => MutationOnce
  BY DEF SessionInv, CallSound, MutationOnce
<1> QED
  BY <1>1, SessionInitInv, SessionNextInv, PTL DEF Spec

-----------------------------------------------------------------------------
(* The cache and the table                                                 *)
(*                                                                         *)
(* A session that is not disturbed has one execution at work on it at      *)
(* most.  Between the steps of that execution the cache holds nothing of   *)
(* the session but its current token with what the row says, except after  *)
(* a rotation has changed the row and before it has deleted the old token. *)

(* An execution is at work on a session: with its token, or revoking it. *)
Uses(e, s) ==
    /\ e.pc \notin {"idle", "answer"}
    /\ s \in SidOf(e) \/ (e.pc = "revCache" /\ s \notin e.keep)

(* What follows is said of a session s with the row r, the cache h and the *)
(* time t.                                                                 *)
Forgotten(s, h) == \A g \in 0..MaxGen : ~h[<<s, g>>].in

OnlyToken(e, s, h) == \A g \in 0..MaxGen : h[<<s, g>>].in => e.tok = <<s, g>>

Even(s, r, h) ==
    \A g \in 0..MaxGen : h[<<s, g>>].in => r.st = "live" /\ r.gen = g /\ h[<<s, g>>] = EntryOf(r)

Valid(r, t) == r.expires > t /\ r.active + Idle > t /\ r.created + Absolute > t

Current(e, s, r, t) == r.st = "live" /\ e.tok = <<s, r.gen>> /\ Valid(r, t)

(* What the guard knows of the session while it is at it. *)
GuardKnows(e, s, r, h, t) ==
    /\ e.pc \in {"dbRead", "outRow"} => ~h[e.tok].in
    /\ e.pc \in {"fill", "refresh", "touch", "touchAgain"} => Current(e, s, r, t)
    /\ e.pc \in {"fill", "refresh", "rotDel", "rotSet", "createCache"} => e.rec = EntryOf(r)
    /\ e.pc \in {"touch", "touchAgain"} => e.rec.in /\ e.rec.created = r.created /\ e.rec.expires = r.expires
    /\ e.pc \in {"rotDel", "rotSet", "createCache"} => r.st = "live" /\ e.cookie = <<s, r.gen>>
    /\ e.pc \in {"fill", "expireRow", "rotSet", "createCache"} => Forgotten(s, h)
    /\ e.pc \in {"expireCache", "rotDel"} => OnlyToken(e, s, h)

(* What a revocation has still to delete. *)
RevokerKnows(e, s, h) ==
    e.pc = "revCache" /\ s \notin e.keep => \A g \in 0..MaxGen : h[<<s, g>>].in => <<s, g>> \in e.todo

(* A guard that has not rotated its session finds it again by its token. *)
FindsAgain(e, s, r, t) ==
    s \in SidOf(e) /\ e.cookie = NoToken =>
        /\ e.pc \in {"user", "handler"} \/ (e.phase = 2 /\ e.pc \in {"lookup", "dbRead"}) => Current(e, s, r, t)
        /\ e.pc \in {"expireCache", "expireRow"} => e.phase = 1
        /\ e.phase = 2 /\ e.pc \in {"revList", "revCache"} => s \in e.keep /\ r.st = "live"

Fits(e, s, r, h, t) ==
    /\ GuardKnows(e, s, r, h, t) /\ RevokerKnows(e, s, h) /\ FindsAgain(e, s, r, t)
    /\ e.pc # "rotDel" => Even(s, r, h)

OneUser(s) ==
    \A c, d \in Calls : \A a, b \in Attempts : Uses(exec[c][a], s) /\ Uses(exec[d][b], s) => c = d /\ a = b

StoreAgrees(s) ==
    /\ OneUser(s)
    /\ \A c \in Calls : \A a \in Attempts : Uses(exec[c][a], s) => Fits(exec[c][a], s, row[s], cache, now)
    /\ \/ Even(s, row[s], cache)
       \/ \E c \in Calls : \E a \in Attempts : exec[c][a].pc = "rotDel" /\ Uses(exec[c][a], s)

(* Where an execution goes, whoever else is at its session. *)
OnItsWay(e) ==
    /\ e.pc = "resetTx" => e.op = "reset"
    /\ e.op = "revokeOthers" /\ e.pc \in {"revList", "revCache"} => e.phase = 2
    /\ e.pc \in {"rotDel", "rotSet", "createCache"} =>
          e.tok \in Tokens /\ e.cookie \in Tokens /\ e.cookie[1] = e.tok[1]
    /\ e.pc = "revCache" => \A t \in e.todo : t[1] \notin e.keep

StoreInv ==
    /\ \A s \in Sids \ disturbed : StoreAgrees(s)
    /\ \A c \in Calls : \A a \in Attempts : OnItsWay(exec[c][a])

(* An execution at work on a session has a token of it or is revoking it. *)
LEMMA SidIs ==
    ASSUME NEW e, e.tok \in Tokens \cup {NoToken}, NEW s \in Sids
    PROVE  /\ s \in SidOf(e) <=> e.tok \in Tokens /\ e.tok[1] = s
           /\ e.tok \in Tokens /\ s \notin SidOf(e) => \A g \in 0..MaxGen : e.tok # <<s, g>>
           /\ s \in SidOf(e) => e.tok[2] \in 0..MaxGen /\ e.tok = <<s, e.tok[2]>>
<1>1. NoToken \notin Tokens
  BY DEF NoToken, Tokens
<1>2. CASE e.tok = NoToken
  BY <1>1, <1>2 DEF SidOf
<1>3. CASE e.tok \in Tokens
  <2>1. SidOf(e) = {e.tok[1]}
    BY <1>1, <1>3 DEF SidOf
  <2>2. e.tok[1] \in Sids /\ e.tok[2] \in 0..MaxGen /\ e.tok = <<e.tok[1], e.tok[2]>>
    BY <1>3, TokenParts
  <2> QED
    BY <1>3, <2>1, <2>2
<1> QED
  BY <1>2, <1>3

LEMMA OtherToken ==
    ASSUME NEW h \in [Tokens -> Entry], NEW t \in Tokens, NEW s \in Sids, t[1] # s, NEW x
    PROVE  \A g \in 0..MaxGen : [h EXCEPT ![t] = x][<<s, g>>] = h[<<s, g>>]
<1>1. \A g \in 0..MaxGen : <<s, g>> \in Tokens /\ <<s, g>> # t
  BY TokenMade
<1> QED
  BY <1>1

LEMMA OwnToken ==
    ASSUME NEW h \in [Tokens -> Entry], NEW t \in Tokens, NEW x
    PROVE  /\ [h EXCEPT ![t] = x][t] = x
           /\ \A s \in Sids : \A g \in 0..MaxGen : <<s, g>> # t => [h EXCEPT ![t] = x][<<s, g>>] = h[<<s, g>>]
BY TokenMade

LEMMA PairSize == ASSUME NEW x, NEW y, x # y PROVE Cardinality({x, y}) = 2
<1> DEFINE S == {x}
           n == Cardinality(S \cup {y})
<1>1. IsFiniteSet(S) /\ Cardinality(S) = 1 /\ y \notin S /\ {x, y} = S \cup {y}
  BY FS_Singleton
<1> HIDE DEF S
<1>2. n = Cardinality(S) + 1
  BY <1>1, FS_AddElement, Zenon
<1> HIDE DEF n
<1>3. n = 2
  BY <1>1, <1>2
<1> QED
  BY <1>1, <1>3 DEF n

(* Two executions at work on a session are seen by Shared. *)
LEMMA NotShared ==
    ASSUME NEW x \in [Calls -> [Attempts -> Exec]], NEW s \in Sids \ Shared(x),
           NEW c \in Calls, NEW a \in Attempts, NEW d \in Calls, NEW b \in Attempts,
           Uses(x[c][a], s), Uses(x[d][b], s)
    PROVE  c = d /\ a = b
<1> DEFINE All == Calls \X Attempts
           In(p) == /\ x[p[1]][p[2]].pc \notin {"idle", "answer"}
                    /\ \/ s \in SidOf(x[p[1]][p[2]])
                       \/ \E t \in x[p[1]][p[2]].todo : t[1] = s
                       \/ x[p[1]][p[2]].pc \in {"revList", "revCache"} /\ s \notin x[p[1]][p[2]].keep
           Them == {p \in All : In(p)}
           one == <<c, a>>
           two == <<d, b>>
<1>1. ~(Cardinality(Them) > 1)
  BY Zenon DEF Shared
<1>2. one \in Them /\ two \in Them
  BY DEF Uses
<1>3. IsFiniteSet(Them)
  <2>1. IsFiniteSet(Attempts)
    <3>1. 0 \in Int /\ MaxRetries \in Int
      BY SessionAssumption
    <3> QED
      BY <3>1, FS_Interval, Zenon DEF Attempts
  <2>2. IsFiniteSet(All)
    BY <2>1, FS_Product, SessionAssumption
  <2> QED
    BY <2>2, FS_Subset
<1> HIDE DEF Them
<1>4. ASSUME one # two
      PROVE  FALSE
  <2>1. {one, two} \subseteq Them
    BY <1>2
  <2>2. Cardinality({one, two}) = 2
    BY <1>4, PairSize
  <2>3. Cardinality({one, two}) <= Cardinality(Them) /\ Cardinality(Them) \in Nat
    BY <1>3, <2>1, FS_Subset, FS_CardinalityType
  <2> QED
    BY <1>1, <2>2, <2>3
<1>5. one = two
  BY <1>4
<1> QED
  BY <1>5

(* Who is at work on a session does not see the cache entries of others,   *)
(* and does not mind that one of its own is gone.                          *)
LEMMA SameStore ==
    ASSUME NEW e \in Exec, NEW s \in Sids, NEW r, NEW h, NEW k, NEW t, Uses(e, s),
           \A g \in 0..MaxGen : k[<<s, g>>].in => k[<<s, g>>] = h[<<s, g>>], Fits(e, s, r, h, t)
    PROVE  Fits(e, s, r, k, t)
<1>0. \A g \in 0..MaxGen : k[<<s, g>>].in => h[<<s, g>>].in
  OBVIOUS
<1>1. Even(s, r, h) => Even(s, r, k)
  BY <1>0 DEF Even
<1>2. Forgotten(s, h) => Forgotten(s, k)
  BY <1>0, Zenon DEF Forgotten
<1>3. OnlyToken(e, s, h) => OnlyToken(e, s, k)
  BY <1>0, Zenon DEF OnlyToken
<1>4. RevokerKnows(e, s, k)
  BY <1>0, Zenon DEF Fits, RevokerKnows
<1>5. e.pc \in {"dbRead", "outRow"} => ~k[e.tok].in
  <2>1. SUFFICES ASSUME e.pc \in {"dbRead", "outRow"} PROVE ~k[e.tok].in
    OBVIOUS
  <2>2. s \in SidOf(e) /\ e.tok \in Tokens \cup {NoToken}
    BY <2>1 DEF Uses, Exec
  <2>3. PICK g \in 0..MaxGen : e.tok = <<s, g>>
    BY <2>2, SidIs
  <2>4. ~h[e.tok].in
    BY <2>1 DEF Fits, GuardKnows
  <2>5. k[<<s, g>>].in => h[<<s, g>>].in
    BY <1>0
  <2> QED
    BY <2>3, <2>4, <2>5
<1>6. GuardKnows(e, s, r, k, t)
  BY <1>2, <1>3, <1>5, Zenon DEF Fits, GuardKnows
<1> QED
  BY <1>1, <1>4, <1>6, Zenon DEF Fits

(* A step that has nothing to do with a session, and the only user of one. *)
Apart(e, n, s) ==
    /\ ~Uses(e, s) /\ ~Uses(n, s)
    /\ row'[s] = row[s]
    /\ \A g \in 0..MaxGen : cache'[<<s, g>>] = cache[<<s, g>>]

Alone(x, c, a, s) ==
    \A d \in Calls : \A b \in Attempts : Uses(x[d][b], s) => d = c /\ b = a

Kept(n, s, r, h, t) == IF Uses(n, s) THEN Fits(n, s, r, h, t) ELSE Even(s, r, h)

NotAtWork(e, n) == e.pc = "answer" /\ n = NoExec

(* One execution takes a step, others may only be forgotten: the invariant *)
(* is a matter of the sessions this execution uses, before or after.       *)
LEMMA LocalStep ==
    ASSUME SessionTypeOK, StoreInv, NEW c \in Calls, NEW a \in Attempts, NEW n, exec'[c][a] = n,
           \A d \in Calls : \A b \in Attempts : ~(d = c /\ b = a) =>
               exec'[d][b] = exec[d][b] \/ NotAtWork(exec[d][b], exec'[d][b]),
           now' = now, disturbed \subseteq disturbed', OnItsWay(n),
           \A s \in Sids \ disturbed' :
               \/ Apart(exec[c][a], n, s)
               \/ Alone(exec', c, a, s) /\ Kept(n, s, row'[s], cache', now)
    PROVE  StoreInv'
<1>1. \A s : ~Uses(NoExec, s)
  BY NoExecOK DEF Uses
<1>2. OnItsWay(NoExec)
  BY NoExecOK DEF OnItsWay, NoExec, NewExec
<1>3. ASSUME NEW d \in Calls, NEW b \in Attempts PROVE OnItsWay(exec'[d][b])
  <2>1. CASE d = c /\ b = a
    BY <2>1
  <2>2. CASE ~(d = c /\ b = a)
    BY <1>2, <2>2, Zenon DEF StoreInv, NotAtWork
  <2> QED
    BY <2>1, <2>2
<1>4. ASSUME NEW s \in Sids \ disturbed', Alone(exec', c, a, s), Kept(n, s, row'[s], cache', now)
      PROVE  StoreAgrees(s)'
  <2>1. OneUser(s)'
    BY <1>4, Zenon DEF Alone, OneUser
  <2>2. ASSUME NEW d \in Calls, NEW b \in Attempts, Uses(exec'[d][b], s)
        PROVE  Fits(exec'[d][b], s, row'[s], cache', now')
    <3>1. d = c /\ b = a
      BY <1>4, <2>2, Zenon DEF Alone
    <3> QED
      BY <1>4, <2>2, <3>1, Zenon DEF Kept
  <2>3. Even(s, row'[s], cache') \/ (exec'[c][a].pc = "rotDel" /\ Uses(exec'[c][a], s))
    BY <1>4, Zenon DEF Kept, Fits
  <2> QED
    BY <2>1, <2>2, <2>3, Zenon DEF StoreAgrees
<1>5. ASSUME NEW s \in Sids \ disturbed', Apart(exec[c][a], n, s) PROVE StoreAgrees(s)'
  <2>1. StoreAgrees(s)
    BY DEF StoreInv
  <2>2. ASSUME NEW d \in Calls, NEW b \in Attempts, Uses(exec'[d][b], s)
        PROVE  exec'[d][b] = exec[d][b]
    <3>1. ~(d = c /\ b = a)
      BY <1>5, <2>2, Zenon DEF Apart
    <3>2. exec'[d][b] # NoExec
      BY <1>1, <2>2
    <3> QED
      BY <3>1, <3>2, Zenon DEF NotAtWork
  <2>3. OneUser(s)'
    <3>1. ASSUME NEW d \in Calls, NEW b \in Attempts, Uses(exec'[d][b], s) PROVE Uses(exec[d][b], s)
      BY <2>2, <3>1
    <3>2. OneUser(s)
      BY <2>1, Zenon DEF StoreAgrees
    <3> QED
      BY <3>1, <3>2 DEF OneUser
  <2>4. ASSUME NEW d \in Calls, NEW b \in Attempts, Uses(exec'[d][b], s)
        PROVE  Fits(exec'[d][b], s, row'[s], cache', now')
    <3>1. exec'[d][b] = exec[d][b] /\ exec[d][b] \in Exec
      BY <2>2, <2>4, Zenon DEF SessionTypeOK
    <3>2. Fits(exec[d][b], s, row[s], cache, now)
      BY <2>1, <2>4, <3>1, Zenon DEF StoreAgrees
    <3>3. Fits(exec[d][b], s, row[s], cache', now)
      BY <1>5, <2>4, <3>1, <3>2, SameStore, Zenon DEF Apart
    <3>4. row'[s] = row[s] /\ now' = now
      BY <1>5, Zenon DEF Apart
    <3> QED
      BY <3>1, <3>3, <3>4, Zenon
  <2>5. \/ Even(s, row'[s], cache')
        \/ \E d \in Calls : \E b \in Attempts : exec'[d][b].pc = "rotDel" /\ Uses(exec'[d][b], s)
    <3>1. CASE Even(s, row[s], cache)
      BY <1>5, <3>1, Zenon DEF Apart, Even
    <3>2. ASSUME NEW d \in Calls, NEW b \in Attempts, exec[d][b].pc = "rotDel", Uses(exec[d][b], s)
          PROVE  exec'[d][b] = exec[d][b]
      <4>1. ~(d = c /\ b = a)
        BY <1>5, <3>2, Zenon DEF Apart
      <4>2. "rotDel" # "answer"
        OBVIOUS
      <4> QED
        BY <3>2, <4>1, <4>2, Zenon DEF NotAtWork
    <3> QED
      BY <2>1, <3>1, <3>2, Zenon DEF StoreAgrees
  <2> QED
    BY <2>3, <2>4, <2>5, Zenon DEF StoreAgrees
<1> QED
  BY <1>3, <1>4, <1>5, Zenon DEF StoreInv

(* An execution alone at a session knows what the invariant says of it. *)
LEMMA InHand ==
    ASSUME StoreInv, NEW s \in Sids \ disturbed, NEW c \in Calls, NEW a \in Attempts, Uses(exec[c][a], s)
    PROVE  Alone(exec, c, a, s) /\ Fits(exec[c][a], s, row[s], cache, now)
<1>1. StoreAgrees(s)
  BY DEF StoreInv
<1> QED
  BY <1>1, Zenon DEF StoreAgrees, OneUser, Alone

(* A session nobody has rotated half. *)
LEMMA Untouched ==
    ASSUME StoreInv, NEW s \in Sids \ disturbed, NEW c \in Calls, NEW a \in Attempts, Alone(exec, c, a, s),
           exec[c][a].pc # "rotDel"
    PROVE  Even(s, row[s], cache)
<1>1. StoreAgrees(s)
  BY DEF StoreInv
<1> QED
  BY <1>1, Zenon DEF StoreAgrees, Alone

(* The steps that bring no new user to a session. *)
LEMMA OwnStep ==
    ASSUME SessionTypeOK, StoreInv, NEW c \in Calls, NEW a \in Attempts, NEW n \in Exec, Become(c, a, n),
           now' = now, disturbed' = disturbed, OnItsWay(n),
           \A s \in Sids : Uses(n, s) => Uses(exec[c][a], s),
           \A s \in Sids \ disturbed :
               IF Uses(exec[c][a], s)
               THEN Fits(exec[c][a], s, row[s], cache, now) => Kept(n, s, row'[s], cache', now)
               ELSE row'[s] = row[s] /\ \A g \in 0..MaxGen : cache'[<<s, g>>] = cache[<<s, g>>]
    PROVE  StoreInv'
<1>1. /\ exec'[c][a] = n
      /\ \A d \in Calls : \A b \in Attempts : ~(d = c /\ b = a) => exec'[d][b] = exec[d][b]
  BY DEF SessionTypeOK, Become
<1>2. ASSUME NEW s \in Sids \ disturbed
      PROVE  \/ Apart(exec[c][a], n, s)
             \/ Alone(exec', c, a, s) /\ Kept(n, s, row'[s], cache', now)
  <2>1. CASE Uses(exec[c][a], s)
    <3>1. Alone(exec, c, a, s) /\ Fits(exec[c][a], s, row[s], cache, now)
      BY <2>1, InHand
    <3>2. Kept(n, s, row'[s], cache', now)
      BY <2>1, <3>1
    <3>3. Alone(exec', c, a, s)
      <4>1. ASSUME NEW d \in Calls, NEW b \in Attempts, Uses(exec'[d][b], s), ~(d = c /\ b = a)
            PROVE  FALSE
        <5>1. exec'[d][b] = exec[d][b]
          BY <1>1, <4>1, Zenon
        <5>2. Uses(exec[d][b], s)
          BY <4>1, <5>1
        <5> QED
          BY <3>1, <4>1, <5>2, Zenon DEF Alone
      <4> QED
        BY <4>1, Zenon DEF Alone
    <3> QED
      BY <3>2, <3>3
  <2>2. CASE ~Uses(exec[c][a], s)
    BY <2>2 DEF Apart
  <2> QED
    BY <2>1, <2>2
<1>3. \A d \in Calls : \A b \in Attempts : ~(d = c /\ b = a) =>
          exec'[d][b] = exec[d][b] \/ NotAtWork(exec[d][b], exec'[d][b])
  BY <1>1, Zenon
<1>4. \A s \in Sids \ disturbed' :
          \/ Apart(exec[c][a], n, s)
          \/ Alone(exec', c, a, s) /\ Kept(n, s, row'[s], cache', now)
  BY <1>2
<1>5. disturbed \subseteq disturbed'
  OBVIOUS
<1> QED
  BY <1>1, <1>3, <1>4, <1>5, LocalStep

(* An execution that knows nothing of the session but where it will go. *)
LEMMA PlainKept ==
    ASSUME NEW n, NEW s, NEW r, NEW h, NEW t, Even(s, r, h), FindsAgain(n, s, r, t),
           n.pc \in {"lookup", "user", "handler", "create", "issue", "resetTx", "revList", "outCache",
                     "answer", "idle"}
    PROVE  Kept(n, s, r, h, t)
<1>1. n.pc \notin {"dbRead", "outRow", "fill", "refresh", "touch", "touchAgain", "rotDel", "rotSet",
                   "createCache", "expireRow", "expireCache", "revCache"}
  OBVIOUS
<1>2. GuardKnows(n, s, r, h, t)
  BY <1>1 DEF GuardKnows
<1>3. RevokerKnows(n, s, h)
  BY <1>1 DEF RevokerKnows
<1> QED
  BY <1>1, <1>2, <1>3, Zenon DEF Kept, Fits

(* An execution with a token, at another step, is at the same session. *)
LEMMA SameSession ==
    ASSUME NEW e, NEW n, n.tok = e.tok, NEW s, n.pc # "revCache", Uses(n, s), e.pc \notin {"idle", "answer"}
    PROVE  Uses(e, s) /\ s \in SidOf(e)
BY DEF Uses, SidOf

LEMMA FoundIs ==
    ASSUME NEW e \in Exec, ExecOK(e), NEW rec, NEW n, n = Found(e, rec)
    PROVE  /\ n.tok = e.tok /\ n.cookie = e.cookie /\ n.phase = e.phase /\ n.op = e.op /\ n.todo = e.todo
           /\ n.pc \in {"outCache", "revList", "refresh"}
           /\ n.pc = "outCache" => n.op = "logout"
           /\ n.pc = "revList" => n.phase = 2 /\ n.keep = {e.tok[1]}
           /\ n.pc = "refresh" => n.rec = rec /\ n.phase = 1 /\ n.op # "logout"
<1> DEFINE kept == {e.tok[1]}
<1> SUFFICES /\ n.tok = e.tok /\ n.cookie = e.cookie /\ n.phase = e.phase /\ n.op = e.op /\ n.todo = e.todo
             /\ n.pc \in {"outCache", "revList", "refresh"}
             /\ n.pc = "outCache" => n.op = "logout"
             /\ n.pc = "revList" => n.phase = 2 /\ n.keep = kept
             /\ n.pc = "refresh" => n.rec = rec /\ n.phase = 1 /\ n.op # "logout"
  OBVIOUS
<1>1. \/ e.op = "logout" /\ n = [e EXCEPT !.pc = "outCache"]
      \/ e.phase = 2 /\ n = [e EXCEPT !.pc = "revList", !.keep = kept]
      \/ e.phase # 2 /\ e.op # "logout" /\ n = [e EXCEPT !.pc = "refresh", !.rec = rec]
  <2>1. CASE e.op = "logout"
    <3>1. e.phase # 2
      BY <2>1 DEF ExecOK
    <3> QED
      BY <2>1, <3>1, Zenon DEF Found
  <2>2. CASE e.op # "logout" /\ e.phase = 2
    BY <2>2, Zenon DEF Found
  <2>3. CASE e.op # "logout" /\ e.phase # 2
    BY <2>3, Zenon DEF Found
  <2> QED
    BY <2>1, <2>2, <2>3
<1> HIDE DEF kept
<1>2. CASE e.op = "logout" /\ n = [e EXCEPT !.pc = "outCache"]
  BY <1>2 DEF Exec
<1>3. CASE e.phase = 2 /\ n = [e EXCEPT !.pc = "revList", !.keep = kept]
  BY <1>3 DEF Exec
<1>4. CASE e.phase # 2 /\ e.op # "logout" /\ n = [e EXCEPT !.pc = "refresh", !.rec = rec]
  BY <1>4 DEF Exec
<1> QED
  BY <1>1, <1>2, <1>3, <1>4

LEMMA NotFoundIs ==
    ASSUME NEW e \in Exec, NEW n, n = NotFound(e)
    PROVE  /\ n.tok = e.tok /\ n.cookie = e.cookie /\ n.phase = e.phase /\ n.op = e.op /\ n.todo = e.todo
           /\ n.pc \in {"outCache", "revList", "answer"}
           /\ n.pc = "outCache" => n.op = "logout"
           /\ n.pc = "revList" => n.phase = 2
           /\ n.pc = "answer" => n.ans = "denied"
<1>1. CASE e.op = "logout"
  BY <1>1 DEF NotFound, Exec
<1>2. CASE e.op # "logout" /\ e.phase = 2
  BY <1>2 DEF NotFound, Exec
<1>3. CASE e.op # "logout" /\ e.phase # 2
  BY <1>3 DEF NotFound, Exec, Answered
<1> QED
  BY <1>1, <1>2, <1>3

(* What an execution becomes is one thing. *)
LEMMA Became ==
    ASSUME SessionTypeOK, NEW c \in Calls, NEW a \in Attempts, NEW x, NEW y, Become(c, a, x), Become(c, a, y)
    PROVE  x = y
<1>1. [exec EXCEPT ![c][a] = x][c][a] = x /\ [exec EXCEPT ![c][a] = y][c][a] = y
  BY DEF SessionTypeOK
<1> QED
  BY <1>1 DEF Become

LEMMA NextExec ==
    ASSUME SessionInv, NEW c \in Calls, NEW a \in Attempts, Step(c, a) \/ CacheDown(c, a) \/ Crash(c, a)
    PROVE  \E n \in Exec : Become(c, a, n) /\ ExecOK(n) /\ n.op = exec[c][a].op
<1>1. SessionTypeOK /\ ExecOK(exec[c][a])
  BY DEF SessionInv, CallSound
<1>2. Moves(c, a)
  BY <1>1, StepMoves, Zenon
<1> QED
  BY <1>2, Zenon DEF Moves, GoesOn, Starts, Become

LEMMA WayOn ==
    ASSUME NEW n, n.pc \notin {"resetTx", "rotDel", "rotSet", "createCache", "revCache"},
           n.pc = "revList" /\ n.op = "revokeOthers" => n.phase = 2
    PROVE  OnItsWay(n)
BY DEF OnItsWay

(* A step of an execution that is at its own session only. *)
LEMMA GuardStep ==
    ASSUME SessionInv, StoreInv, NEW c \in Calls, NEW a \in Attempts, NEW n \in Exec, Become(c, a, n),
           now' = now, disturbed' = disturbed, OnItsWay(n),
           exec[c][a].pc \notin {"idle", "answer", "revCache"}, n.pc # "revCache", n.tok = exec[c][a].tok,
           \A s \in Sids : s \notin SidOf(exec[c][a]) =>
               row'[s] = row[s] /\ \A g \in 0..MaxGen : cache'[<<s, g>>] = cache[<<s, g>>],
           \A s \in Sids : s \in SidOf(exec[c][a]) /\ Fits(exec[c][a], s, row[s], cache, now) =>
               Kept(n, s, row'[s], cache', now)
    PROVE  StoreInv'
<1> DEFINE e == exec[c][a]
<1>1. SessionTypeOK
  BY DEF SessionInv
<1>2. \A s \in Sids : Uses(n, s) => Uses(e, s)
  BY SameSession
<1>3. \A s \in Sids : Uses(e, s) <=> s \in SidOf(e)
  BY DEF Uses
<1>4. \A s \in Sids \ disturbed :
          IF Uses(e, s)
          THEN Fits(e, s, row[s], cache, now) => Kept(n, s, row'[s], cache', now)
          ELSE row'[s] = row[s] /\ \A g \in 0..MaxGen : cache'[<<s, g>>] = cache[<<s, g>>]
  BY <1>3, Zenon
<1> QED
  BY <1>1, <1>2, <1>4, OwnStep

(* One entry of the cache changes. *)
LEMMA OneEntry ==
    ASSUME SessionTypeOK, NEW e \in Exec, e.tok \in Tokens, NEW t \in Tokens, t[1] = e.tok[1], NEW x,
           cache' = [cache EXCEPT ![t] = x]
    PROVE  /\ \A s \in Sids : s \notin SidOf(e) => \A g \in 0..MaxGen : cache'[<<s, g>>] = cache[<<s, g>>]
           /\ cache'[t] = x
           /\ \A s \in Sids : \A g \in 0..MaxGen : <<s, g>> # t => cache'[<<s, g>>] = cache[<<s, g>>]
<1>1. cache \in [Tokens -> Entry]
  BY DEF SessionTypeOK
<1>2. \A s \in Sids : s \notin SidOf(e) => t[1] # s
  BY SidIs
<1> QED
  BY <1>1, <1>2, OtherToken, OwnToken

(* Expired, of a row and of the entry made from it. *)
LEMMA ValidIs ==
    ASSUME NEW r \in SessionRow, now \in Nat
    PROVE  (Expired(r) <=> ~Valid(r, now)) /\ (Expired(EntryOf(r)) <=> ~Valid(r, now))
<1>1. r.expires \in Nat /\ r.active \in Nat /\ r.created \in Nat /\ Idle \in Nat /\ Absolute \in Nat
  BY SessionAssumption DEF SessionRow
<1>2. Expired(r) <=> ~Valid(r, now)
  BY <1>1 DEF Expired, Valid
<1>3. EntryOf(r).expires = r.expires /\ EntryOf(r).active = r.active /\ EntryOf(r).created = r.created
  BY DEF EntryOf
<1> HIDE DEF EntryOf
<1>4. Expired(EntryOf(r)) <=> Expired(r)
  BY <1>3 DEF Expired
<1> QED
  BY <1>2, <1>4

(* The session was found, or was not. *)
LEMMA HitKept ==
    ASSUME NEW e \in Exec, ExecOK(e), NEW s \in Sids, s \in SidOf(e), NEW r, NEW h, NEW t,
           Current(e, s, r, t), Even(s, r, h), NEW n, n = Found(e, EntryOf(r))
    PROVE  Kept(n, s, r, h, t)
<1>1. /\ n.tok = e.tok /\ n.cookie = e.cookie /\ n.phase = e.phase
      /\ n.pc \in {"outCache", "revList", "refresh"}
      /\ n.pc = "revList" => n.keep = {e.tok[1]}
      /\ n.pc = "refresh" => n.rec = EntryOf(r)
  BY FoundIs
<1>2. e.tok[1] = s
  BY SidIs DEF Exec
<1>3. FindsAgain(n, s, r, t)
  BY <1>1, <1>2 DEF FindsAgain, Current
<1>4. CASE n.pc # "refresh"
  BY <1>1, <1>3, <1>4, PlainKept
<1>5. CASE n.pc = "refresh"
  <2>1. Current(n, s, r, t)
    BY <1>1 DEF Current
  <2>2. GuardKnows(n, s, r, h, t)
    BY <1>1, <1>5, <2>1 DEF GuardKnows
  <2>3. RevokerKnows(n, s, h)
    BY <1>5 DEF RevokerKnows
  <2> QED
    BY <1>3, <2>2, <2>3, Zenon DEF Kept, Fits
<1> QED
  BY <1>4, <1>5

LEMMA MissKept ==
    ASSUME NEW e \in Exec, NEW s, NEW r, NEW h, NEW t, Even(s, r, h), s \in SidOf(e), 
           e.cookie = NoToken => e.phase # 2, NEW n, n = NotFound(e)
    PROVE  Kept(n, s, r, h, t)
<1>1. /\ n.cookie = e.cookie /\ n.phase = e.phase
      /\ n.pc \in {"outCache", "revList", "answer"}
  BY NotFoundIs, Zenon
<1>2. FindsAgain(n, s, r, t)
  BY <1>1 DEF FindsAgain
<1> QED
  BY <1>1, <1>2, PlainKept

(* A session whose token is in the cache, and one whose token is not. *)
LEMMA EvenHit ==
    ASSUME NEW e, NEW s, NEW r, NEW h, NEW g \in 0..MaxGen, e.tok = <<s, g>>, Even(s, r, h), h[e.tok].in
    PROVE  /\ r.st = "live" /\ e.tok = <<s, r.gen>> /\ h[e.tok] = EntryOf(r)
           /\ OnlyToken(e, s, h)
<1>1. r.st = "live" /\ r.gen = g /\ h[<<s, g>>] = EntryOf(r)
  BY DEF Even
<1>2. OnlyToken(e, s, h)
  BY <1>1 DEF Even, OnlyToken
<1> QED
  BY <1>1, <1>2

LEMMA EvenMiss ==
    ASSUME NEW e, NEW s, NEW r, NEW h, e.tok = <<s, r.gen>>, Even(s, r, h), ~h[e.tok].in
    PROVE  Forgotten(s, h)
<1>1. ASSUME NEW g \in 0..MaxGen, h[<<s, g>>].in PROVE FALSE
  <2>1. r.gen = g
    BY <1>1, Zenon DEF Even
  <2> QED
    BY <1>1, <2>1
<1> QED
  BY <1>1, Zenon DEF Forgotten

LEMMA ForgottenEven ==
    ASSUME NEW s, NEW r, NEW h, Forgotten(s, h)
    PROVE  Even(s, r, h)
BY Zenon DEF Forgotten, Even

LEMMA LookupStore ==
    ASSUME SessionInv, StoreInv, NEW c \in Calls, NEW a \in Attempts, Lookup(c, a)
    PROVE  StoreInv'
<1> DEFINE e == exec[c][a]
<1>1. SessionTypeOK /\ e \in Exec /\ ExecOK(e) /\ e.tok \in Tokens \cup {NoToken}
  BY ExecTyped DEF SessionInv, CallSound
<1>2. e.pc = "lookup" /\ row' = row /\ cache' = cache /\ now' = now /\ disturbed' = disturbed
  BY Zenon DEF Lookup, At, Steady
<1>3. PICK n \in Exec : Become(c, a, n) /\ ExecOK(n) /\ n.op = e.op
  BY NextExec DEF Step
<1>4. n = IF e.tok = NoToken THEN NotFound(e)
          ELSE IF ~cache[e.tok].in THEN [e EXCEPT !.pc = "dbRead"]
          ELSE IF Expired(cache[e.tok]) THEN [e EXCEPT !.pc = "expireCache"]
          ELSE Found(e, cache[e.tok])
  BY <1>1, <1>3, Became, Zenon DEF Lookup
<1>5. SUFFICES /\ OnItsWay(n) /\ n.pc # "revCache" /\ n.tok = e.tok
               /\ \A s \in Sids : s \in SidOf(e) /\ Fits(e, s, row[s], cache, now) => Kept(n, s, row[s], cache, now)
  <2>1. e.pc \notin {"idle", "answer", "revCache"}
    BY <1>2
  <2> HIDE DEF e
  <2> QED
    BY <1>2, <1>3, <1>5, <2>1, GuardStep DEF e
<1>6. CASE e.tok = NoToken
  <2>1. n = NotFound(e)
    BY <1>4, <1>6
  <2>2. OnItsWay(n) /\ n.pc # "revCache" /\ n.tok = e.tok
    BY <1>1, <2>1, NotFoundIs, WayOn
  <2>3. SidOf(e) = {}
    BY <1>6 DEF SidOf
  <2> QED
    BY <2>2, <2>3
<1>7. CASE e.tok # NoToken /\ ~cache[e.tok].in
  <2>1. n = [e EXCEPT !.pc = "dbRead"]
    BY <1>4, <1>7
  <2>2. n.pc = "dbRead" /\ n.tok = e.tok /\ n.cookie = e.cookie /\ n.phase = e.phase
    BY <1>1, <2>1 DEF Exec
  <2>3. ASSUME NEW s \in Sids, s \in SidOf(e), Fits(e, s, row[s], cache, now)
        PROVE  Kept(n, s, row[s], cache, now)
    <3>1. Even(s, row[s], cache) /\ FindsAgain(e, s, row[s], now)
      BY <1>2, <2>3 DEF Fits
    <3>2. GuardKnows(n, s, row[s], cache, now)
      BY <1>7, <2>2 DEF GuardKnows
    <3>3. RevokerKnows(n, s, cache)
      BY <2>2 DEF RevokerKnows
    <3>4. FindsAgain(n, s, row[s], now)
      BY <1>2, <2>2, <2>3, <3>1 DEF FindsAgain, Current
    <3> QED
      BY <3>1, <3>2, <3>3, <3>4, Zenon DEF Kept, Fits
  <2>4. OnItsWay(n) /\ n.pc # "revCache"
    BY <2>2, WayOn
  <2> QED
    BY <2>2, <2>3, <2>4
<1>8. ASSUME NEW s \in Sids, s \in SidOf(e), Fits(e, s, row[s], cache, now), e.tok # NoToken, cache[e.tok].in
      PROVE  /\ Even(s, row[s], cache) /\ row[s].st = "live" /\ e.tok = <<s, row[s].gen>>
             /\ cache[e.tok] = EntryOf(row[s]) /\ OnlyToken(e, s, cache)
             /\ Expired(cache[e.tok]) <=> ~Valid(row[s], now)
  <2>1. PICK g \in 0..MaxGen : e.tok = <<s, g>>
    BY <1>1, <1>8, SidIs
  <2>2. Even(s, row[s], cache)
    BY <1>2, <1>8 DEF Fits
  <2>3. row[s].st = "live" /\ e.tok = <<s, row[s].gen>> /\ cache[e.tok] = EntryOf(row[s]) /\ OnlyToken(e, s, cache)
    BY <1>8, <2>1, <2>2, EvenHit, Zenon
  <2>4. row[s] \in SessionRow /\ now \in Nat
    BY <1>1 DEF SessionTypeOK
  <2> QED
    BY <2>2, <2>3, <2>4, ValidIs, Zenon
<1>9. CASE e.tok # NoToken /\ cache[e.tok].in /\ Expired(cache[e.tok])
  <2>1. n = [e EXCEPT !.pc = "expireCache"]
    BY <1>4, <1>9
  <2>2. n.pc = "expireCache" /\ n.tok = e.tok /\ n.cookie = e.cookie /\ n.phase = e.phase
    BY <1>1, <2>1 DEF Exec
  <2>3. ASSUME NEW s \in Sids, s \in SidOf(e), Fits(e, s, row[s], cache, now)
        PROVE  Kept(n, s, row[s], cache, now)
    <3>1. Even(s, row[s], cache) /\ OnlyToken(e, s, cache) /\ ~Valid(row[s], now)
      BY <1>8, <1>9, <2>3, Zenon
    <3>2. GuardKnows(n, s, row[s], cache, now)
      BY <2>2, <3>1 DEF GuardKnows, OnlyToken
    <3>3. RevokerKnows(n, s, cache)
      BY <2>2 DEF RevokerKnows
    <3>4. FindsAgain(e, s, row[s], now)
      BY <2>3, Zenon DEF Fits
    <3>5. e.phase \in {1, 2}
      BY <1>1 DEF Exec
    <3>6. FindsAgain(n, s, row[s], now)
      BY <1>2, <2>2, <2>3, <3>1, <3>4, <3>5 DEF FindsAgain, Current
    <3> QED
      BY <3>1, <3>2, <3>3, <3>6, Zenon DEF Kept, Fits
  <2>4. OnItsWay(n) /\ n.pc # "revCache"
    BY <2>2, WayOn
  <2> QED
    BY <2>2, <2>3, <2>4
<1>10. CASE e.tok # NoToken /\ cache[e.tok].in /\ ~Expired(cache[e.tok])
  <2>1. n = Found(e, cache[e.tok])
    BY <1>4, <1>10
  <2>2. n.tok = e.tok /\ n.pc \in {"outCache", "revList", "refresh"} /\ (n.pc = "revList" => n.phase = 2)
    BY <1>1, <2>1, FoundIs
  <2>3. ASSUME NEW s \in Sids, s \in SidOf(e), Fits(e, s, row[s], cache, now)
        PROVE  Kept(n, s, row[s], cache, now)
    <3>1. Even(s, row[s], cache) /\ Current(e, s, row[s], now) /\ n = Found(e, EntryOf(row[s]))
      BY <1>8, <1>10, <2>1, <2>3, Zenon DEF Current
    <3> QED
      BY <1>1, <2>3, <3>1, HitKept
  <2>4. OnItsWay(n) /\ n.pc # "revCache"
    BY <2>2, WayOn
  <2> QED
    BY <2>2, <2>3, <2>4
<1> QED
  BY <1>6, <1>7, <1>9, <1>10

LEMMA ExpireCacheStore ==
    ASSUME SessionInv, StoreInv, NEW c \in Calls, NEW a \in Attempts, ExpireCache(c, a)
    PROVE  StoreInv'
<1> DEFINE e == exec[c][a]
<1>1. SessionTypeOK /\ e \in Exec /\ ExecOK(e) /\ e.tok \in Tokens \cup {NoToken}
  BY ExecTyped DEF SessionInv, CallSound
<1>2. /\ e.pc = "expireCache" /\ row' = row /\ now' = now /\ disturbed' = disturbed
      /\ cache' = [cache EXCEPT ![e.tok] = NoEntry]
  BY Zenon DEF ExpireCache, At, Steady
<1>3. PICK n \in Exec : Become(c, a, n) /\ ExecOK(n) /\ n.op = e.op
  BY NextExec DEF Step
<1>4. n = [e EXCEPT !.pc = "expireRow"]
  BY <1>1, <1>3, Became, Zenon DEF ExpireCache, Goto
<1>5. n.pc = "expireRow" /\ n.tok = e.tok /\ n.cookie = e.cookie /\ n.phase = e.phase
  BY <1>1, <1>4 DEF Exec
<1>6. e.tok \in Tokens
  BY <1>1, <1>2 DEF ExecOK, GuardSteps
<1>7. /\ \A s \in Sids : s \notin SidOf(e) => \A g \in 0..MaxGen : cache'[<<s, g>>] = cache[<<s, g>>]
      /\ cache'[e.tok] = NoEntry
      /\ \A s \in Sids : \A g \in 0..MaxGen : <<s, g>> # e.tok => cache'[<<s, g>>] = cache[<<s, g>>]
  BY <1>1, <1>2, <1>6, OneEntry
<1>8. ASSUME NEW s \in Sids, s \in SidOf(e), Fits(e, s, row[s], cache, now)
      PROVE  Kept(n, s, row[s], cache', now)
  <2>1. OnlyToken(e, s, cache) /\ FindsAgain(e, s, row[s], now)
    BY <1>2, <1>8 DEF Fits, GuardKnows
  <2>2. Forgotten(s, cache')
    BY <1>7, <2>1 DEF OnlyToken, Forgotten, NoEntry
  <2>3. Even(s, row[s], cache')
    BY <2>2, ForgottenEven
  <2>4. GuardKnows(n, s, row[s], cache', now) /\ RevokerKnows(n, s, cache')
    BY <1>5, <2>2 DEF GuardKnows, RevokerKnows
  <2>5. FindsAgain(n, s, row[s], now)
    BY <1>2, <1>5, <1>8, <2>1 DEF FindsAgain
  <2> QED
    BY <2>3, <2>4, <2>5, Zenon DEF Kept, Fits
<1>9. OnItsWay(n) /\ n.pc # "revCache" /\ e.pc \notin {"idle", "answer", "revCache"}
  BY <1>2, <1>5, WayOn
<1> HIDE DEF e
<1> QED
  BY <1>2, <1>3, <1>5, <1>7, <1>8, <1>9, GuardStep DEF e

(* The row of one session is revoked. *)
LEMMA RevokedRow ==
    ASSUME SessionTypeOK, NEW S, Revoke(S)
    PROVE  /\ \A s \in Sids \ S : row'[s] = row[s]
           /\ \A s \in Sids : row'[s].st = IF s \in S /\ row[s].st = "live" THEN "revoked" ELSE row[s].st
BY DEF Revoke, SessionTypeOK, SessionRow

LEMMA ExpireRowStore ==
    ASSUME SessionInv, StoreInv, NEW c \in Calls, NEW a \in Attempts, ExpireRow(c, a)
    PROVE  StoreInv'
<1> DEFINE e == exec[c][a]
<1>1. SessionTypeOK /\ e \in Exec /\ ExecOK(e) /\ e.tok \in Tokens \cup {NoToken}
  BY ExecTyped DEF SessionInv, CallSound
<1>2. /\ e.pc = "expireRow" /\ cache' = cache /\ now' = now /\ disturbed' = disturbed
      /\ Revoke(SidOf(e))
  BY Zenon DEF ExpireRow, At, Steady
<1>3. PICK n \in Exec : Become(c, a, n) /\ ExecOK(n) /\ n.op = e.op
  BY NextExec DEF Step
<1>4. n = NotFound(e)
  BY <1>1, <1>3, Became, Zenon DEF ExpireRow
<1>5. OnItsWay(n) /\ n.pc # "revCache" /\ n.tok = e.tok
  BY <1>1, <1>4, NotFoundIs, WayOn
<1>6. \A s \in Sids : s \notin SidOf(e) => row'[s] = row[s]
  BY <1>1, <1>2, RevokedRow
<1>7. ASSUME NEW s \in Sids, s \in SidOf(e), Fits(e, s, row[s], cache, now)
      PROVE  Kept(n, s, row'[s], cache, now)
  <2>1. Forgotten(s, cache) /\ FindsAgain(e, s, row[s], now)
    BY <1>2, <1>7 DEF Fits, GuardKnows
  <2>2. Even(s, row'[s], cache)
    BY <2>1, ForgottenEven
  <2>3. e.cookie = NoToken => e.phase # 2
    BY <1>2, <1>7, <2>1 DEF FindsAgain
  <2> QED
    BY <1>1, <1>4, <1>7, <2>2, <2>3, MissKept
<1>8. e.pc \notin {"idle", "answer", "revCache"}
  BY <1>2
<1> HIDE DEF e
<1> QED
  BY <1>2, <1>3, <1>5, <1>6, <1>7, <1>8, GuardStep DEF e

LEMMA DbReadStore ==
    ASSUME SessionInv, StoreInv, NEW c \in Calls, NEW a \in Attempts, DbRead(c, a)
    PROVE  StoreInv'
<1> DEFINE e == exec[c][a]
           r == row[e.tok[1]]
<1>1. SessionTypeOK /\ e \in Exec /\ ExecOK(e) /\ e.tok \in Tokens \cup {NoToken}
  BY ExecTyped DEF SessionInv, CallSound
<1>2. e.pc = "dbRead" /\ row' = row /\ cache' = cache /\ now' = now /\ disturbed' = disturbed
  BY Zenon DEF DbRead, At, Steady
<1>3. PICK n \in Exec : Become(c, a, n) /\ ExecOK(n) /\ n.op = e.op
  BY NextExec DEF Step
<1>4. n = IF r.st # "live" \/ r.gen # e.tok[2] THEN NotFound(e)
          ELSE IF Expired(r) THEN [e EXCEPT !.pc = "expireRow"]
          ELSE [e EXCEPT !.pc = "fill", !.rec = EntryOf(r)]
  BY <1>1, <1>3, Became, Zenon DEF DbRead
<1>5. SUFFICES /\ OnItsWay(n) /\ n.pc # "revCache" /\ n.tok = e.tok
               /\ \A s \in Sids : s \in SidOf(e) /\ Fits(e, s, row[s], cache, now) => Kept(n, s, row[s], cache, now)
  <2>1. e.pc \notin {"idle", "answer", "revCache"}
    BY <1>2
  <2> HIDE DEF e
  <2> QED
    BY <1>2, <1>3, <1>5, <2>1, GuardStep DEF e
<1>6. ASSUME NEW s \in Sids, s \in SidOf(e), Fits(e, s, row[s], cache, now)
      PROVE  /\ e.tok = <<s, e.tok[2]>> /\ r = row[s] /\ r \in SessionRow
             /\ Even(s, r, cache) /\ ~cache[e.tok].in
             /\ e.cookie = NoToken /\ e.phase = 2 => Current(e, s, r, now)
  <2>1. e.tok = <<s, e.tok[2]>>
    BY <1>1, <1>6, SidIs
  <2>2. r = row[s] /\ r \in SessionRow
    BY <1>1, <2>1 DEF SessionTypeOK
  <2> HIDE DEF r
  <2>3. Even(s, r, cache) /\ ~cache[e.tok].in /\ FindsAgain(e, s, r, now)
    BY <1>2, <1>6, <2>2 DEF Fits, GuardKnows
  <2>4. e.cookie = NoToken /\ e.phase = 2 => Current(e, s, r, now)
    BY <1>2, <1>6, <2>3 DEF FindsAgain
  <2> QED
    BY <2>1, <2>2, <2>3, <2>4
<1>7. CASE r.st # "live" \/ r.gen # e.tok[2]
  <2>1. n = NotFound(e)
    BY <1>4, <1>7
  <2>2. OnItsWay(n) /\ n.pc # "revCache" /\ n.tok = e.tok
    BY <1>1, <2>1, NotFoundIs, WayOn
  <2>3. ASSUME NEW s \in Sids, s \in SidOf(e), Fits(e, s, row[s], cache, now)
        PROVE  Kept(n, s, row[s], cache, now)
    <3>1. e.cookie = NoToken => e.phase # 2
      <4>1. ~Current(e, s, r, now)
        <5>1. e.tok = <<s, e.tok[2]>>
          BY <1>6, <2>3
        <5> HIDE DEF r
        <5> QED
          BY <1>7, <5>1 DEF Current
      <4> QED
        BY <1>6, <2>3, <4>1, Zenon
    <3>2. Even(s, row[s], cache)
      BY <1>6, <2>3
    <3> QED
      BY <1>1, <2>1, <2>3, <3>1, <3>2, MissKept
  <2> QED
    BY <2>2, <2>3
<1>8. CASE ~(r.st # "live" \/ r.gen # e.tok[2]) /\ Expired(r)
  <2>1. n = [e EXCEPT !.pc = "expireRow"]
    BY <1>4, <1>8
  <2>2. n.pc = "expireRow" /\ n.tok = e.tok /\ n.cookie = e.cookie /\ n.phase = e.phase
    BY <1>1, <2>1 DEF Exec
  <2>3. ASSUME NEW s \in Sids, s \in SidOf(e), Fits(e, s, row[s], cache, now)
        PROVE  Kept(n, s, row[s], cache, now)
    <3>1. ~Valid(r, now)
      BY <1>1, <1>6, <1>8, <2>3, ValidIs DEF SessionTypeOK
    <3>2. e.phase \in {1, 2}
      BY <1>1 DEF Exec
    <3>3. r = row[s] /\ e.tok = <<s, r.gen>> /\ Even(s, r, cache) /\ ~cache[e.tok].in
      BY <1>6, <1>8, <2>3
    <3>4. e.cookie = NoToken => e.phase = 1
      BY <1>6, <2>3, <3>1, <3>2 DEF Current
    <3> HIDE DEF r
    <3>5. Forgotten(s, cache)
      BY <3>3, EvenMiss
    <3>6. GuardKnows(n, s, r, cache, now) /\ RevokerKnows(n, s, cache)
      BY <2>2, <3>5 DEF GuardKnows, RevokerKnows
    <3>7. FindsAgain(n, s, r, now)
      BY <2>2, <3>4 DEF FindsAgain
    <3> QED
      BY <3>3, <3>6, <3>7, Zenon DEF Kept, Fits
  <2>4. OnItsWay(n) /\ n.pc # "revCache"
    BY <2>2, WayOn
  <2> QED
    BY <2>2, <2>3, <2>4
<1>9. CASE ~(r.st # "live" \/ r.gen # e.tok[2]) /\ ~Expired(r)
  <2> DEFINE v == EntryOf(r)
  <2>1. n = [e EXCEPT !.pc = "fill", !.rec = v]
    BY <1>4, <1>9
  <2> HIDE DEF v
  <2>2. n.pc = "fill" /\ n.tok = e.tok /\ n.cookie = e.cookie /\ n.phase = e.phase /\ n.rec = v
    BY <1>1, <2>1 DEF Exec
  <2>3. ASSUME NEW s \in Sids, s \in SidOf(e), Fits(e, s, row[s], cache, now)
        PROVE  Kept(n, s, row[s], cache, now)
    <3>1. Valid(r, now)
      BY <1>1, <1>6, <1>9, <2>3, ValidIs DEF SessionTypeOK
    <3>2. r = row[s] /\ e.tok = <<s, r.gen>> /\ Even(s, r, cache) /\ ~cache[e.tok].in /\ r.st = "live"
      BY <1>6, <1>9, <2>3
    <3>3. n.rec = EntryOf(r)
      BY <2>2 DEF v
    <3> HIDE DEF r
    <3>4. Forgotten(s, cache)
      BY <3>2, EvenMiss
    <3>5. Current(n, s, r, now)
      BY <2>2, <3>1, <3>2 DEF Current
    <3>6. GuardKnows(n, s, r, cache, now) /\ RevokerKnows(n, s, cache)
      BY <2>2, <3>3, <3>4, <3>5 DEF GuardKnows, RevokerKnows
    <3>7. FindsAgain(n, s, r, now)
      BY <2>2 DEF FindsAgain
    <3> QED
      BY <3>2, <3>6, <3>7, Zenon DEF Kept, Fits
  <2>4. OnItsWay(n) /\ n.pc # "revCache"
    BY <2>2, WayOn
  <2> QED
    BY <2>2, <2>3, <2>4
<1> QED
  BY <1>7, <1>8, <1>9

LEMMA FillStore ==
    ASSUME SessionInv, StoreInv, NEW c \in Calls, NEW a \in Attempts, Fill(c, a)
    PROVE  StoreInv'
<1> DEFINE e == exec[c][a]
<1>1. SessionTypeOK /\ e \in Exec /\ ExecOK(e) /\ e.tok \in Tokens \cup {NoToken}
  BY ExecTyped DEF SessionInv, CallSound
<1>2. /\ e.pc = "fill" /\ row' = row /\ now' = now /\ disturbed' = disturbed
      /\ cache' = [cache EXCEPT ![e.tok] = e.rec]
  BY Zenon DEF Fill, At, Steady
<1>3. PICK n \in Exec : Become(c, a, n) /\ ExecOK(n) /\ n.op = e.op
  BY NextExec DEF Step
<1>4. n = Found(e, e.rec)
  BY <1>1, <1>3, Became, Zenon DEF Fill
<1>5. n.tok = e.tok /\ n.pc \in {"outCache", "revList", "refresh"} /\ (n.pc = "revList" => n.phase = 2)
  BY <1>1, <1>4, FoundIs
<1>6. e.tok \in Tokens
  BY <1>1, <1>2 DEF ExecOK, GuardSteps
<1>7. /\ \A s \in Sids : s \notin SidOf(e) => \A g \in 0..MaxGen : cache'[<<s, g>>] = cache[<<s, g>>]
      /\ cache'[e.tok] = e.rec
      /\ \A s \in Sids : \A g \in 0..MaxGen : <<s, g>> # e.tok => cache'[<<s, g>>] = cache[<<s, g>>]
  BY <1>1, <1>2, <1>6, OneEntry
<1>8. ASSUME NEW s \in Sids, s \in SidOf(e), Fits(e, s, row[s], cache, now)
      PROVE  Kept(n, s, row[s], cache', now)
  <2>1. Current(e, s, row[s], now) /\ e.rec = EntryOf(row[s]) /\ Forgotten(s, cache)
    BY <1>2, <1>8 DEF Fits, GuardKnows
  <2>2. Even(s, row[s], cache')
    <3>1. ASSUME NEW g \in 0..MaxGen, cache'[<<s, g>>].in
          PROVE  row[s].st = "live" /\ row[s].gen = g /\ cache'[<<s, g>>] = EntryOf(row[s])
      <4>1. <<s, g>> = e.tok
        BY <1>7, <2>1, <3>1, Zenon DEF Forgotten
      <4>2. row[s].st = "live" /\ e.tok = <<s, row[s].gen>>
        BY <2>1, Zenon DEF Current
      <4>3. row[s].gen = g
        BY <4>1, <4>2
      <4> QED
        BY <1>7, <2>1, <4>1, <4>2, <4>3
    <3> QED
      BY <3>1, Zenon DEF Even
  <2>3. n = Found(e, EntryOf(row[s]))
    BY <1>4, <2>1
  <2> QED
    BY <1>1, <1>8, <2>1, <2>2, <2>3, HitKept
<1>9. OnItsWay(n) /\ n.pc # "revCache" /\ e.pc \notin {"idle", "answer", "revCache"}
  BY <1>2, <1>5, WayOn
<1> HIDE DEF e
<1> QED
  BY <1>2, <1>3, <1>5, <1>7, <1>8, <1>9, GuardStep DEF e

(* The row of a rotated session. *)
LEMMA Rotated ==
    ASSUME SessionTypeOK, NEW s \in Sids, row[s].gen < MaxGen,
           row' = [row EXCEPT ![s].gen = @ + 1, ![s].expires = now + TTL, ![s].active = now]
    PROVE  /\ row'[s].st = row[s].st /\ row'[s].gen = row[s].gen + 1
           /\ <<s, row'[s].gen>> \in Tokens
           /\ \A q \in Sids \ {s} : row'[q] = row[q]
<1> DEFINE r == [row[s] EXCEPT !.gen = row[s].gen + 1, !.expires = now + TTL, !.active = now]
<1>1. row \in [Sids -> SessionRow] /\ row[s] \in SessionRow /\ row[s].gen \in 0..MaxGen
  BY DEF SessionTypeOK, SessionRow
<1>2. row' = [row EXCEPT ![s] = r]
  OBVIOUS
<1>3. r.st = row[s].st /\ r.gen = row[s].gen + 1
  BY <1>1 DEF SessionRow
<1>4. row[s].gen + 1 \in 0..MaxGen
  BY <1>1, SessionAssumption
<1> HIDE DEF r
<1>5. row'[s] = r /\ \A q \in Sids \ {s} : row'[q] = row[q]
  BY <1>1, <1>2
<1> QED
  BY <1>3, <1>4, <1>5, TokenMade

LEMMA RefreshStore ==
    ASSUME SessionInv, StoreInv, NEW c \in Calls, NEW a \in Attempts, Refresh(c, a)
    PROVE  StoreInv'
<1> DEFINE e == exec[c][a]
           u == e.tok[1]
<1>1. SessionTypeOK /\ e \in Exec /\ ExecOK(e) /\ e.tok \in Tokens \cup {NoToken}
  BY ExecTyped DEF SessionInv, CallSound
<1>2. e.pc = "refresh" /\ cache' = cache /\ now' = now /\ disturbed' = disturbed
  BY Zenon DEF Refresh, At, Steady
<1>3. PICK n \in Exec : Become(c, a, n) /\ ExecOK(n) /\ n.op = e.op
  BY NextExec DEF Step
<1>4. e.tok \in Tokens
  BY <1>1, <1>2 DEF ExecOK, GuardSteps
<1>5. u \in Sids /\ \A s \in Sids : s \in SidOf(e) <=> s = u
  BY <1>4, SidIs, TokenParts
<1>6. CASE e.rec.expires - now < Threshold
  <2> DEFINE k == <<u, row[u].gen + 1>>
             v == EntryOf(row'[u])
  <2>1. /\ row[u].gen < MaxGen
        /\ row' = [row EXCEPT ![u].gen = @ + 1, ![u].expires = now + TTL, ![u].active = now]
    BY <1>6, Zenon DEF Refresh
  <2>2. n = [e EXCEPT !.pc = "rotDel", !.cookie = k, !.rec = v]
    BY <1>1, <1>3, <1>6, Became, Zenon DEF Refresh
  <2>3. /\ row'[u].st = row[u].st /\ row'[u].gen = row[u].gen + 1
        /\ <<u, row'[u].gen>> \in Tokens
        /\ \A q \in Sids \ {u} : row'[q] = row[q]
    BY <1>1, <1>5, <2>1, Rotated, Zenon
  <2>4. k = <<u, row'[u].gen>>
    BY <2>3
  <2> HIDE DEF k, v
  <2>5. n.pc = "rotDel" /\ n.tok = e.tok /\ n.cookie = k /\ n.rec = v
    BY <1>1, <2>2 DEF Exec
  <2>6. k \in Tokens /\ k[1] = u /\ k # NoToken
    BY <2>3, <2>4 DEF Tokens, NoToken
  <2>7. ASSUME NEW s \in Sids, s \in SidOf(e), Fits(e, s, row[s], cache, now)
        PROVE  Kept(n, s, row'[s], cache, now)
    <3>1. s = u
      BY <1>5, <2>7
    <3>2. Current(e, s, row[s], now) /\ Even(s, row[s], cache)
      BY <1>2, <2>7 DEF Fits, GuardKnows
    <3>3. Uses(n, s)
      BY <2>5, <2>7 DEF Uses, SidOf
    <3>4. OnlyToken(n, s, cache)
      BY <2>5, <3>2 DEF Even, Current, OnlyToken
    <3>5. row'[s].st = "live" /\ n.cookie = <<s, row'[s].gen>> /\ n.rec = EntryOf(row'[s])
      BY <2>3, <2>4, <2>5, <3>1, <3>2 DEF Current, v
    <3>6. GuardKnows(n, s, row'[s], cache, now) /\ RevokerKnows(n, s, cache)
      BY <2>5, <3>4, <3>5 DEF GuardKnows, RevokerKnows
    <3>7. FindsAgain(n, s, row'[s], now)
      BY <2>5, <2>6 DEF FindsAgain
    <3> QED
      BY <2>5, <3>3, <3>6, <3>7 DEF Kept, Fits
  <2>8. \A s \in Sids : s \notin SidOf(e) => row'[s] = row[s]
    BY <1>5, <2>3
  <2>9. OnItsWay(n)
    BY <1>4, <2>5, <2>6 DEF OnItsWay
  <2>10. e.pc \notin {"idle", "answer", "revCache"} /\ n.pc # "revCache"
    BY <1>2, <2>5
  <2> HIDE DEF e
  <2> QED
    BY <1>2, <1>3, <2>5, <2>7, <2>8, <2>9, <2>10, GuardStep DEF e
<1>7. CASE ~(e.rec.expires - now < Threshold)
  <2>1. n = [e EXCEPT !.pc = "touch"]
    BY <1>1, <1>3, <1>7, Became, Zenon DEF Refresh, Goto
  <2>2. row' = row
    BY <1>7, Zenon DEF Refresh
  <2>3. n.pc = "touch" /\ n.tok = e.tok /\ n.cookie = e.cookie /\ n.rec = e.rec
    BY <1>1, <2>1 DEF Exec
  <2>4. ASSUME NEW s \in Sids, s \in SidOf(e), Fits(e, s, row[s], cache, now)
        PROVE  Kept(n, s, row[s], cache, now)
    <3>1. Current(e, s, row[s], now) /\ Even(s, row[s], cache) /\ e.rec = EntryOf(row[s])
      BY <1>2, <2>4 DEF Fits, GuardKnows
    <3>2. e.rec.in /\ e.rec.created = row[s].created /\ e.rec.expires = row[s].expires
      BY <3>1 DEF EntryOf
    <3>3. GuardKnows(n, s, row[s], cache, now) /\ RevokerKnows(n, s, cache)
      BY <2>3, <3>1, <3>2 DEF GuardKnows, RevokerKnows, Current
    <3>4. FindsAgain(n, s, row[s], now)
      BY <2>3 DEF FindsAgain
    <3> QED
      BY <3>1, <3>3, <3>4, Zenon DEF Kept, Fits
  <2>5. OnItsWay(n) /\ n.pc # "revCache" /\ e.pc \notin {"idle", "answer", "revCache"}
    BY <1>2, <2>3, WayOn
  <2> HIDE DEF e
  <2> QED
    BY <1>2, <1>3, <2>2, <2>3, <2>4, <2>5, GuardStep DEF e
<1> QED
  BY <1>6, <1>7

LEMMA RotDelStore ==
    ASSUME SessionInv, StoreInv, NEW c \in Calls, NEW a \in Attempts, RotDel(c, a)
    PROVE  StoreInv'
<1> DEFINE e == exec[c][a]
<1>1. SessionTypeOK /\ e \in Exec /\ ExecOK(e) /\ e.tok \in Tokens \cup {NoToken} /\ OnItsWay(e)
  BY ExecTyped DEF SessionInv, CallSound, StoreInv
<1>2. /\ e.pc = "rotDel" /\ row' = row /\ now' = now /\ disturbed' = disturbed
      /\ cache' = [cache EXCEPT ![e.tok] = NoEntry]
  BY Zenon DEF RotDel, At, Steady
<1>3. PICK n \in Exec : Become(c, a, n) /\ ExecOK(n) /\ n.op = e.op
  BY NextExec DEF Step
<1>4. n = [e EXCEPT !.pc = "rotSet"]
  BY <1>1, <1>3, Became, Zenon DEF RotDel, Goto
<1>5. n.pc = "rotSet" /\ n.tok = e.tok /\ n.cookie = e.cookie /\ n.rec = e.rec
  BY <1>1, <1>4 DEF Exec
<1>6. e.tok \in Tokens /\ OnItsWay(n) /\ n.cookie # NoToken
  BY <1>1, <1>2, <1>5 DEF OnItsWay, Tokens, NoToken
<1>7. /\ \A s \in Sids : s \notin SidOf(e) => \A g \in 0..MaxGen : cache'[<<s, g>>] = cache[<<s, g>>]
      /\ cache'[e.tok] = NoEntry
      /\ \A s \in Sids : \A g \in 0..MaxGen : <<s, g>> # e.tok => cache'[<<s, g>>] = cache[<<s, g>>]
  BY <1>1, <1>2, <1>6, OneEntry
<1>8. ASSUME NEW s \in Sids, s \in SidOf(e), Fits(e, s, row[s], cache, now)
      PROVE  Kept(n, s, row[s], cache', now)
  <2>1. /\ OnlyToken(e, s, cache) /\ row[s].st = "live" /\ e.cookie = <<s, row[s].gen>>
        /\ e.rec = EntryOf(row[s])
    BY <1>2, <1>8 DEF Fits, GuardKnows
  <2>2. Forgotten(s, cache')
    BY <1>7, <2>1 DEF OnlyToken, Forgotten, NoEntry
  <2>3. Even(s, row[s], cache')
    BY <2>2, ForgottenEven
  <2>4. GuardKnows(n, s, row[s], cache', now) /\ RevokerKnows(n, s, cache')
    BY <1>5, <2>1, <2>2 DEF GuardKnows, RevokerKnows
  <2>5. FindsAgain(n, s, row[s], now)
    BY <1>6 DEF FindsAgain
  <2> QED
    BY <2>3, <2>4, <2>5, Zenon DEF Kept, Fits
<1>9. n.pc # "revCache" /\ e.pc \notin {"idle", "answer", "revCache"}
  BY <1>2, <1>5
<1> HIDE DEF e
<1> QED
  BY <1>2, <1>3, <1>5, <1>6, <1>7, <1>8, <1>9, GuardStep DEF e

(* The cache gets the entry of the row, and held no other. *)
LEMMA SetEven ==
    ASSUME NEW s, NEW r, NEW h, NEW k, r.st = "live", NEW t, t = <<s, r.gen>>, k[t] = EntryOf(r),
           \A g \in 0..MaxGen : h[<<s, g>>].in => <<s, g>> = t,
           \A g \in 0..MaxGen : <<s, g>> # t => k[<<s, g>>] = h[<<s, g>>]
    PROVE  Even(s, r, k)
<1>1. ASSUME NEW g \in 0..MaxGen, k[<<s, g>>].in
      PROVE  r.st = "live" /\ r.gen = g /\ k[<<s, g>>] = EntryOf(r)
  <2>1. <<s, g>> = t
    BY <1>1, Zenon
  <2>2. r.gen = g
    BY <2>1
  <2> QED
    BY <2>1, <2>2
<1> QED
  BY <1>1, Zenon DEF Even

LEMMA RotSetStore ==
    ASSUME SessionInv, StoreInv, NEW c \in Calls, NEW a \in Attempts, RotSet(c, a)
    PROVE  StoreInv'
<1> DEFINE e == exec[c][a]
<1>1. SessionTypeOK /\ e \in Exec /\ ExecOK(e) /\ e.tok \in Tokens \cup {NoToken} /\ OnItsWay(e)
  BY ExecTyped DEF SessionInv, CallSound, StoreInv
<1>2. /\ e.pc = "rotSet" /\ row' = row /\ now' = now /\ disturbed' = disturbed
      /\ cache' = [cache EXCEPT ![e.cookie] = e.rec]
  BY Zenon DEF RotSet, At, Steady
<1>3. PICK n \in Exec : Become(c, a, n) /\ ExecOK(n) /\ n.op = e.op
  BY NextExec DEF Step
<1>4. n = [e EXCEPT !.pc = "user"]
  BY <1>1, <1>3, Became, Zenon DEF RotSet, Goto
<1>5. n.pc = "user" /\ n.tok = e.tok /\ n.cookie = e.cookie /\ n.phase = e.phase
  BY <1>1, <1>4 DEF Exec
<1>6. e.tok \in Tokens /\ e.cookie \in Tokens /\ e.cookie[1] = e.tok[1] /\ n.cookie # NoToken
  BY <1>1, <1>2, <1>5 DEF OnItsWay, Tokens, NoToken
<1>7. /\ \A s \in Sids : s \notin SidOf(e) => \A g \in 0..MaxGen : cache'[<<s, g>>] = cache[<<s, g>>]
      /\ cache'[e.cookie] = e.rec
      /\ \A s \in Sids : \A g \in 0..MaxGen : <<s, g>> # e.cookie => cache'[<<s, g>>] = cache[<<s, g>>]
  BY <1>1, <1>2, <1>6, OneEntry
<1>8. ASSUME NEW s \in Sids, s \in SidOf(e), Fits(e, s, row[s], cache, now)
      PROVE  Kept(n, s, row[s], cache', now)
  <2>1. /\ Forgotten(s, cache) /\ row[s].st = "live" /\ e.cookie = <<s, row[s].gen>>
        /\ e.rec = EntryOf(row[s])
    BY <1>2, <1>8 DEF Fits, GuardKnows
  <2>2. Even(s, row[s], cache')
    BY <1>7, <2>1, SetEven DEF Forgotten
  <2>3. FindsAgain(n, s, row[s], now)
    BY <1>6 DEF FindsAgain
  <2> QED
    BY <1>5, <2>2, <2>3, PlainKept
<1>9. OnItsWay(n) /\ n.pc # "revCache" /\ e.pc \notin {"idle", "answer", "revCache"}
  BY <1>2, <1>5, WayOn
<1> HIDE DEF e
<1> QED
  BY <1>2, <1>3, <1>5, <1>7, <1>8, <1>9, GuardStep DEF e

LEMMA EntryAt ==
    ASSUME NEW v \in Entry, NEW t
    PROVE  [v EXCEPT !.active = t] = [in |-> v.in, created |-> v.created, active |-> t, expires |-> v.expires]
BY DEF Entry

(* The row and the entry of a touched session agree again. *)
LEMMA Touched ==
    ASSUME SessionTypeOK, NEW s \in Sids, NEW e, e.rec \in Entry, Current(e, s, row[s], now),
           row' = [row EXCEPT ![s].active = now],
           e.rec.in, e.rec.created = row[s].created, e.rec.expires = row[s].expires
    PROVE  /\ [e.rec EXCEPT !.active = now] = EntryOf(row'[s])
           /\ Current(e, s, row'[s], now) /\ row'[s].gen = row[s].gen
           /\ e.rec.created = row'[s].created /\ e.rec.expires = row'[s].expires
<1> DEFINE r == [row[s] EXCEPT !.active = now]
<1>1. row \in [Sids -> SessionRow] /\ row[s] \in SessionRow /\ now \in Nat
  BY DEF SessionTypeOK
<1>2. row' = [row EXCEPT ![s] = r]
  OBVIOUS
<1>3. /\ r.st = row[s].st /\ r.gen = row[s].gen /\ r.created = row[s].created
      /\ r.expires = row[s].expires /\ r.active = now
  BY <1>1 DEF SessionRow
<1> HIDE DEF r
<1>4. row'[s] = r
  BY <1>1, <1>2
<1>5. [e.rec EXCEPT !.active = now] = [in |-> TRUE, created |-> r.created, active |-> now, expires |-> r.expires]
  <2>1. [e.rec EXCEPT !.active = now] =
            [in |-> e.rec.in, created |-> e.rec.created, active |-> now, expires |-> e.rec.expires]
    BY EntryAt
  <2>2. e.rec.in = TRUE /\ e.rec.created = r.created /\ e.rec.expires = r.expires
    BY <1>3 DEF Entry
  <2> QED
    BY <2>1, <2>2, Zenon
<1>6. [e.rec EXCEPT !.active = now] = EntryOf(r)
  BY <1>3, <1>5 DEF EntryOf
<1>7. now + Idle > now
  BY <1>1, SessionAssumption
<1>8. Current(e, s, r, now)
  BY <1>3, <1>7 DEF Current, Valid
<1> QED
  BY <1>3, <1>4, <1>6, <1>8

LEMMA TouchStore ==
    ASSUME SessionInv, StoreInv, NEW c \in Calls, NEW a \in Attempts, Touch(c, a)
    PROVE  StoreInv'
<1> DEFINE e  == exec[c][a]
           u  == e.tok[1]
           v  == [e.rec EXCEPT !.active = now]
           pc == IF e.pc = "touch" THEN "touchAgain" ELSE "user"
<1>1. SessionTypeOK /\ e \in Exec /\ ExecOK(e) /\ e.tok \in Tokens \cup {NoToken} /\ e.rec \in Entry
  BY ExecTyped DEF SessionInv, CallSound
<1>2. /\ e.pc \in {"touch", "touchAgain"} /\ now' = now /\ disturbed' = disturbed
      /\ cache' = [cache EXCEPT ![e.tok] = v]
      /\ row' = [row EXCEPT ![u].active = now]
  BY Zenon DEF Touch, Steady
<1>3. PICK n \in Exec : Become(c, a, n) /\ ExecOK(n) /\ n.op = e.op
  BY NextExec DEF Step
<1>4. n = [e EXCEPT !.pc = pc] /\ pc \in {"touchAgain", "user"}
  BY <1>1, <1>3, Became, Zenon DEF Touch, Goto
<1> HIDE DEF pc
<1>5. n.pc = pc /\ n.tok = e.tok /\ n.cookie = e.cookie /\ n.phase = e.phase /\ n.rec = e.rec
  BY <1>1, <1>4 DEF Exec
<1>6. e.tok \in Tokens /\ u \in Sids /\ \A s \in Sids : s \in SidOf(e) <=> s = u
  <2>1. e.tok \in Tokens
    BY <1>1, <1>2 DEF ExecOK, GuardSteps
  <2> QED
    BY <2>1, SidIs, TokenParts
<1>7. /\ \A s \in Sids : s \notin SidOf(e) => \A g \in 0..MaxGen : cache'[<<s, g>>] = cache[<<s, g>>]
      /\ cache'[e.tok] = v
      /\ \A s \in Sids : \A g \in 0..MaxGen : <<s, g>> # e.tok => cache'[<<s, g>>] = cache[<<s, g>>]
  BY <1>1, <1>2, <1>6, OneEntry
<1>8. \A s \in Sids : s \notin SidOf(e) => row'[s] = row[s]
  BY <1>1, <1>2, <1>6 DEF SessionTypeOK
<1>9. ASSUME NEW s \in Sids, s \in SidOf(e), Fits(e, s, row[s], cache, now)
      PROVE  Kept(n, s, row'[s], cache', now)
  <2>1. s = u
    BY <1>6, <1>9
  <2>2. /\ Current(e, s, row[s], now) /\ Even(s, row[s], cache)
        /\ e.rec.in /\ e.rec.created = row[s].created /\ e.rec.expires = row[s].expires
    BY <1>2, <1>9 DEF Fits, GuardKnows
  <2>3. row' = [row EXCEPT ![s].active = now]
    BY <1>2, <2>1, Zenon
  <2>4. /\ v = EntryOf(row'[s])
        /\ Current(e, s, row'[s], now) /\ row'[s].gen = row[s].gen
        /\ e.rec.created = row'[s].created /\ e.rec.expires = row'[s].expires
    BY <1>1, <2>2, <2>3, Touched, Zenon
  <2>5. row'[s].st = "live" /\ e.tok = <<s, row'[s].gen>>
    BY <2>4, Zenon DEF Current
  <2>6. \A g \in 0..MaxGen : cache[<<s, g>>].in => <<s, g>> = e.tok
    BY <2>2, <2>4, <2>5 DEF Even
  <2> HIDE DEF v
  <2>7. Even(s, row'[s], cache')
    BY <1>7, <2>4, <2>5, <2>6, SetEven
  <2>8. Current(n, s, row'[s], now)
    BY <1>5, <2>4 DEF Current
  <2>9. FindsAgain(n, s, row'[s], now)
    BY <1>4, <1>5, <2>8 DEF FindsAgain
  <2>10. CASE n.pc = "user"
    BY <2>7, <2>9, <2>10, PlainKept
  <2>11. CASE n.pc = "touchAgain"
    <3>1. GuardKnows(n, s, row'[s], cache', now) /\ RevokerKnows(n, s, cache')
      BY <1>5, <2>2, <2>4, <2>8, <2>11 DEF GuardKnows, RevokerKnows
    <3> QED
      BY <2>7, <2>9, <3>1, Zenon DEF Kept, Fits
  <2> QED
    BY <1>4, <1>5, <2>10, <2>11
<1>10. n.pc # "revCache" /\ e.pc \notin {"idle", "answer", "revCache"}
  BY <1>2, <1>4, <1>5
<1>11. OnItsWay(n)
  BY <1>4, <1>5, WayOn
<1> HIDE DEF u, v
<1>12. \A s \in Sids : s \notin SidOf(exec[c][a]) =>
           row'[s] = row[s] /\ \A g \in 0..MaxGen : cache'[<<s, g>>] = cache[<<s, g>>]
  BY <1>7, <1>8
<1>13. \A s \in Sids : s \in SidOf(exec[c][a]) /\ Fits(exec[c][a], s, row[s], cache, now) =>
           Kept(n, s, row'[s], cache', now)
  BY <1>9
<1>14. exec[c][a].pc \notin {"idle", "answer", "revCache"} /\ n.pc # "revCache" /\ n.tok = exec[c][a].tok
  BY <1>5, <1>10
<1> HIDE DEF e
<1> QED
  BY <1>2, <1>3, <1>11, <1>12, <1>13, <1>14, GuardStep

LEMMA CreateCacheStore ==
    ASSUME SessionInv, StoreInv, NEW c \in Calls, NEW a \in Attempts, CreateCache(c, a)
    PROVE  StoreInv'
<1> DEFINE e == exec[c][a]
<1>1. SessionTypeOK /\ e \in Exec /\ ExecOK(e) /\ e.tok \in Tokens \cup {NoToken} /\ OnItsWay(e)
  BY ExecTyped DEF SessionInv, CallSound, StoreInv
<1>2. /\ e.pc = "createCache" /\ row' = row /\ now' = now /\ disturbed' = disturbed
      /\ cache' = [cache EXCEPT ![e.cookie] = e.rec]
  BY Zenon DEF CreateCache, At, Steady
<1>3. PICK n \in Exec : Become(c, a, n) /\ ExecOK(n) /\ n.op = e.op
  BY NextExec DEF Step
<1>4. n = Answered(e, "ok")
  BY <1>1, <1>3, Became, Zenon DEF CreateCache
<1>5. n.pc = "answer" /\ n.tok = e.tok
  BY <1>1, <1>4, AnsweredOK
<1>6. e.tok \in Tokens /\ e.cookie \in Tokens /\ e.cookie[1] = e.tok[1]
  BY <1>1, <1>2 DEF OnItsWay
<1>7. /\ \A s \in Sids : s \notin SidOf(e) => \A g \in 0..MaxGen : cache'[<<s, g>>] = cache[<<s, g>>]
      /\ cache'[e.cookie] = e.rec
      /\ \A s \in Sids : \A g \in 0..MaxGen : <<s, g>> # e.cookie => cache'[<<s, g>>] = cache[<<s, g>>]
  BY <1>1, <1>2, <1>6, OneEntry
<1>8. ASSUME NEW s \in Sids, s \in SidOf(e), Fits(e, s, row[s], cache, now)
      PROVE  Kept(n, s, row[s], cache', now)
  <2>1. /\ Forgotten(s, cache) /\ row[s].st = "live" /\ e.cookie = <<s, row[s].gen>>
        /\ e.rec = EntryOf(row[s])
    BY <1>2, <1>8 DEF Fits, GuardKnows
  <2>2. Even(s, row[s], cache')
    BY <1>7, <2>1, SetEven DEF Forgotten
  <2> QED
    BY <1>5, <2>2 DEF Kept, Uses
<1>9. OnItsWay(n) /\ n.pc # "revCache" /\ e.pc \notin {"idle", "answer", "revCache"}
  BY <1>2, <1>5, WayOn
<1> HIDE DEF e
<1> QED
  BY <1>2, <1>3, <1>5, <1>7, <1>8, <1>9, GuardStep DEF e

LEMMA LogoutCacheStore ==
    ASSUME SessionInv, StoreInv, NEW c \in Calls, NEW a \in Attempts, LogoutCache(c, a)
    PROVE  StoreInv'
<1> DEFINE e == exec[c][a]
<1>1. SessionTypeOK /\ e \in Exec /\ ExecOK(e) /\ e.tok \in Tokens \cup {NoToken}
  BY ExecTyped DEF SessionInv, CallSound
<1>2. /\ e.pc = "outCache" /\ row' = row /\ now' = now /\ disturbed' = disturbed
      /\ cache' = IF e.tok = NoToken THEN cache ELSE [cache EXCEPT ![e.tok] = NoEntry]
  BY Zenon DEF LogoutCache, At, Steady
<1>3. PICK n \in Exec : Become(c, a, n) /\ ExecOK(n) /\ n.op = e.op
  BY NextExec DEF Step
<1>4. n = [e EXCEPT !.pc = "outRow"]
  BY <1>1, <1>3, Became, Zenon DEF LogoutCache, Goto
<1>5. n.pc = "outRow" /\ n.tok = e.tok
  BY <1>1, <1>4 DEF Exec
<1>6. /\ \A s \in Sids : s \notin SidOf(e) => \A g \in 0..MaxGen : cache'[<<s, g>>] = cache[<<s, g>>]
      /\ e.tok \in Tokens => cache'[e.tok] = NoEntry
      /\ \A s \in Sids : \A g \in 0..MaxGen : <<s, g>> # e.tok => cache'[<<s, g>>] = cache[<<s, g>>]
  <2>1. CASE e.tok = NoToken
    <3>1. NoToken \notin Tokens
      BY DEF NoToken, Tokens
    <3> QED
      BY <1>2, <2>1, <3>1
  <2>2. CASE e.tok # NoToken
    <3>1. e.tok \in Tokens /\ cache' = [cache EXCEPT ![e.tok] = NoEntry]
      BY <1>1, <1>2, <2>2
    <3> HIDE DEF e
    <3>2. /\ \A s \in Sids : s \notin SidOf(e) => \A g \in 0..MaxGen : cache'[<<s, g>>] = cache[<<s, g>>]
          /\ cache'[e.tok] = NoEntry
          /\ \A s \in Sids : \A g \in 0..MaxGen : <<s, g>> # e.tok => cache'[<<s, g>>] = cache[<<s, g>>]
      BY <1>1, <3>1, OneEntry
    <3> QED
      BY <3>2
  <2> QED
    BY <2>1, <2>2
<1>7. ASSUME NEW s \in Sids, s \in SidOf(e), Fits(e, s, row[s], cache, now)
      PROVE  Kept(n, s, row[s], cache', now)
  <2>1. Even(s, row[s], cache)
    BY <1>2, <1>7 DEF Fits
  <2>2. cache'[e.tok] = NoEntry /\ ~NoEntry.in
    BY <1>1, <1>6, <1>7, SidIs DEF NoEntry
  <2>3. Even(s, row[s], cache')
    <3>1. ASSUME NEW g \in 0..MaxGen, cache'[<<s, g>>].in PROVE cache'[<<s, g>>] = cache[<<s, g>>]
      BY <1>6, <2>2, <3>1
    <3> QED
      BY <2>1, <3>1 DEF Even
  <2>4. GuardKnows(n, s, row[s], cache', now) /\ RevokerKnows(n, s, cache')
    BY <1>5, <2>2 DEF GuardKnows, RevokerKnows
  <2>5. FindsAgain(n, s, row[s], now)
    BY <1>5 DEF FindsAgain
  <2> QED
    BY <2>3, <2>4, <2>5, Zenon DEF Kept, Fits
<1>8. OnItsWay(n) /\ n.pc # "revCache" /\ e.pc \notin {"idle", "answer", "revCache"}
  BY <1>2, <1>5, WayOn
<1> HIDE DEF e
<1> QED
  BY <1>2, <1>3, <1>5, <1>6, <1>7, <1>8, GuardStep DEF e

LEMMA LogoutRowStore ==
    ASSUME SessionInv, StoreInv, NEW c \in Calls, NEW a \in Attempts, LogoutRow(c, a)
    PROVE  StoreInv'
<1> DEFINE e == exec[c][a]
           S == {s \in SidOf(e) : row[s].gen = e.tok[2]}
<1>1. SessionTypeOK /\ e \in Exec /\ ExecOK(e) /\ e.tok \in Tokens \cup {NoToken}
  BY ExecTyped DEF SessionInv, CallSound
<1>2. /\ e.pc = "outRow" /\ cache' = cache /\ now' = now /\ disturbed' = disturbed
      /\ Revoke(S)
  BY Zenon DEF LogoutRow, At, Steady
<1>3. PICK n \in Exec : Become(c, a, n) /\ ExecOK(n) /\ n.op = e.op
  BY NextExec DEF Step
<1>4. n = [Answered(e, "ok") EXCEPT !.cookie = <<"clear">>]
  BY <1>1, <1>3, Became, Zenon DEF LogoutRow
<1>5. n.pc = "answer" /\ n.tok = e.tok
  <2> DEFINE f == Answered(e, "ok")
             z == <<"clear">>
  <2>1. f \in Exec /\ f.pc = "answer" /\ f.tok = e.tok
    BY <1>1, AnsweredOK
  <2>2. n = [f EXCEPT !.cookie = z]
    BY <1>4
  <2> HIDE DEF f, z
  <2> QED
    BY <2>1, <2>2 DEF Exec
<1>6. \A s \in Sids : s \notin S => row'[s] = row[s]
  BY <1>1, <1>2, RevokedRow
<1>7. ASSUME NEW s \in Sids, s \in SidOf(e), Fits(e, s, row[s], cache, now)
      PROVE  Kept(n, s, row'[s], cache, now)
  <2>1. Even(s, row[s], cache) /\ ~cache[e.tok].in
    BY <1>2, <1>7 DEF Fits, GuardKnows
  <2>2. e.tok = <<s, e.tok[2]>>
    BY <1>1, <1>7, SidIs
  <2>3. CASE s \in S
    <3>1. e.tok = <<s, row[s].gen>>
      BY <2>2, <2>3
    <3>2. Forgotten(s, cache)
      BY <2>1, <3>1, EvenMiss
    <3>3. Even(s, row'[s], cache)
      BY <3>2, ForgottenEven
    <3> QED
      BY <1>5, <3>3 DEF Kept, Uses
  <2>4. CASE s \notin S
    <3>1. row'[s] = row[s]
      BY <1>6, <2>4
    <3> QED
      BY <1>5, <2>1, <3>1 DEF Kept, Uses
  <2> QED
    BY <2>3, <2>4
<1>8. OnItsWay(n) /\ n.pc # "revCache" /\ e.pc \notin {"idle", "answer", "revCache"}
  BY <1>2, <1>5, WayOn
<1>9. \A s \in Sids : s \notin SidOf(e) => row'[s] = row[s]
  BY <1>6
<1> HIDE DEF e, S
<1> QED
  BY <1>2, <1>3, <1>5, <1>7, <1>8, <1>9, GuardStep DEF e

(* The steps that leave the sessions alone. *)
PlainStep(c, a) ==
    \/ GuardUser(c, a) \/ HandleRead(c, a) \/ RevokeOthers(c, a) \/ Login(c, a) \/ AdminUpdate(c, a)
    \/ IssueDrop(c, a) \/ ResetFails(c, a) \/ ResetCommit(c, a)
    \/ \E k \in Links : IssueAdd(c, a, k) \/ ResetRead(c, a, k)

ToReset(c, a, e, k) == Become(c, a, [e EXCEPT !.pc = "resetTx", !.found = {k}])

LEMMA PlainShape ==
    ASSUME SessionTypeOK, NEW c \in Calls, NEW a \in Attempts, NEW e, e = exec[c][a], PlainStep(c, a)
    PROVE  /\ row' = row /\ cache' = cache /\ now' = now /\ disturbed' = disturbed
           /\ \/ e.pc = "user" /\ Become(c, a, [e EXCEPT !.pc = "handler"])
              \/ e.pc \in {"user", "handler", "issue"} /\ Become(c, a, Answered(e, "ok"))
              \/ e.pc \in {"user", "handler", "issue", "resetTx"} /\ Become(c, a, Answered(e, "denied"))
              \/ e.pc = "handler" /\ e.op = "revokeOthers" /\ Become(c, a, [e EXCEPT !.pc = "lookup", !.phase = 2])
              \/ e.pc = "handler" /\ e.op = "login" /\ Become(c, a, [e EXCEPT !.pc = "create"])
              \/ e.pc = "handler" /\ Become(c, a, [e EXCEPT !.pc = "issue"])
              \/ e.pc = "handler" /\ e.op = "reset" /\ \E k \in Links : ToReset(c, a, e, k)
              \/ e.pc = "handler" /\ e.op # "revokeOthers" /\ Become(c, a, [e EXCEPT !.pc = "revList"])
              \/ e.pc = "resetTx" /\ Become(c, a, [e EXCEPT !.pc = "revList"])
<1>1. row' = row /\ cache' = cache /\ now' = now /\ disturbed' = disturbed
  BY Zenon DEF PlainStep, GuardUser, HandleRead, RevokeOthers, Login, AdminUpdate, IssueDrop, ResetFails, ResetCommit,
               IssueAdd, ResetRead, Steady
<1>2. CASE GuardUser(c, a)
  <2>1. e.pc = "user"
    BY <1>2, Zenon DEF GuardUser, At
  <2>2. CASE active
    BY <1>1, <1>2, <2>1, <2>2, Zenon DEF GuardUser
  <2>3. CASE ~active
    BY <1>1, <1>2, <2>1, <2>3 DEF GuardUser
  <2> QED
    BY <2>2, <2>3
<1>3. CASE HandleRead(c, a)
  BY <1>1, <1>3 DEF HandleRead, At
<1>4. CASE RevokeOthers(c, a)
  BY <1>1, <1>4, Zenon DEF RevokeOthers, At
<1>5. CASE Login(c, a)
  BY <1>1, <1>5 DEF Login, At, Goto
<1>6. CASE AdminUpdate(c, a)
  <2>1. e.pc = "handler" /\ e.op \in {"disable", "enable", "reassign"}
    BY <1>6, Zenon DEF AdminUpdate, At
  <2>2. Become(c, a, IF e.op = "enable" THEN Answered(e, "ok") ELSE [e EXCEPT !.pc = "revList"])
    BY <1>6, Zenon DEF AdminUpdate
  <2>3. CASE e.op = "enable"
    BY <1>1, <2>1, <2>2, <2>3
  <2>4. CASE e.op # "enable"
    <3>1. e.op # "revokeOthers"
      BY <2>1
    <3> QED
      BY <1>1, <2>1, <2>2, <2>4, <3>1
  <2> QED
    BY <2>3, <2>4
<1>7. CASE IssueDrop(c, a)
  BY <1>1, <1>7 DEF IssueDrop, At, Goto
<1>8. CASE ResetCommit(c, a)
  BY <1>1, <1>8 DEF ResetCommit, At, Goto
<1>8a. CASE ResetFails(c, a)
  BY <1>1, <1>8a DEF ResetFails, At
<1>9. ASSUME NEW k \in Links, IssueAdd(c, a, k)
      PROVE  e.pc = "issue" /\ Become(c, a, Answered(e, "ok"))
  BY <1>9, Zenon DEF IssueAdd, At
<1>10. ASSUME NEW k \in Links, ResetRead(c, a, k)
       PROVE  /\ e.pc = "handler" /\ e.op = "reset"
              /\ \/ ToReset(c, a, e, k)
                 \/ Become(c, a, Answered(e, "denied"))
  BY <1>10, Zenon DEF ResetRead, At, ToReset
<1>11. CASE \E k \in Links : IssueAdd(c, a, k) \/ ResetRead(c, a, k)
  BY <1>1, <1>9, <1>10, <1>11
<1> QED
  BY <1>2, <1>3, <1>4, <1>5, <1>6, <1>7, <1>8, <1>8a, <1>11 DEF PlainStep

LEMMA PlainStore ==
    ASSUME SessionInv, StoreInv, NEW c \in Calls, NEW a \in Attempts, PlainStep(c, a)
    PROVE  StoreInv'
<1> DEFINE e == exec[c][a]
<1>1. SessionTypeOK /\ e \in Exec /\ ExecOK(e) /\ OnItsWay(e)
  BY ExecTyped DEF SessionInv, CallSound, StoreInv
<1>2. PICK n \in Exec : Become(c, a, n) /\ ExecOK(n) /\ n.op = e.op
  BY NextExec DEF Step, PlainStep
<1>3. /\ row' = row /\ cache' = cache /\ now' = now /\ disturbed' = disturbed
      /\ \/ e.pc = "user" /\ Become(c, a, [e EXCEPT !.pc = "handler"])
         \/ e.pc \in {"user", "handler", "issue"} /\ Become(c, a, Answered(e, "ok"))
         \/ e.pc \in {"user", "handler", "issue", "resetTx"} /\ Become(c, a, Answered(e, "denied"))
         \/ e.pc = "handler" /\ e.op = "revokeOthers" /\ Become(c, a, [e EXCEPT !.pc = "lookup", !.phase = 2])
         \/ e.pc = "handler" /\ Become(c, a, [e EXCEPT !.pc = "create"])
         \/ e.pc = "handler" /\ Become(c, a, [e EXCEPT !.pc = "issue"])
         \/ e.pc = "handler" /\ e.op = "reset" /\ \E k \in Links : ToReset(c, a, e, k)
         \/ e.pc = "handler" /\ e.op # "revokeOthers" /\ Become(c, a, [e EXCEPT !.pc = "revList"])
         \/ e.pc = "resetTx" /\ Become(c, a, [e EXCEPT !.pc = "revList"])
  BY <1>1, PlainShape
<1>4. /\ e.pc \in {"user", "handler", "issue", "resetTx"}
      /\ n.tok = e.tok /\ n.cookie = e.cookie
      /\ n.pc \in {"lookup", "handler", "create", "issue", "resetTx", "revList", "answer"}
      /\ n.pc = "handler" => e.pc = "user"
      /\ n.pc = "lookup" => e.pc = "handler"
      /\ n.pc = "revList" => n.phase = e.phase /\ e.pc # "issue" /\ (e.pc = "resetTx" \/ n.op # "revokeOthers")
      /\ n.pc = "resetTx" => n.op = "reset"
  <2>1. ASSUME NEW p \in {"handler", "create", "issue", "revList"}, Become(c, a, [e EXCEPT !.pc = p])
        PROVE  n.pc = p /\ n.tok = e.tok /\ n.cookie = e.cookie /\ n.phase = e.phase
    <3>1. n = [e EXCEPT !.pc = p]
      BY <1>1, <1>2, <2>1, Became, Zenon
    <3> QED
      BY <1>1, <3>1 DEF Exec
  <2>2. ASSUME NEW ans \in {"ok", "denied"}, Become(c, a, Answered(e, ans))
        PROVE  n.pc = "answer" /\ n.tok = e.tok /\ n.cookie = e.cookie
    <3>1. n = Answered(e, ans)
      BY <1>1, <1>2, <2>2, Became, Zenon
    <3> QED
      BY <1>1, <3>1, AnsweredOK
  <2>3. ASSUME Become(c, a, [e EXCEPT !.pc = "lookup", !.phase = 2])
        PROVE  n.pc = "lookup" /\ n.tok = e.tok /\ n.cookie = e.cookie
    <3>1. n = [e EXCEPT !.pc = "lookup", !.phase = 2]
      BY <1>1, <1>2, <2>3, Became, Zenon
    <3> QED
      BY <1>1, <3>1 DEF Exec
  <2>3a. ASSUME NEW k \in Links, ToReset(c, a, e, k)
         PROVE  n.pc = "resetTx" /\ n.tok = e.tok /\ n.cookie = e.cookie
    <3>1. n = [e EXCEPT !.pc = "resetTx", !.found = {k}]
      BY <1>1, <1>2, <2>3a, Became, Zenon DEF ToReset
    <3> QED
      BY <1>1, <3>1 DEF Exec
  <2> HIDE DEF e
  <2>4. CASE e.pc = "user" /\ Become(c, a, [e EXCEPT !.pc = "handler"])
    BY <2>1, <2>4
  <2>5. CASE e.pc \in {"user", "handler", "issue"} /\ Become(c, a, Answered(e, "ok"))
    BY <2>2, <2>5
  <2>6. CASE e.pc \in {"user", "handler", "issue", "resetTx"} /\ Become(c, a, Answered(e, "denied"))
    BY <2>2, <2>6
  <2>7. CASE e.pc = "handler" /\ Become(c, a, [e EXCEPT !.pc = "lookup", !.phase = 2])
    BY <2>3, <2>7
  <2>8. CASE e.pc = "handler" /\ Become(c, a, [e EXCEPT !.pc = "create"])
    BY <2>1, <2>8
  <2>9. CASE e.pc = "handler" /\ Become(c, a, [e EXCEPT !.pc = "issue"])
    BY <2>1, <2>9
  <2>10. CASE e.pc = "handler" /\ e.op = "reset" /\ \E k \in Links : ToReset(c, a, e, k)
    BY <1>2, <2>3a, <2>10 DEF e
  <2>11. CASE e.pc = "handler" /\ e.op # "revokeOthers" /\ Become(c, a, [e EXCEPT !.pc = "revList"])
    BY <1>2, <2>1, <2>11 DEF e
  <2>12. CASE e.pc = "resetTx" /\ Become(c, a, [e EXCEPT !.pc = "revList"])
    BY <2>1, <2>12
  <2> QED
    BY <1>3, <2>4, <2>5, <2>6, <2>7, <2>8, <2>9, <2>10, <2>11, <2>12 DEF e
<1>5. OnItsWay(n)
  <2>1. e.pc = "resetTx" => n.op # "revokeOthers"
    BY <1>1, <1>2 DEF OnItsWay
  <2> QED
    BY <1>4, <2>1 DEF OnItsWay
<1>6. ASSUME NEW s \in Sids, s \in SidOf(e), Fits(e, s, row[s], cache, now)
      PROVE  Kept(n, s, row[s], cache, now)
  <2>1. Even(s, row[s], cache) /\ FindsAgain(e, s, row[s], now)
    BY <1>4, <1>6 DEF Fits
  <2>2. n.pc = "revList" => n.phase = 1
    BY <1>1, <1>4 DEF ExecOK
  <2>3. FindsAgain(n, s, row[s], now)
    <3>1. e.cookie = NoToken /\ e.pc \in {"user", "handler"} => Current(e, s, row[s], now)
      BY <1>6, <2>1 DEF FindsAgain
    <3>2. Current(e, s, row[s], now) => Current(n, s, row[s], now)
      BY <1>4 DEF Current
    <3>3. n.cookie = NoToken /\ n.pc \in {"handler", "lookup"} => Current(n, s, row[s], now)
      BY <1>4, <3>1, <3>2
    <3> HIDE DEF e
    <3> QED
      BY <1>4, <2>2, <3>3 DEF FindsAgain
  <2> QED
    BY <1>4, <2>1, <2>3, PlainKept
<1>7. e.pc \notin {"idle", "answer", "revCache"} /\ n.pc # "revCache" /\ n.tok = e.tok
  BY <1>4
<1> HIDE DEF e
<1> QED
  BY <1>2, <1>3, <1>5, <1>6, <1>7, GuardStep DEF e

LEMMA RevokeCacheStore ==
    ASSUME SessionInv, StoreInv, NEW c \in Calls, NEW a \in Attempts, NEW t \in Tokens, RevokeCache(c, a, t)
    PROVE  StoreInv'
<1> DEFINE e == exec[c][a]
           rest == e.todo \ {t}
<1>1. SessionTypeOK /\ e \in Exec /\ ExecOK(e) /\ OnItsWay(e) /\ cache \in [Tokens -> Entry]
  BY ExecTyped DEF SessionInv, CallSound, StoreInv, SessionTypeOK
<1>2. /\ e.pc = "revCache" /\ t \in e.todo /\ row' = row /\ now' = now /\ disturbed' = disturbed
      /\ cache' = [cache EXCEPT ![t] = NoEntry]
  BY Zenon DEF RevokeCache, At, Steady
<1>3. PICK n \in Exec : Become(c, a, n) /\ ExecOK(n) /\ n.op = e.op
  BY NextExec DEF Step
<1>4. n = [e EXCEPT !.todo = rest]
  <2>1. Become(c, a, [e EXCEPT !.todo = e.todo \ {t}])
    BY Zenon DEF RevokeCache
  <2> QED
    BY <1>1, <1>3, <2>1, Became, Zenon
<1> HIDE DEF rest
<1>5. /\ n.pc = "revCache" /\ n.tok = e.tok /\ n.cookie = e.cookie /\ n.phase = e.phase /\ n.keep = e.keep
      /\ n.todo = rest /\ n.op = e.op
  BY <1>1, <1>2, <1>4 DEF Exec
<1>6. \A s \in Sids : Uses(n, s) <=> Uses(e, s)
  BY <1>2, <1>5 DEF Uses, SidOf
<1>7. /\ cache'[t] = NoEntry
      /\ \A s \in Sids : \A g \in 0..MaxGen : <<s, g>> # t => cache'[<<s, g>>] = cache[<<s, g>>]
  BY <1>1, <1>2, OwnToken
<1>8. \A s \in Sids : \A g \in 0..MaxGen :
          cache'[<<s, g>>].in => <<s, g>> # t /\ cache'[<<s, g>>] = cache[<<s, g>>]
  BY <1>7 DEF NoEntry
<1>9. ASSUME NEW s \in Sids, Uses(e, s), Fits(e, s, row[s], cache, now)
      PROVE  Kept(n, s, row[s], cache', now)
  <2>1. Fits(e, s, row[s], cache', now)
    BY <1>1, <1>8, <1>9, SameStore
  <2>2. GuardKnows(n, s, row[s], cache', now)
    BY <1>5 DEF GuardKnows
  <2>3. FindsAgain(n, s, row[s], now)
    <3>1. FindsAgain(e, s, row[s], now)
      BY <2>1, Zenon DEF Fits
    <3> QED
      BY <1>2, <1>5, <3>1 DEF FindsAgain, SidOf
  <2>4. RevokerKnows(n, s, cache')
    <3>1. RevokerKnows(e, s, cache)
      BY <1>9, Zenon DEF Fits
    <3>2. ASSUME s \notin e.keep, NEW g \in 0..MaxGen, cache'[<<s, g>>].in PROVE <<s, g>> \in rest
      <4>1. <<s, g>> # t /\ cache[<<s, g>>].in
        BY <1>8, <3>2
      <4>2. <<s, g>> \in e.todo
        BY <1>2, <3>1, <3>2, <4>1, Zenon DEF RevokerKnows
      <4> QED
        BY <4>1, <4>2 DEF rest
    <3> QED
      BY <1>5, <3>2, Zenon DEF RevokerKnows
  <2>5. Even(s, row[s], cache')
    BY <1>2, <2>1 DEF Fits
  <2> QED
    BY <2>2, <2>3, <2>4, <2>5, Zenon DEF Kept, Fits
<1>10. ASSUME NEW s \in Sids, ~Uses(e, s), NEW g \in 0..MaxGen PROVE cache'[<<s, g>>] = cache[<<s, g>>]
  <2>1. s \in e.keep
    BY <1>2, <1>10 DEF Uses
  <2>2. t[1] # s
    BY <1>1, <1>2, <2>1 DEF OnItsWay
  <2>3. <<s, g>> # t
    BY <2>2
  <2> QED
    BY <1>7, <2>3
<1>11. OnItsWay(n)
  BY <1>1, <1>2, <1>5 DEF OnItsWay, rest
<1>12. \A s \in Sids \ disturbed :
          IF Uses(e, s)
          THEN Fits(e, s, row[s], cache, now) => Kept(n, s, row'[s], cache', now)
          ELSE row'[s] = row[s] /\ \A g \in 0..MaxGen : cache'[<<s, g>>] = cache[<<s, g>>]
  BY <1>2, <1>9, <1>10
<1> HIDE DEF e
<1> QED
  BY <1>1, <1>2, <1>3, <1>6, <1>11, <1>12, OwnStep DEF e

LEMMA RevokeRowsStore ==
    ASSUME SessionInv, StoreInv, NEW c \in Calls, NEW a \in Attempts, RevokeRows(c, a)
    PROVE  StoreInv'
<1> DEFINE e == exec[c][a]
<1>1. SessionTypeOK /\ e \in Exec /\ ExecOK(e)
  BY ExecTyped DEF SessionInv, CallSound
<1>2. /\ e.pc = "revCache" /\ e.todo = {} /\ cache' = cache /\ now' = now /\ disturbed' = disturbed
      /\ Revoke(Sids \ e.keep)
  BY Zenon DEF RevokeRows, At, Steady
<1>3. PICK n \in Exec : Become(c, a, n) /\ ExecOK(n) /\ n.op = e.op
  BY NextExec DEF Step
<1>4. n = Answered(e, "ok")
  BY <1>1, <1>3, Became, Zenon DEF RevokeRows
<1>5. n.pc = "answer"
  BY <1>1, <1>4, AnsweredOK
<1>6. \A s \in Sids : s \in e.keep => row'[s] = row[s]
  BY <1>1, <1>2, RevokedRow
<1>7. ASSUME NEW s \in Sids, Uses(e, s), Fits(e, s, row[s], cache, now)
      PROVE  Kept(n, s, row'[s], cache', now)
  <2>1. Even(s, row'[s], cache)
    <3>1. CASE s \in e.keep
      BY <1>2, <1>6, <1>7, <3>1 DEF Fits
    <3>2. CASE s \notin e.keep
      <4>1. Forgotten(s, cache)
        BY <1>2, <1>7, <3>2 DEF Fits, RevokerKnows, Forgotten
      <4> QED
        BY <4>1, ForgottenEven
    <3> QED
      BY <3>1, <3>2
  <2> QED
    BY <1>2, <1>5, <2>1 DEF Kept, Uses
<1>8. ASSUME NEW s \in Sids, ~Uses(e, s) PROVE row'[s] = row[s]
  BY <1>2, <1>6, <1>8 DEF Uses
<1>9. \A s \in Sids \ disturbed :
          IF Uses(e, s)
          THEN Fits(e, s, row[s], cache, now) => Kept(n, s, row'[s], cache', now)
          ELSE row'[s] = row[s] /\ \A g \in 0..MaxGen : cache'[<<s, g>>] = cache[<<s, g>>]
  BY <1>2, <1>7, <1>8
<1>10. OnItsWay(n) /\ \A s \in Sids : ~Uses(n, s)
  BY <1>5, WayOn DEF Uses
<1> HIDE DEF e
<1> QED
  BY <1>1, <1>2, <1>3, <1>9, <1>10, OwnStep DEF e

(* An execution that is over, or is cut off. *)
LEMMA LeaveStep ==
    ASSUME SessionTypeOK, StoreInv, NEW c \in Calls, NEW a \in Attempts, NEW n \in Exec, Become(c, a, n),
           n.pc \in {"answer", "idle"}, row' = row, cache' = cache, now' = now, disturbed \subseteq disturbed',
           exec[c][a].pc = "rotDel" => SidOf(exec[c][a]) \subseteq disturbed'
    PROVE  StoreInv'
<1> DEFINE e == exec[c][a]
<1>1. /\ exec'[c][a] = n
      /\ \A d \in Calls : \A b \in Attempts : ~(d = c /\ b = a) => exec'[d][b] = exec[d][b]
  BY DEF SessionTypeOK, Become
<1>2. OnItsWay(n) /\ \A s : ~Uses(n, s)
  BY WayOn DEF Uses
<1>3. ASSUME NEW s \in Sids \ disturbed'
      PROVE  \/ Apart(e, n, s)
             \/ Alone(exec', c, a, s) /\ Kept(n, s, row'[s], cache', now)
  <2>1. CASE Uses(e, s)
    <3>1. Alone(exec, c, a, s) /\ Fits(e, s, row[s], cache, now)
      BY <2>1, InHand
    <3>2. e.pc # "rotDel"
      BY <2>1 DEF Uses
    <3>3. Kept(n, s, row'[s], cache', now)
      BY <1>2, <3>1, <3>2 DEF Kept, Fits
    <3>4. Alone(exec', c, a, s)
      <4>1. ASSUME NEW d \in Calls, NEW b \in Attempts, Uses(exec'[d][b], s), ~(d = c /\ b = a)
            PROVE  FALSE
        <5>1. exec'[d][b] = exec[d][b]
          BY <1>1, <4>1, Zenon
        <5>2. Uses(exec[d][b], s)
          BY <4>1, <5>1
        <5> QED
          BY <3>1, <4>1, <5>2, Zenon DEF Alone
      <4> QED
        BY <4>1, Zenon DEF Alone
    <3> QED
      BY <3>3, <3>4
  <2>2. CASE ~Uses(e, s)
    BY <1>2, <2>2 DEF Apart
  <2> QED
    BY <2>1, <2>2
<1>4. \A d \in Calls : \A b \in Attempts : ~(d = c /\ b = a) =>
          exec'[d][b] = exec[d][b] \/ NotAtWork(exec[d][b], exec'[d][b])
  BY <1>1, Zenon
<1> QED
  BY <1>1, <1>2, <1>3, <1>4, LocalStep

LEMMA BrokenStore ==
    ASSUME SessionInv, StoreInv, NEW c \in Calls, NEW a \in Attempts, CacheDown(c, a) \/ Crash(c, a)
    PROVE  StoreInv'
<1> DEFINE e == exec[c][a]
<1>1. SessionTypeOK /\ e \in Exec /\ ExecOK(e)
  BY ExecTyped DEF SessionInv, CallSound
<1>2. /\ row' = row /\ cache' = cache /\ now' = now
      /\ disturbed' = disturbed \cup SidOf(e) \cup {t[1] : t \in e.todo}
  BY DEF CacheDown, Crash, store
<1>3. PICK n \in Exec : Become(c, a, n) /\ ExecOK(n) /\ n.op = e.op
  BY NextExec
<1>4. n.pc = "answer"
  <2>1. n = Answered(e, "down") \/ n = Answered(e, "broken")
    BY <1>1, <1>3, Became DEF CacheDown, Crash
  <2> QED
    BY <1>1, <2>1, AnsweredOK
<1>5. disturbed \subseteq disturbed' /\ SidOf(e) \subseteq disturbed'
  BY <1>2
<1> HIDE DEF e
<1> QED
  BY <1>1, <1>2, <1>3, <1>4, <1>5, LeaveStep DEF e

(* The steps that may bring an execution to a session: the session is not  *)
(* disturbed only if the execution is then alone there.                    *)
LEMMA JoinStep ==
    ASSUME SessionTypeOK, StoreInv, NEW c \in Calls, NEW a \in Attempts, NEW n \in Exec,
           exec' \in [Calls -> [Attempts -> Exec]], exec'[c][a] = n,
           \A d \in Calls : \A b \in Attempts : ~(d = c /\ b = a) =>
               exec'[d][b] = exec[d][b] \/ NotAtWork(exec[d][b], exec'[d][b]),
           cache' = cache, now' = now, disturbed \cup Shared(exec') \subseteq disturbed', OnItsWay(n),
           exec[c][a].pc # "rotDel",
           \A s \in Sids \ disturbed' :
               IF Uses(n, s)
               THEN Even(s, row[s], cache) /\ (Uses(exec[c][a], s) => Fits(exec[c][a], s, row[s], cache, now))
                        => Fits(n, s, row'[s], cache, now)
               ELSE row'[s] = row[s]
    PROVE  StoreInv'
<1> DEFINE e == exec[c][a]
<1>1. ASSUME NEW s \in Sids \ disturbed', NEW d \in Calls, NEW b \in Attempts, ~(d = c /\ b = a)
      PROVE  Uses(exec[d][b], s) <=> Uses(exec'[d][b], s)
  <2>1. CASE exec'[d][b] = exec[d][b]
    BY <2>1
  <2>2. CASE NotAtWork(exec[d][b], exec'[d][b])
    BY <2>2, NoExecOK DEF NotAtWork, Uses
  <2> QED
    BY <1>1, <2>1, <2>2
<1>2. ASSUME NEW s \in Sids \ disturbed', Uses(n, s)
      PROVE  Alone(exec', c, a, s) /\ Kept(n, s, row'[s], cache', now)
  <2>1. s \in Sids \ Shared(exec')
    OBVIOUS
  <2>2. Alone(exec', c, a, s)
    <3>1. ASSUME NEW d \in Calls, NEW b \in Attempts, Uses(exec'[d][b], s) PROVE d = c /\ b = a
      BY <1>2, <2>1, <3>1, NotShared
    <3> QED
      BY <3>1, Zenon DEF Alone
  <2>3. Alone(exec, c, a, s)
    BY <1>1, <2>2, Zenon DEF Alone
  <2>4. Even(s, row[s], cache)
    BY <2>3, Untouched
  <2>5. Uses(e, s) => Fits(e, s, row[s], cache, now)
    BY InHand
  <2>6. Fits(n, s, row'[s], cache, now)
    BY <1>2, <2>4, <2>5, Zenon
  <2> QED
    BY <1>2, <2>2, <2>6, Zenon DEF Kept
<1>3. ASSUME NEW s \in Sids \ disturbed', ~Uses(n, s), Uses(e, s)
      PROVE  Alone(exec', c, a, s) /\ Kept(n, s, row'[s], cache', now)
  <2>1. Alone(exec, c, a, s)
    BY <1>3, InHand
  <2>2. Even(s, row[s], cache)
    BY <2>1, Untouched
  <2>3. Alone(exec', c, a, s)
    BY <1>1, <2>1, Zenon DEF Alone
  <2>4. row'[s] = row[s]
    BY <1>3
  <2> QED
    BY <1>3, <2>2, <2>3, <2>4, Zenon DEF Kept
<1>4. ASSUME NEW s \in Sids \ disturbed', ~Uses(n, s), ~Uses(e, s)
      PROVE  Apart(e, n, s)
  BY <1>4 DEF Apart
<1>5. \A s \in Sids \ disturbed' :
          \/ Apart(exec[c][a], n, s)
          \/ Alone(exec', c, a, s) /\ Kept(n, s, row'[s], cache', now)
  BY <1>2, <1>3, <1>4
<1>6. disturbed \subseteq disturbed'
  OBVIOUS
<1> QED
  BY <1>5, <1>6, LocalStep

LEMMA BecomeTyped ==
    ASSUME SessionTypeOK, NEW c \in Calls, NEW a \in Attempts, NEW n \in Exec, Become(c, a, n)
    PROVE  /\ exec' \in [Calls -> [Attempts -> Exec]] /\ exec'[c][a] = n
           /\ \A d \in Calls : \A b \in Attempts : ~(d = c /\ b = a) =>
               exec'[d][b] = exec[d][b] \/ NotAtWork(exec[d][b], exec'[d][b])
BY DEF SessionTypeOK, Become

LEMMA RevokeOneStore ==
    ASSUME SessionInv, StoreInv, NEW c \in Calls, NEW a \in Attempts, NEW u \in Sids, RevokeOne(c, a, u)
    PROVE  StoreInv'
<1> DEFINE e == exec[c][a]
           D == {<<u, row[u].gen>>}
           K == Sids \ {u}
<1>1. SessionTypeOK /\ e \in Exec /\ ExecOK(e)
  BY ExecTyped DEF SessionInv, CallSound
<1>2. /\ e.pc = "handler" /\ e.op = "revokeOne" /\ row' = row /\ cache' = cache /\ now' = now
      /\ disturbed' = disturbed \cup Shared(exec')
      /\ exec' = [exec EXCEPT ![c][a] = IF row[u].st = "live"
                                        THEN [@ EXCEPT !.pc = "revCache", !.todo = D, !.keep = K]
                                        ELSE Answered(@, "ok")]
  BY Zenon DEF RevokeOne, At
<1>3. PICK n \in Exec : Become(c, a, n) /\ ExecOK(n) /\ n.op = e.op
  BY NextExec DEF Step
<1>4. /\ exec' \in [Calls -> [Attempts -> Exec]] /\ exec'[c][a] = n
      /\ \A d \in Calls : \A b \in Attempts : ~(d = c /\ b = a) =>
          exec'[d][b] = exec[d][b] \/ NotAtWork(exec[d][b], exec'[d][b])
  BY <1>1, <1>3, BecomeTyped
<1> HIDE DEF D, K
<1>5. n = IF row[u].st = "live" THEN [e EXCEPT !.pc = "revCache", !.todo = D, !.keep = K] ELSE Answered(e, "ok")
  BY <1>1, <1>2, <1>4 DEF SessionTypeOK
<1>6. CASE row[u].st # "live"
  <2>1. n.pc = "answer"
    BY <1>1, <1>5, <1>6, AnsweredOK
  <2>2. OnItsWay(n) /\ \A s \in Sids : ~Uses(n, s)
    BY <2>1, WayOn DEF Uses
  <2>3. e.pc # "rotDel"
    BY <1>2
  <2> HIDE DEF e
  <2> QED
    BY <1>1, <1>2, <1>4, <2>2, <2>3, JoinStep DEF e
<1>7. CASE row[u].st = "live"
  <2>1. n = [e EXCEPT !.pc = "revCache", !.todo = D, !.keep = K]
    BY <1>5, <1>7
  <2>2. n.pc = "revCache" /\ n.tok = e.tok /\ n.cookie = e.cookie /\ n.phase = e.phase /\ n.todo = D /\ n.keep = K
    BY <1>1, <2>1 DEF Exec
  <2>3. e.phase = 1
    BY <1>1, <1>2 DEF ExecOK
  <2>4. ASSUME NEW s \in Sids, Uses(n, s), Even(s, row[s], cache)
        PROVE  Fits(n, s, row[s], cache, now)
    <3>1. GuardKnows(n, s, row[s], cache, now)
      BY <2>2 DEF GuardKnows
    <3>2. RevokerKnows(n, s, cache)
      <4>1. CASE s = u
        BY <2>2, <2>4, <4>1 DEF RevokerKnows, Even, D
      <4>2. CASE s # u
        BY <2>2, <4>2 DEF RevokerKnows, K
      <4> QED
        BY <4>1, <4>2
    <3>3. FindsAgain(n, s, row[s], now)
      BY <2>2, <2>3 DEF FindsAgain
    <3> QED
      BY <2>4, <3>1, <3>2, <3>3, Zenon DEF Fits
  <2>5. OnItsWay(n)
    BY <1>2, <1>3, <2>2 DEF OnItsWay, D, K
  <2>6. e.pc # "rotDel"
    BY <1>2
  <2> HIDE DEF e
  <2> QED
    BY <1>1, <1>2, <1>4, <2>4, <2>5, <2>6, JoinStep DEF e
<1> QED
  BY <1>6, <1>7

LEMMA RevokeListStore ==
    ASSUME SessionInv, StoreInv, NEW c \in Calls, NEW a \in Attempts, RevokeList(c, a)
    PROVE  StoreInv'
<1> DEFINE e == exec[c][a]
           D == {<<s, row[s].gen>> : s \in {s \in Sids \ e.keep : row[s].st = "live"}}
<1>1. SessionTypeOK /\ e \in Exec /\ ExecOK(e) /\ OnItsWay(e)
  BY ExecTyped DEF SessionInv, CallSound, StoreInv
<1>2. /\ e.pc = "revList" /\ row' = row /\ cache' = cache /\ now' = now
      /\ disturbed' = disturbed \cup Shared(exec')
      /\ Become(c, a, [e EXCEPT !.pc = "revCache", !.todo = D])
  BY Zenon DEF RevokeList, At, Become
<1>3. PICK n \in Exec : Become(c, a, n) /\ ExecOK(n) /\ n.op = e.op
  BY NextExec DEF Step
<1>4. /\ exec' \in [Calls -> [Attempts -> Exec]] /\ exec'[c][a] = n
      /\ \A d \in Calls : \A b \in Attempts : ~(d = c /\ b = a) =>
          exec'[d][b] = exec[d][b] \/ NotAtWork(exec[d][b], exec'[d][b])
  BY <1>1, <1>3, BecomeTyped
<1>5. n = [e EXCEPT !.pc = "revCache", !.todo = D]
  BY <1>1, <1>2, <1>3, Became, Zenon
<1>6. \A s \in Sids : s \notin e.keep /\ row[s].st = "live" => <<s, row[s].gen>> \in D
  OBVIOUS
<1>7. \A t \in D : t[1] \notin e.keep
  OBVIOUS
<1> HIDE DEF D
<1>8. /\ n.pc = "revCache" /\ n.tok = e.tok /\ n.cookie = e.cookie /\ n.phase = e.phase /\ n.todo = D
      /\ n.keep = e.keep
  BY <1>1, <1>5 DEF Exec
<1>9. ASSUME NEW s \in Sids, Uses(n, s), Even(s, row[s], cache),
             Uses(e, s) => Fits(e, s, row[s], cache, now)
      PROVE  Fits(n, s, row[s], cache, now)
  <2>1. GuardKnows(n, s, row[s], cache, now)
    BY <1>8 DEF GuardKnows
  <2>2. RevokerKnows(n, s, cache)
    <3>1. ASSUME s \notin e.keep, NEW g \in 0..MaxGen, cache[<<s, g>>].in PROVE <<s, g>> \in D
      <4>1. row[s].st = "live" /\ row[s].gen = g
        BY <1>9, <3>1, Zenon DEF Even
      <4> QED
        BY <1>6, <3>1, <4>1
    <3> QED
      BY <1>8, <3>1, Zenon DEF RevokerKnows
  <2>3. FindsAgain(n, s, row[s], now)
    <3>1. ASSUME s \in SidOf(e), e.cookie = NoToken, e.phase = 2 PROVE s \in e.keep /\ row[s].st = "live"
      <4>1. Uses(e, s)
        BY <1>2, <3>1 DEF Uses
      <4> QED
        BY <1>2, <1>9, <3>1, <4>1 DEF Fits, FindsAgain
    <3>2. SidOf(n) = SidOf(e)
      BY <1>8 DEF SidOf
    <3> QED
      BY <1>8, <3>1, <3>2 DEF FindsAgain
  <2> QED
    BY <1>9, <2>1, <2>2, <2>3, Zenon DEF Fits
<1>10. OnItsWay(n)
  BY <1>1, <1>2, <1>3, <1>7, <1>8 DEF OnItsWay
<1>11. e.pc # "rotDel"
  BY <1>2
<1> HIDE DEF e
<1> QED
  BY <1>1, <1>2, <1>4, <1>9, <1>10, <1>11, JoinStep DEF e

LEMMA CreateSessionStore ==
    ASSUME SessionInv, StoreInv, NEW c \in Calls, NEW a \in Attempts, NEW u \in Sids, CreateSession(c, a, u)
    PROVE  StoreInv'
<1> DEFINE e == exec[c][a]
           r == [st |-> "live", gen |-> 0, created |-> now, active |-> now, expires |-> now + TTL]
           t == <<u, 0>>
           v == EntryOf(r)
<1>1. SessionTypeOK /\ e \in Exec /\ ExecOK(e)
  BY ExecTyped DEF SessionInv, CallSound
<1>2. /\ e.pc = "create" /\ row[u].st = "none" /\ row' = [row EXCEPT ![u] = r] /\ cache' = cache /\ now' = now
      /\ disturbed' = disturbed \cup Shared(exec')
      /\ exec' = [exec EXCEPT ![c][a] = [@ EXCEPT !.pc = "createCache", !.cookie = t, !.tok = t, !.rec = v]]
  BY Zenon DEF CreateSession, At
<1>3. PICK n \in Exec : Become(c, a, n) /\ ExecOK(n) /\ n.op = e.op
  BY NextExec DEF Step
<1>4. /\ exec' \in [Calls -> [Attempts -> Exec]] /\ exec'[c][a] = n
      /\ \A d \in Calls : \A b \in Attempts : ~(d = c /\ b = a) =>
          exec'[d][b] = exec[d][b] \/ NotAtWork(exec[d][b], exec'[d][b])
  BY <1>1, <1>3, BecomeTyped
<1>5. r.st = "live" /\ r.gen = 0
  OBVIOUS
<1>6. t \in Tokens /\ t # NoToken
  BY SessionAssumption DEF Tokens, NoToken
<1> HIDE DEF r, v
<1>7. n = [e EXCEPT !.pc = "createCache", !.cookie = t, !.tok = t, !.rec = v]
  <2> HIDE DEF t
  <2> QED
    BY <1>1, <1>2, <1>4 DEF SessionTypeOK
<1>8. n.pc = "createCache" /\ n.tok = t /\ n.cookie = t /\ n.rec = v
  <2> HIDE DEF t
  <2> QED
    BY <1>1, <1>7 DEF Exec
<1>9. row'[u] = r /\ \A s \in Sids \ {u} : row'[s] = row[s]
  BY <1>1, <1>2 DEF SessionTypeOK
<1>10. \A s \in Sids : Uses(n, s) => s = u
  BY <1>6, <1>8 DEF Uses, SidOf
<1>11. ASSUME NEW s \in Sids, Uses(n, s), Even(s, row[s], cache)
       PROVE  Fits(n, s, row'[s], cache, now)
  <2>1. s = u /\ row'[s] = r
    BY <1>9, <1>10, <1>11
  <2>2. Forgotten(s, cache)
    BY <1>2, <1>11, <2>1 DEF Even, Forgotten
  <2>3. GuardKnows(n, s, r, cache, now) /\ RevokerKnows(n, s, cache)
    BY <1>5, <1>8, <2>1, <2>2 DEF GuardKnows, RevokerKnows, v
  <2>4. FindsAgain(n, s, r, now)
    BY <1>6, <1>8 DEF FindsAgain
  <2>5. Even(s, r, cache)
    BY <2>2, ForgottenEven
  <2> QED
    BY <2>1, <2>3, <2>4, <2>5, Zenon DEF Fits
<1>12. \A s \in Sids : ~Uses(n, s) => row'[s] = row[s]
  <2>1. Uses(n, u)
    BY <1>6, <1>8 DEF Uses, SidOf
  <2> QED
    BY <1>9, <2>1
<1>13. OnItsWay(n)
  BY <1>6, <1>8 DEF OnItsWay
<1>14. e.pc # "rotDel"
  BY <1>2
<1> HIDE DEF e
<1> QED
  BY <1>1, <1>2, <1>4, <1>11, <1>12, <1>13, <1>14, JoinStep DEF e

(* Attempts that were not made yet have no execution. *)
Unsent == \A c \in Calls : \A a \in Attempts : a > call[c].attempt => exec[c][a].pc = "idle"

(* A new execution with a token starts at the guard, or to sign out. *)
LEMMA NewFits ==
    ASSUME NEW op \in AllOps, NEW tok \in Tokens \cup {NoToken}, op \notin Guarded \cup {"logout"} => tok = NoToken,
           NEW n, n = NewExec(op, tok)
    PROVE  /\ OnItsWay(n)
           /\ \A s \in Sids : \A r, h, t : Even(s, r, h) /\ Uses(n, s) => Fits(n, s, r, h, t)
<1> DEFINE pc == IF op \in Guarded \cup {"logout"} THEN "lookup" ELSE "handler"
<1>1. pc \in {"lookup", "handler"} /\ (pc = "handler" => tok = NoToken)
  OBVIOUS
<1> DEFINE m == [pc |-> pc, op |-> op, tok |-> tok, rec |-> NoEntry, phase |-> 1,
                 cookie |-> NoToken, todo |-> {}, keep |-> {}, found |-> {}, ans |-> ""]
<1>2. n = m
  BY DEF NewExec
<1> HIDE DEF pc
<1>3. n.pc = pc /\ n.tok = tok /\ n.phase = 1
  <2>1. m.pc = pc /\ m.tok = tok /\ m.phase = 1
    OBVIOUS
  <2> HIDE DEF m
  <2> QED
    BY <1>2, <2>1
<1> HIDE DEF m
<1>4. OnItsWay(n)
  BY <1>1, <1>3, WayOn
<1>5. ASSUME NEW s \in Sids, NEW r, NEW h, NEW t, Even(s, r, h), Uses(n, s)
      PROVE  Fits(n, s, r, h, t)
  <2>1. s \in SidOf(n)
    BY <1>1, <1>3, <1>5 DEF Uses
  <2>2. n.pc = "lookup"
    BY <1>1, <1>3, <2>1 DEF SidOf
  <2>3. FindsAgain(n, s, r, t)
    BY <1>3, <2>2 DEF FindsAgain
  <2>4. Kept(n, s, r, h, t)
    BY <1>5, <2>2, <2>3, PlainKept
  <2> QED
    BY <1>5, <2>4, Zenon DEF Kept
<1> QED
  BY <1>4, <1>5

LEMMA SendStore ==
    ASSUME SessionInv, StoreInv, NEW c \in Calls, NEW op \in AllOps, Send(c, op)
    PROVE  StoreInv'
<1> DEFINE tok == IF op \in Guarded \cup {"logout"} THEN jar ELSE NoToken
           n   == NewExec(op, tok)
<1>1. SessionTypeOK /\ tok \in Tokens \cup {NoToken} /\ 0 \in Attempts
  BY FirstAttempt DEF SessionInv, SessionTypeOK
<1>2. n \in Exec
  BY <1>1, NewExecOK
<1>3. /\ OnItsWay(n)
      /\ \A s \in Sids : \A r, h, t : Even(s, r, h) /\ Uses(n, s) => Fits(n, s, r, h, t)
  <2>1. op \notin Guarded \cup {"logout"} => tok = NoToken
    OBVIOUS
  <2> HIDE DEF tok
  <2> QED
    BY <1>1, <2>1, NewFits
<1>4. /\ exec' = [exec EXCEPT ![c][0] = n] /\ disturbed' = disturbed \cup Shared(exec')
      /\ row' = row /\ cache' = cache /\ now' = now /\ exec[c][0].pc = "idle"
  BY <1>1, Zenon DEF Send, store
<1> HIDE DEF n
<1>5. /\ exec' \in [Calls -> [Attempts -> Exec]] /\ exec'[c][0] = n
      /\ \A d \in Calls : \A b \in Attempts : ~(d = c /\ b = 0) =>
          exec'[d][b] = exec[d][b] \/ NotAtWork(exec[d][b], exec'[d][b])
  BY <1>1, <1>2, <1>4, BecomeTyped DEF Become
<1>6. exec[c][0].pc # "rotDel"
  BY <1>4
<1>7. \A s \in Sids \ disturbed' :
          IF Uses(n, s)
          THEN Even(s, row[s], cache) /\ (Uses(exec[c][0], s) => Fits(exec[c][0], s, row[s], cache, now))
                   => Fits(n, s, row'[s], cache, now)
          ELSE row'[s] = row[s]
  BY <1>3, <1>4
<1>8. disturbed \cup Shared(exec') \subseteq disturbed'
  BY <1>4
<1> QED
  BY <1>1, <1>2, <1>3, <1>4, <1>5, <1>6, <1>7, <1>8, JoinStep

LEMMA AgainStore ==
    ASSUME SessionInv, StoreInv, Unsent, NEW c \in Calls, Again(c), UNCHANGED <<now, store>>
    PROVE  StoreInv'
<1>1. SessionTypeOK
  BY DEF SessionInv
<1>2. PICK a \in Attempts : \E n, l \in Exec :
               /\ a = call[c].attempt + 1 /\ a - 1 \in Attempts /\ a - 1 # a /\ call[c].op \in Reads
               /\ n = NewExec(call[c].op, call[c].tok) /\ ExecOK(n) /\ n.op = call[c].op
               /\ l = IF exec[c][a - 1].pc = "answer" THEN NoExec ELSE exec[c][a - 1]
               /\ exec' \in [Calls -> [Attempts -> Exec]] /\ call' \in [Calls -> Call]
               /\ \A b \in Attempts : exec'[c][b] = IF b = a - 1 THEN l ELSE IF b = a THEN n ELSE exec[c][b]
               /\ call'[c].op = call[c].op /\ call'[c].attempt = a /\ jar' = jar
               /\ \A d \in Calls \ {c} : exec'[d] = exec[d] /\ call'[d] = call[d]
  BY AgainShape
<1>3. PICK n \in Exec, l \in Exec :
               /\ a = call[c].attempt + 1 /\ a - 1 \in Attempts /\ a - 1 # a /\ call[c].op \in Reads
               /\ n = NewExec(call[c].op, call[c].tok)
               /\ l = IF exec[c][a - 1].pc = "answer" THEN NoExec ELSE exec[c][a - 1]
               /\ exec' \in [Calls -> [Attempts -> Exec]]
               /\ \A b \in Attempts : exec'[c][b] = IF b = a - 1 THEN l ELSE IF b = a THEN n ELSE exec[c][b]
               /\ \A d \in Calls \ {c} : exec'[d] = exec[d]
  BY <1>2
<1>4. call[c] \in Call /\ call[c].op \in AllOps /\ call[c].tok \in Tokens \cup {NoToken} /\ call[c].op \in Guarded
      /\ call[c].attempt \in Int
  BY <1>1, <1>3, SessionAssumption DEF SessionTypeOK, Call, Guarded, Attempts
<1>5. /\ OnItsWay(n)
      /\ \A s \in Sids : \A r, h, t : Even(s, r, h) /\ Uses(n, s) => Fits(n, s, r, h, t)
  BY <1>3, <1>4, NewFits
<1>6. /\ row' = row /\ cache' = cache /\ now' = now
      /\ disturbed \cup Shared(exec') \subseteq disturbed'
  BY DEF store, Again
<1>7. exec[c][a].pc # "rotDel"
  <2>1. a > call[c].attempt
    BY <1>3, <1>4
  <2> QED
    BY <2>1 DEF Unsent
<1>8. /\ exec'[c][a] = n
      /\ \A d \in Calls : \A b \in Attempts : ~(d = c /\ b = a) =>
          exec'[d][b] = exec[d][b] \/ NotAtWork(exec[d][b], exec'[d][b])
  BY <1>3 DEF NotAtWork
<1>9. \A s \in Sids \ disturbed' :
          IF Uses(n, s)
          THEN Even(s, row[s], cache) /\ (Uses(exec[c][a], s) => Fits(exec[c][a], s, row[s], cache, now))
                   => Fits(n, s, row'[s], cache, now)
          ELSE row'[s] = row[s]
  BY <1>5, <1>6
<1> QED
  BY <1>1, <1>3, <1>5, <1>6, <1>7, <1>8, <1>9, JoinStep

(* Nothing is at work on the rows; the cache may lose entries. *)
LEMMA ThinStore ==
    ASSUME SessionTypeOK, StoreInv, exec' = exec, row' = row, now' = now, disturbed \subseteq disturbed',
           \A s \in Sids : \A g \in 0..MaxGen : cache'[<<s, g>>].in => cache'[<<s, g>>] = cache[<<s, g>>]
    PROVE  StoreInv'
<1>1. ASSUME NEW s \in Sids \ disturbed' PROVE StoreAgrees(s)'
  <2>1. StoreAgrees(s)
    BY DEF StoreInv
  <2>2. OneUser(s)'
    BY <2>1 DEF StoreAgrees, OneUser
  <2>3. ASSUME NEW c \in Calls, NEW a \in Attempts, Uses(exec[c][a], s)
        PROVE  Fits(exec[c][a], s, row[s], cache', now)
    <3>1. Fits(exec[c][a], s, row[s], cache, now) /\ exec[c][a] \in Exec
      BY <2>1, <2>3, Zenon DEF StoreAgrees, SessionTypeOK
    <3> QED
      BY <2>3, <3>1, SameStore
  <2>4. Even(s, row[s], cache) => Even(s, row[s], cache')
    BY DEF Even
  <2>5. \A c \in Calls : \A a \in Attempts : Uses(exec'[c][a], s) => Fits(exec'[c][a], s, row'[s], cache', now')
    BY <2>3
  <2>6. \/ Even(s, row'[s], cache')
        \/ \E c \in Calls : \E a \in Attempts : exec'[c][a].pc = "rotDel" /\ Uses(exec'[c][a], s)
    BY <2>1, <2>4 DEF StoreAgrees
  <2> QED
    BY <2>2, <2>5, <2>6 DEF StoreAgrees
<1>2. \A c \in Calls : \A a \in Attempts : OnItsWay(exec'[c][a])
  BY DEF StoreInv
<1> QED
  BY <1>1, <1>2 DEF StoreInv

(* The clock moves only when nothing is at work. *)
LEMMA TickStore == ASSUME StoreInv, Tick PROVE StoreInv'
<1>1. /\ exec' = exec /\ row' = row /\ cache' = cache /\ disturbed' = disturbed
      /\ \A c \in Calls : \A a \in Attempts : exec[c][a].pc \in {"idle", "answer"}
  BY DEF Tick, store, Running
<1>2. \A c \in Calls : \A a \in Attempts : \A s : ~Uses(exec[c][a], s)
  BY <1>1 DEF Uses
<1>3. ASSUME NEW s \in Sids \ disturbed' PROVE StoreAgrees(s)'
  <2>1. Even(s, row[s], cache)
    BY <1>1, <1>2 DEF StoreInv, StoreAgrees
  <2> QED
    BY <1>1, <1>2, <2>1 DEF StoreAgrees, OneUser
<1>4. \A c \in Calls : \A a \in Attempts : OnItsWay(exec'[c][a])
  BY <1>1 DEF StoreInv
<1> QED
  BY <1>3, <1>4 DEF StoreInv

LEMMA StepStore ==
    ASSUME SessionInv, StoreInv, NEW c \in Calls, NEW a \in Attempts, Step(c, a)
    PROVE  StoreInv'
<1>1. CASE Lookup(c, a)
  BY <1>1, LookupStore
<1>2. CASE ExpireCache(c, a)
  BY <1>2, ExpireCacheStore
<1>3. CASE ExpireRow(c, a)
  BY <1>3, ExpireRowStore
<1>4. CASE DbRead(c, a)
  BY <1>4, DbReadStore
<1>5. CASE Fill(c, a)
  BY <1>5, FillStore
<1>6. CASE Refresh(c, a)
  BY <1>6, RefreshStore
<1>7. CASE RotDel(c, a)
  BY <1>7, RotDelStore
<1>8. CASE RotSet(c, a)
  BY <1>8, RotSetStore
<1>9. CASE Touch(c, a)
  BY <1>9, TouchStore
<1>10. CASE RevokeList(c, a)
  BY <1>10, RevokeListStore
<1>11. CASE RevokeRows(c, a)
  BY <1>11, RevokeRowsStore
<1>12. CASE LogoutCache(c, a)
  BY <1>12, LogoutCacheStore
<1>13. CASE LogoutRow(c, a)
  BY <1>13, LogoutRowStore
<1>14. CASE CreateCache(c, a)
  BY <1>14, CreateCacheStore
<1>15. CASE \E s \in Sids : RevokeOne(c, a, s)
  BY <1>15, RevokeOneStore
<1>16. CASE \E s \in Sids : CreateSession(c, a, s)
  BY <1>16, CreateSessionStore
<1>17. CASE \E t \in Tokens : RevokeCache(c, a, t)
  BY <1>17, RevokeCacheStore
<1>18. CASE PlainStep(c, a)
  BY <1>18, PlainStore
<1> QED
  BY <1>1, <1>2, <1>3, <1>4, <1>5, <1>6, <1>7, <1>8, <1>9, <1>10, <1>11, <1>12, <1>13, <1>14, <1>15, <1>16,
     <1>17, <1>18, Zenon DEF Step, PlainStep

-----------------------------------------------------------------------------
(* An answer that the proxy takes, or that nobody waits for. *)
LEMMA TakenStore ==
    ASSUME SessionInv, StoreInv, NEW c \in Calls, NEW a \in Attempts, exec[c][a].pc = "answer",
           Become(c, a, NoExec), row' = row, cache' = cache, now' = now, disturbed \subseteq disturbed'
    PROVE  StoreInv'
<1>1. SessionTypeOK /\ NoExec \in Exec /\ NoExec.pc = "idle"
  BY NoExecOK DEF SessionInv
<1> HIDE DEF NoExec
<1>2. exec[c][a].pc # "rotDel" /\ NoExec.pc \in {"answer", "idle"}
  BY <1>1
<1> QED
  BY <1>1, <1>2, LeaveStep

LEMMA ProxyStore ==
    ASSUME SessionInv, StoreInv, Unsent, NEW c \in Calls, Timeout(c) \/ Answer(c)
    PROVE  StoreInv'
<1>1. SessionTypeOK /\ call[c].attempt \in Attempts
  BY DEF SessionInv, SessionTypeOK, Call
<1>2. UNCHANGED <<now, store>> /\ row' = row /\ cache' = cache /\ now' = now
  BY DEF Timeout, Answer, store
<1>3. CASE Again(c)
  BY <1>2, <1>3, AgainStore
<1>4. CASE GiveUp(c) /\ UNCHANGED exec
  <2>1. disturbed \subseteq disturbed'
    BY <1>4 DEF GiveUp
  <2> QED
    BY <1>1, <1>2, <1>4, <2>1, ThinStore
<1>5. CASE Answer(c) /\ ~Again(c)
  <2> DEFINE a == call[c].attempt
             e == exec[c][a]
  <2>1. /\ e.pc = "answer" /\ Become(c, a, NoExec)
        /\ disturbed' = IF e.ans \in {"down", "broken"} \/ (e.op = "page" /\ e.cookie # NoToken)
                        THEN disturbed \cup SidOf(e) ELSE disturbed
    BY <1>5 DEF Answer, Become
  <2>2. disturbed \subseteq disturbed'
    BY <2>1
  <2> QED
    BY <1>1, <1>2, <2>1, <2>2, TakenStore
<1> QED
  BY <1>3, <1>4, <1>5 DEF Timeout

-----------------------------------------------------------------------------
(* Attempts that were not made have no execution. *)

LEMMA UnsentNext == SessionInv /\ Unsent /\ [Next]_vars => Unsent'
<1> SUFFICES ASSUME SessionInv, Unsent, [Next]_vars PROVE Unsent'
  OBVIOUS
<1>1. /\ SessionTypeOK /\ exec \in [Calls -> [Attempts -> Exec]] /\ call \in [Calls -> Call]
      /\ NoExec.pc = "idle"
  BY NoExecOK DEF SessionInv, SessionTypeOK
<1>2. ASSUME NEW c \in Calls, NEW op, Send(c, op) PROVE Unsent'
  <2> DEFINE n == NewExec(op, IF op \in Guarded \cup {"logout"} THEN jar ELSE NoToken)
             r == [st |-> "waiting", op |-> op, tok |-> IF op \in Guarded \cup {"logout"} THEN jar ELSE NoToken,
                   attempt |-> 0]
  <2>1. /\ exec' = [exec EXCEPT ![c][0] = n] /\ call' = [call EXCEPT ![c] = r] /\ r.attempt = 0
        /\ \A a \in Attempts : exec[c][a].pc = "idle"
    BY <1>2 DEF Send
  <2> HIDE DEF n, r
  <2>2. \A a \in Attempts : a > 0 => a # 0
    BY SessionAssumption DEF Attempts
  <2> QED
    BY <1>1, <2>1, <2>2 DEF Unsent
<1>3. ASSUME NEW c \in Calls, Again(c) PROVE Unsent'
  <2>1. PICK a \in Attempts : \E n, l \in Exec :
               /\ a = call[c].attempt + 1
               /\ \A b \in Attempts : exec'[c][b] = IF b = a - 1 THEN l ELSE IF b = a THEN n ELSE exec[c][b]
               /\ call'[c].attempt = a
               /\ \A d \in Calls \ {c} : exec'[d] = exec[d] /\ call'[d] = call[d]
    BY <1>3, AgainShape
  <2>2. \A b \in Attempts : b > a => b # a - 1 /\ b # a /\ b > call[c].attempt
    <3>1. Attempts \subseteq Int /\ call[c].attempt \in Int
      BY <1>1, SessionAssumption DEF Attempts, Call
    <3> QED
      BY <2>1, <3>1
  <2> QED
    BY <2>1, <2>2 DEF Unsent
<1>4. ASSUME \A c \in Calls : call'[c].attempt = call[c].attempt,
             \A c \in Calls : \A a \in Attempts : exec'[c][a] = exec[c][a] \/ exec'[c][a].pc = "idle"
      PROVE  Unsent'
  BY <1>4 DEF Unsent
<1>5. ASSUME NEW c \in Calls, Timeout(c) \/ Answer(c), ~Again(c) PROVE Unsent'
  <2>1. call' = [call EXCEPT ![c].st = "idle"]
    BY <1>5 DEF Timeout, GiveUp, Answer
  <2>2. exec' = exec \/ exec' = [exec EXCEPT ![c][call[c].attempt] = NoExec]
    BY <1>5 DEF Timeout, Answer
  <2>3. \A d \in Calls : call'[d].attempt = call[d].attempt
    BY <1>1, <2>1 DEF Call
  <2>4. \A d \in Calls : \A a \in Attempts : exec'[d][a] = exec[d][a] \/ exec'[d][a].pc = "idle"
    BY <1>1, <2>2
  <2> QED
    BY <1>4, <2>3, <2>4
<1>6. ASSUME NEW c \in Calls, NEW a \in Attempts, Discard(c, a) PROVE Unsent'
  <2>1. call' = call /\ exec' = [exec EXCEPT ![c][a] = NoExec]
    BY <1>6 DEF Discard, Become
  <2>2. \A d \in Calls : \A b \in Attempts : exec'[d][b] = exec[d][b] \/ exec'[d][b].pc = "idle"
    BY <1>1, <2>1
  <2> QED
    BY <1>4, <2>1, <2>2
<1>7. ASSUME NEW c \in Calls, NEW a \in Attempts, Step(c, a) \/ CacheDown(c, a) \/ Crash(c, a) PROVE Unsent'
  <2>1. ExecOK(exec[c][a])
    BY DEF SessionInv, CallSound
  <2>2. Moves(c, a)
    BY <1>1, <1>7, <2>1, StepMoves
  <2>3. PICK f : exec' = [exec EXCEPT ![c][a] = f]
    BY <2>2, Zenon DEF Moves
  <2>4. call' = call /\ exec[c][a].pc # "idle"
    BY <2>2 DEF Moves
  <2>5. \A d \in Calls : \A b \in Attempts : exec'[d][b] = exec[d][b] \/ (d = c /\ b = a)
    BY <1>1, <2>3
  <2> QED
    BY <2>4, <2>5 DEF Unsent
<1>8. CASE UNCHANGED <<call, exec>>
  BY <1>8 DEF Unsent
<1>9. ASSUME NEW c \in Calls,
             \/ LoadPage(c) \/ Query(c) \/ SignIn(c) \/ SignOut(c) \/ ResetPassword(c)
             \/ RevokeSession(c) \/ RevokeAllOthers(c) \/ EditUser(c) \/ GenerateResetLink(c)
      PROVE  Unsent'
  BY <1>2, <1>9 DEF LoadPage, Query, SignIn, SignOut, ResetPassword, RevokeSession, RevokeAllOthers, EditUser,
                    GenerateResetLink
<1>10. ASSUME NEW t \in Tokens, Evict(t) PROVE Unsent'
  BY <1>8, <1>10 DEF Evict
<1>11. CASE Tick \/ UNCHANGED vars
  BY <1>8, <1>11 DEF Tick, vars
<1> QED
  BY <1>3, <1>5, <1>6, <1>7, <1>9, <1>10, <1>11 DEF Next

(* The whole invariant of sign-in. *)
SignInInv == SessionInv /\ StoreInv /\ Unsent

LEMMA SignInInit == Init => SignInInv
<1> SUFFICES ASSUME Init PROVE SignInInv
  OBVIOUS
<1>1. /\ \A c \in Calls : \A a \in Attempts : exec[c][a] = NoExec
      /\ \A t \in Tokens : cache[t] = NoEntry
  BY DEF Init
<1>2. \A c \in Calls : \A a \in Attempts : \A s : ~Uses(exec[c][a], s)
  BY <1>1, NoExecOK DEF Uses
<1>3. \A s \in Sids : \A g \in 0..MaxGen : ~cache[<<s, g>>].in
  <2>1. ~NoEntry.in
    BY DEF NoEntry
  <2>2. \A s \in Sids : \A g \in 0..MaxGen : cache[<<s, g>>] = NoEntry
    BY <1>1, TokenMade
  <2> QED
    BY <2>1, <2>2
<1>4. OnItsWay(NoExec)
  BY NoExecOK DEF OnItsWay, NoExec, NewExec
<1>5. StoreInv
  <2>1. \A s \in Sids : StoreAgrees(s)
    BY <1>2, <1>3 DEF StoreAgrees, OneUser, Even
  <2> HIDE DEF NoExec
  <2> QED
    BY <1>1, <1>4, <2>1 DEF StoreInv
<1>6. Unsent
  BY <1>1, NoExecOK DEF Unsent
<1> QED
  BY <1>5, <1>6, SessionInitInv DEF SignInInv

LEMMA SignInNext == SignInInv /\ [Next]_vars => SignInInv'
<1> SUFFICES ASSUME SessionInv, StoreInv, Unsent, [Next]_vars PROVE StoreInv'
  BY SessionNextInv, UnsentNext DEF SignInInv
<1>1. SessionTypeOK
  BY DEF SessionInv
<1>2. ASSUME NEW c \in Calls,
             \/ LoadPage(c) \/ Query(c) \/ SignIn(c) \/ SignOut(c) \/ ResetPassword(c)
             \/ RevokeSession(c) \/ RevokeAllOthers(c) \/ EditUser(c) \/ GenerateResetLink(c)
      PROVE  StoreInv'
  <2>1. PICK op \in AllOps : Send(c, op)
    BY <1>2 DEF LoadPage, Query, SignIn, SignOut, ResetPassword, RevokeSession, RevokeAllOthers, EditUser,
                GenerateResetLink, AllOps, Guarded, Reads
  <2> QED
    BY <2>1, SendStore
<1>3. ASSUME NEW c \in Calls, Timeout(c) \/ Answer(c) PROVE StoreInv'
  BY <1>3, ProxyStore
<1>4. ASSUME NEW c \in Calls, NEW a \in Attempts, Step(c, a) PROVE StoreInv'
  BY <1>4, StepStore
<1>5. ASSUME NEW c \in Calls, NEW a \in Attempts, Discard(c, a) PROVE StoreInv'
  BY <1>5, TakenStore DEF Discard, store
<1>6. ASSUME NEW c \in Calls, NEW a \in Attempts, CacheDown(c, a) \/ Crash(c, a) PROVE StoreInv'
  BY <1>6, BrokenStore
<1>7. ASSUME NEW t \in Tokens, Evict(t) PROVE StoreInv'
  <2>1. cache' = [cache EXCEPT ![t] = NoEntry] /\ exec' = exec /\ row' = row /\ now' = now /\ disturbed' = disturbed
    BY <1>7 DEF Evict
  <2>2. cache \in [Tokens -> Entry] /\ ~NoEntry.in
    BY <1>1 DEF SessionTypeOK, NoEntry
  <2>3. \A u \in Tokens : cache'[u].in => cache'[u] = cache[u]
    BY <2>1, <2>2
  <2>4. \A s \in Sids : \A g \in 0..MaxGen : cache'[<<s, g>>].in => cache'[<<s, g>>] = cache[<<s, g>>]
    BY <2>3, TokenMade
  <2> QED
    BY <1>1, <2>1, <2>4, ThinStore
<1>8. CASE Tick
  BY <1>8, TickStore
<1>9. CASE UNCHANGED vars
  BY <1>1, <1>9, ThinStore DEF vars, store
<1> QED
  BY <1>2, <1>3, <1>4, <1>5, <1>6, <1>7, <1>8, <1>9 DEF Next

(* A session that was signed out, revoked or expired has no cache entry    *)
(* once nothing is at work on it: whatever order deleteCache, the rows,    *)
(* the rotation and writeCache came in, unless requests overlapped or broke*)
(* off.                                                                    *)
THEOREM ForgottenWhenRevoked == Spec => []RevokedIsForgotten
<1>1. SignInInv => RevokedIsForgotten
  <2> SUFFICES ASSUME SignInInv, NEW s \in Sids \ disturbed, row[s].st = "revoked", ~InUse(s)
               PROVE  Forgotten(s, cache)
    BY DEF RevokedIsForgotten, Forgotten
  <2>1. StoreAgrees(s) /\ \A c \in Calls : \A a \in Attempts : OnItsWay(exec[c][a])
    BY DEF SignInInv, StoreInv
  <2>2. ASSUME NEW c \in Calls, NEW a \in Attempts, exec[c][a].pc = "rotDel", Uses(exec[c][a], s)
        PROVE  FALSE
    <3>1. s \in SidOf(exec[c][a]) /\ Running(c, a)
      BY <2>2 DEF Uses, Running
    <3> QED
      BY <3>1 DEF InUse
  <2>3. Even(s, row[s], cache)
    BY <2>1, <2>2 DEF StoreAgrees
  <2> QED
    BY <2>3 DEF Even, Forgotten
<1> QED
  BY <1>1, SignInInit, SignInNext, PTL DEF Spec

(* Who does not work on a session leaves the status of its row alone. *)
LEMMA StatusKept ==
    ASSUME SessionTypeOK, NEW c \in Calls, NEW a \in Attempts, NEW e, e = exec[c][a], ExecOK(e), Step(c, a),
           NEW s \in Sids, row[s].st # "none", s \notin SidOf(e) \/ e.pc = "revCache",
           e.pc = "revCache" => s \in e.keep
    PROVE  row'[s].st = row[s].st
<1>1. CASE UNCHANGED row
  BY <1>1
<1>2. CASE ExpireRow(c, a)
  <2>1. e.pc = "expireRow" /\ Revoke(SidOf(e))
    BY <1>2 DEF ExpireRow, At
  <2> QED
    BY <2>1, RevokedRow
<1>3. CASE LogoutRow(c, a)
  <2> DEFINE S == {u \in SidOf(e) : row[u].gen = e.tok[2]}
  <2>1. e.pc = "outRow" /\ Revoke(S)
    BY <1>3 DEF LogoutRow, At
  <2>2. s \notin S
    BY <2>1
  <2> HIDE DEF S
  <2> QED
    BY <2>1, <2>2, RevokedRow
<1>4. CASE RevokeRows(c, a)
  <2>1. e.pc = "revCache" /\ Revoke(Sids \ e.keep)
    BY <1>4 DEF RevokeRows, At
  <2> QED
    BY <2>1, RevokedRow
<1>5. CASE Refresh(c, a)
  <2> DEFINE u == e.tok[1]
  <2>1. e.pc = "refresh"
    BY <1>5, Zenon DEF Refresh, At
  <2>2. e.tok \in Tokens
    BY <2>1, Zenon DEF ExecOK, GuardSteps
  <2>3. u \in Sids
    BY <2>2, TokenParts, Zenon
  <2>4. \/ row' = row
        \/ /\ row[u].gen < MaxGen
           /\ row' = [row EXCEPT ![u].gen = @ + 1, ![u].expires = now + TTL, ![u].active = now]
    BY <1>5, Zenon DEF Refresh
  <2> HIDE DEF u
  <2>5. CASE row' = row
    BY <2>5
  <2>6. CASE /\ row[u].gen < MaxGen
             /\ row' = [row EXCEPT ![u].gen = @ + 1, ![u].expires = now + TTL, ![u].active = now]
    BY <2>3, <2>6, Rotated
  <2> QED
    BY <2>4, <2>5, <2>6
<1>6. CASE Touch(c, a)
  <2>1. row' = [row EXCEPT ![e.tok[1]].active = now]
    BY <1>6 DEF Touch
  <2>2. row[s] \in SessionRow
    BY DEF SessionTypeOK
  <2> QED
    BY <2>1, <2>2 DEF SessionTypeOK, SessionRow
<1>7. CASE \E u \in Sids : CreateSession(c, a, u)
  <2>1. PICK u \in Sids : CreateSession(c, a, u)
    BY <1>7
  <2>2. u # s /\ \E r : row' = [row EXCEPT ![u] = r]
    BY <2>1, Zenon DEF CreateSession
  <2> QED
    BY <2>2 DEF SessionTypeOK
<1>8. CASE \/ Lookup(c, a) \/ ExpireCache(c, a) \/ DbRead(c, a) \/ Fill(c, a) \/ RotDel(c, a)
           \/ RotSet(c, a) \/ GuardUser(c, a) \/ HandleRead(c, a) \/ RevokeOthers(c, a)
           \/ RevokeList(c, a) \/ LogoutCache(c, a) \/ Login(c, a) \/ CreateCache(c, a)
           \/ AdminUpdate(c, a) \/ IssueDrop(c, a) \/ ResetFails(c, a) \/ ResetCommit(c, a)
           \/ \E u \in Sids : RevokeOne(c, a, u)
           \/ \E t \in Tokens : RevokeCache(c, a, t)
           \/ \E k \in Links : IssueAdd(c, a, k) \/ ResetRead(c, a, k)
  <2>1. UNCHANGED row
    BY <1>8, Zenon DEF Lookup, ExpireCache, DbRead, Fill, RotDel, RotSet, GuardUser, HandleRead, RevokeOthers,
         RevokeList, LogoutCache, Login, CreateCache, AdminUpdate, IssueDrop, ResetFails, ResetCommit, RevokeOne,
         RevokeCache, IssueAdd, ResetRead
  <2> QED
    BY <1>1, <2>1
<1> QED
  BY <1>2, <1>3, <1>4, <1>5, <1>6, <1>7, <1>8, Zenon DEF Step

(* Revoke-all with keepCurrent never revokes the session that asked for it *)
(* when the guard did not rotate its token and nothing else was at work on *)
(* it: findValidSession still finds it the second time.                    *)
THEOREM CurrentSurvives == Spec => CurrentIsKept
<1> DEFINE Asks(c, a, s) == /\ exec[c][a].op = "revokeOthers"
                            /\ exec[c][a].pc = "revCache"
                            /\ exec[c][a].cookie = NoToken
                            /\ s \in SidOf(exec[c][a])
<1>1. ASSUME SignInInv, NEW c \in Calls, NEW a \in Attempts, NEW s \in Sids \ disturbed, Asks(c, a, s)
      PROVE  s \in exec[c][a].keep /\ row[s].st = "live" /\ Alone(exec, c, a, s)
  <2>1. Uses(exec[c][a], s)
    BY <1>1 DEF Uses
  <2>2. Alone(exec, c, a, s) /\ Fits(exec[c][a], s, row[s], cache, now)
    BY <1>1, <2>1, InHand DEF SignInInv
  <2>3. exec[c][a].phase = 2
    BY <1>1 DEF SignInInv, StoreInv, OnItsWay
  <2>4. FindsAgain(exec[c][a], s, row[s], now)
    BY <2>2, Zenon DEF Fits
  <2> QED
    BY <1>1, <2>2, <2>3, <2>4 DEF FindsAgain
<1>2. ASSUME SignInInv, [Next]_vars, NEW c \in Calls, NEW a \in Attempts, NEW s \in Sids \ disturbed, Asks(c, a, s)
      PROVE  row'[s].st = row[s].st
  <2>1. s \in exec[c][a].keep /\ row[s].st = "live" /\ Alone(exec, c, a, s) /\ exec[c][a].pc = "revCache"
    BY <1>1, <1>2
  <2>2. SessionTypeOK /\ \A d \in Calls : \A b \in Attempts : ExecOK(exec[d][b])
    BY <1>2 DEF SignInInv, SessionInv, CallSound
  <2> HIDE DEF Asks
  <2>3. ASSUME NEW d \in Calls, NEW b \in Attempts, Step(d, b) PROVE row'[s].st = row[s].st
    <3> DEFINE e == exec[d][b]
    <3>1. e.pc \notin {"idle", "answer"}
      BY <2>2, <2>3, StepMoves DEF Moves
    <3>2. d = c /\ b = a => (e.pc = "revCache" /\ s \in e.keep)
      BY <2>1
    <3>3. ~(d = c /\ b = a) => ~Uses(e, s)
      BY <2>1, Zenon DEF Alone
    <3>4. (s \notin SidOf(e) \/ e.pc = "revCache") /\ (e.pc = "revCache" => s \in e.keep)
      BY <3>1, <3>2, <3>3 DEF Uses
    <3>5. ExecOK(e) /\ row[s].st # "none"
      BY <2>1, <2>2
    <3> QED
      BY <2>2, <2>3, <3>4, <3>5, StatusKept
  <2>4. ASSUME row' = row PROVE row'[s].st = row[s].st
    BY <2>4
  <2>5. ASSUME NEW d \in Calls,
               \/ LoadPage(d) \/ Query(d) \/ SignIn(d) \/ SignOut(d) \/ ResetPassword(d)
               \/ RevokeSession(d) \/ RevokeAllOthers(d) \/ EditUser(d) \/ GenerateResetLink(d)
               \/ Timeout(d) \/ Answer(d)
        PROVE  row' = row
    BY <2>5, Zenon DEF LoadPage, Query, SignIn, SignOut, ResetPassword, RevokeSession, RevokeAllOthers, EditUser,
         GenerateResetLink, Timeout, Answer, Send, store
  <2>6. ASSUME NEW d \in Calls, NEW b \in Attempts, Discard(d, b) \/ CacheDown(d, b) \/ Crash(d, b)
        PROVE  row' = row
    BY <2>6, Zenon DEF Discard, CacheDown, Crash, store
  <2>7. (\E t \in Tokens : Evict(t)) \/ Tick \/ UNCHANGED vars => row' = row
    BY DEF Evict, Tick, vars, store
  <2> QED
    BY <1>2, <2>3, <2>4, <2>5, <2>6, <2>7 DEF Next
<1>3. SignInInv /\ [Next]_vars =>
          [\A c \in Calls, a \in Attempts, s \in Sids \ disturbed :
              /\ exec[c][a].op = "revokeOthers"
              /\ exec[c][a].pc = "revCache"
              /\ exec[c][a].cookie = NoToken
              /\ exec'[c][a].ans = "ok"
              /\ s \in SidOf(exec[c][a])
              => row'[s].st = row[s].st]_vars
  BY <1>2
<1>4. Spec => []SignInInv
  BY SignInInit, SignInNext, PTL DEF Spec
<1> QED
  BY <1>3, <1>4, PTL DEF Spec, CurrentIsKept

-----------------------------------------------------------------------------
(* The browser's cookie                                                    *)
(*                                                                         *)
(* A rotation changes the row long before the browser has the new token.   *)
(* On the way the new token is in one place only, the execution that made  *)
(* it, so nobody can rotate the session again; and the execution is given  *)
(* up only at the price of a disturbed session.                            *)

(* No token is ahead of its row. *)
Behind(t) == t \in Tokens => row[t[1]].st # "none" /\ t[2] <= row[t[1]].gen

TokensBehind ==
    /\ Behind(jar)
    /\ \A c \in Calls : Behind(call[c].tok)
    /\ \A c \in Calls : \A a \in Attempts : Behind(exec[c][a].tok) /\ Behind(exec[c][a].cookie)

(* The guard's first look at a session. *)
Looking == {"lookup", "expireCache", "expireRow", "dbRead", "fill", "refresh"}

(* An execution and the tokens it works with. *)
Bears(e) ==
    /\ e.pc = "idle" => e.tok = NoToken /\ e.cookie = NoToken
    /\ e.cookie \in Tokens => e.tok \in Tokens /\ e.cookie[1] = e.tok[1]
    /\ e.pc \in Looking /\ e.phase = 1 => e.cookie = NoToken
    /\ e.pc \in Looking => e.op \in Guarded \cup {"logout"}
    /\ e.pc = "refresh" => e.op # "logout"
    /\ e.pc \in {"outCache", "outRow"} => e.op = "logout"
    /\ e.pc \in {"create", "createCache"} => e.op = "login"
    /\ e.pc = "answer" => e.ans \in {"ok", "denied", "down", "broken"}

(* A guarded execution has the token of its call, and is waited for unless *)
(* the session is disturbed.                                               *)
WaitedFor(c, a) ==
    exec[c][a].pc # "idle" /\ exec[c][a].op \in Guarded =>
        /\ exec[c][a].tok = call[c].tok
        /\ (call[c].st = "waiting" /\ call[c].attempt = a) \/ SidOf(exec[c][a]) \subseteq disturbed

(* The new token of s is with execution a of call c and nowhere else. *)
SoleBearer(c, a, s) ==
    /\ exec[c][a].cookie = <<s, row[s].gen>>
    /\ jar # exec[c][a].cookie
    /\ \A d \in Calls : call[d].tok # exec[c][a].cookie
    /\ \A d \in Calls : \A b \in Attempts : ~(d = c /\ b = a) =>
           exec[d][b].tok # exec[c][a].cookie /\ exec[d][b].cookie # exec[c][a].cookie

JarAgrees(s) ==
    /\ jar \in Tokens /\ jar[1] = s =>
           \/ jar[2] = row[s].gen
           \/ \E c \in Calls : \E a \in Attempts :
                  exec[c][a].op \in Guarded /\ exec[c][a].cookie = <<s, row[s].gen>>
    /\ \A c \in Calls : \A a \in Attempts :
           exec[c][a].cookie \in Tokens /\ exec[c][a].cookie[1] = s => SoleBearer(c, a, s)

CookieInv ==
    /\ TokensBehind
    /\ \A c \in Calls : \A a \in Attempts : Bears(exec[c][a]) /\ WaitedFor(c, a)
    /\ \A s \in Sids \ disturbed : JarAgrees(s)

(* Tokens that a new execution may start with, and a new call. *)
Loose(t) == t = NoToken \/ t = jar \/ \E c \in Calls : t = call[c].tok

Gone(c, a) == exec[c][a].cookie \in Tokens /\ exec'[c][a].cookie \notin Tokens

(* No token is made: they stay where they are, or one goes to the browser, *)
(* and what the browser has goes into new calls and executions.            *)
TokensMove ==
    /\ \A s \in Sids : row'[s].gen = row[s].gen /\ (row[s].st # "none" => row'[s].st # "none")
    /\ disturbed \subseteq disturbed'
    /\ \/ Loose(jar') /\ jar' \in {NoToken, jar}
       \/ \E c \in Calls : \E a \in Attempts : Gone(c, a) /\ jar' = exec[c][a].cookie
    /\ \A c \in Calls : Loose(call'[c].tok)
    /\ \A c \in Calls : \A a \in Attempts :
           /\ exec'[c][a].tok = exec[c][a].tok \/ Loose(exec'[c][a].tok)
           /\ \/ exec'[c][a].cookie = exec[c][a].cookie /\ exec'[c][a].op = exec[c][a].op
              \/ exec'[c][a].cookie \notin Tokens
           /\ Gone(c, a) /\ exec[c][a].op \in Guarded =>
                  exec[c][a].cookie[1] \in disturbed' \/ jar' = exec[c][a].cookie
    /\ \A c \in Calls : \A a \in Attempts : (Bears(exec[c][a]) /\ WaitedFor(c, a))'

LEMMA TokensMoveInv ==
    ASSUME SessionTypeOK, CookieInv, TokensMove
    PROVE  CookieInv'
<1>1. ASSUME NEW t, Behind(t) PROVE Behind(t)'
  <2>1. ASSUME t \in Tokens PROVE t[1] \in Sids
    BY <2>1, TokenParts
  <2> QED
    BY <1>1, <2>1 DEF Behind, TokensMove
<1>2. Behind(NoToken) /\ NoToken \notin Tokens
  BY DEF Behind, NoToken, Tokens
<1>3. ASSUME NEW t, Loose(t) PROVE Behind(t)
  BY <1>2, <1>3 DEF Loose, CookieInv, TokensBehind
<1>4. ASSUME NEW t, t \notin Tokens PROVE Behind(t)
  BY <1>4 DEF Behind
<1>5. TokensBehind'
  <2>1. Behind(jar')
    BY <1>3 DEF TokensMove, CookieInv, TokensBehind
  <2>2. \A c \in Calls : Behind(call'[c].tok)
    BY <1>3 DEF TokensMove
  <2>3. \A c \in Calls : \A a \in Attempts : Behind(exec'[c][a].tok) /\ Behind(exec'[c][a].cookie)
    BY <1>3, <1>4 DEF TokensMove, CookieInv, TokensBehind
  <2> QED
    BY <1>1, <2>1, <2>2, <2>3 DEF TokensBehind
<1>6. ASSUME NEW s \in Sids \ disturbed' PROVE JarAgrees(s)'
  <2>1. s \notin disturbed /\ row'[s].gen = row[s].gen /\ JarAgrees(s)
    BY DEF TokensMove, CookieInv
  <2> DEFINE x == <<s, row[s].gen>>
  <2>2. x \in Tokens /\ x[1] = s /\ x # NoToken
    BY TokenMade, TokenParts DEF SessionTypeOK, SessionRow, NoToken
  <2>3. \A c \in Calls : \A a \in Attempts :
            exec[c][a].cookie \in Tokens /\ exec[c][a].cookie[1] = s =>
                /\ exec[c][a].cookie = x /\ jar # x
                /\ \A d \in Calls : call[d].tok # x
                /\ \A d \in Calls : \A b \in Attempts : ~(d = c /\ b = a) =>
                       exec[d][b].tok # x /\ exec[d][b].cookie # x
    BY <2>1 DEF JarAgrees, SoleBearer
  <2>4. jar \in Tokens /\ jar[1] = s =>
            jar[2] = row[s].gen \/ \E c \in Calls : \E a \in Attempts : exec[c][a].op \in Guarded /\ exec[c][a].cookie = x
    BY <2>1 DEF JarAgrees
  <2>5. x[2] = row[s].gen
    OBVIOUS
  <2>6. <<s, row'[s].gen>> = x
    BY <2>1
  <2> HIDE DEF x
  <2>7. ASSUME jar' \in Tokens, jar'[1] = s
        PROVE  \/ jar'[2] = row'[s].gen
               \/ \E c \in Calls : \E a \in Attempts : exec'[c][a].op \in Guarded /\ exec'[c][a].cookie = x
    <3>1. CASE \E c \in Calls : \E a \in Attempts : Gone(c, a) /\ jar' = exec[c][a].cookie
      BY <2>1, <2>3, <2>5, <2>7, <3>1 DEF Gone
    <3>2. CASE jar' = jar
      <4>1. CASE jar[2] = row[s].gen
        BY <2>1, <3>2, <4>1
      <4>2. CASE \E c \in Calls : \E a \in Attempts : exec[c][a].op \in Guarded /\ exec[c][a].cookie = x
        <5>1. PICK c \in Calls, a \in Attempts : exec[c][a].op \in Guarded /\ exec[c][a].cookie = x
          BY <4>2
        <5>2. CASE exec'[c][a].cookie = x /\ exec'[c][a].op = exec[c][a].op
          BY <5>1, <5>2
        <5>3. CASE exec'[c][a].cookie \notin Tokens
          <6>1. x[1] \in disturbed' \/ jar' = x
            BY <2>2, <5>1, <5>3 DEF Gone, TokensMove
          <6> QED
            BY <2>1, <2>2, <2>5, <6>1
        <5> QED
          BY <5>1, <5>2, <5>3 DEF TokensMove
      <4> QED
        BY <2>4, <2>7, <3>2, <4>1, <4>2
    <3>3. jar' # NoToken
      BY <1>2, <2>7
    <3> QED
      BY <3>1, <3>2, <3>3 DEF TokensMove
  <2>8. ASSUME NEW c \in Calls, NEW a \in Attempts, exec'[c][a].cookie \in Tokens, exec'[c][a].cookie[1] = s
        PROVE  SoleBearer(c, a, s)'
    <3>1. exec'[c][a].cookie = exec[c][a].cookie
      BY <2>8 DEF TokensMove
    <3>2. /\ exec[c][a].cookie = x /\ jar # x
          /\ \A d \in Calls : call[d].tok # x
          /\ \A d \in Calls : \A b \in Attempts : ~(d = c /\ b = a) =>
                 exec[d][b].tok # x /\ exec[d][b].cookie # x
      BY <2>3, <2>8, <3>1
    <3>3. ~Loose(x)
      BY <2>2, <3>2 DEF Loose
    <3>4. jar' # x
      <4>1. CASE \E d \in Calls : \E b \in Attempts : Gone(d, b) /\ jar' = exec[d][b].cookie
        BY <2>2, <3>1, <3>2, <4>1 DEF Gone
      <4>2. CASE jar' \in {NoToken, jar}
        BY <2>2, <3>2, <4>2
      <4> QED
        BY <4>1, <4>2 DEF TokensMove
    <3>5. \A d \in Calls : call'[d].tok # x
      BY <3>3 DEF TokensMove
    <3>6. \A d \in Calls : \A b \in Attempts : ~(d = c /\ b = a) => exec'[d][b].tok # x /\ exec'[d][b].cookie # x
      BY <2>2, <3>2, <3>3 DEF TokensMove
    <3> QED
      BY <2>6, <3>1, <3>2, <3>4, <3>5, <3>6 DEF SoleBearer
  <2> QED
    BY <2>6, <2>7, <2>8 DEF JarAgrees
<1>7. \A c \in Calls : \A a \in Attempts : (Bears(exec[c][a]) /\ WaitedFor(c, a))'
  BY DEF TokensMove
<1> QED
  BY <1>5, <1>6, <1>7 DEF CookieInv

(* A token is made: for a session nobody has a token of, or for one whose  *)
(* current token is with the execution that makes the new one.             *)
LEMMA TokenMadeInv ==
    ASSUME SessionTypeOK, CookieInv, NEW c \in Calls, NEW a \in Attempts, NEW n, NEW u \in Sids, NEW x, x = <<u, row'[u].gen>>,
           exec'[c][a] = n,
           \A d \in Calls : \A b \in Attempts : ~(d = c /\ b = a) => exec'[d][b] = exec[d][b],
           row' \in [Sids -> SessionRow], \A s \in Sids \ {u} : row'[s] = row[s],
           row'[u].st # "none", jar' = jar, call' = call, disturbed \subseteq disturbed',
           n.cookie = x, n.tok = exec[c][a].tok \/ n.tok = n.cookie,
           exec[c][a].cookie \notin Tokens \/ exec[c][a].op \notin Guarded,
           \A t : Behind(t) /\ t \in Tokens /\ t[1] = u => t[2] < row'[u].gen /\ n.op \in Guarded,
           u \notin disturbed' => \A d \in Calls : \A b \in Attempts : ~(d = c /\ b = a) =>
               ~(exec[d][b].cookie \in Tokens /\ exec[d][b].cookie[1] = u),
           Bears(n), \A d \in Calls : \A b \in Attempts : WaitedFor(d, b)'
    PROVE  CookieInv'
<1>1. x \in Tokens /\ x[1] = u /\ x[2] = row'[u].gen /\ row'[u].gen \in Nat
  <2>1. row'[u].gen \in 0..MaxGen
    BY DEF SessionRow
  <2> QED
    BY <2>1, TokenMade, SessionAssumption
<1>2. \A t : Behind(t) /\ t \in Tokens /\ t[1] = u => t[2] < row'[u].gen /\ t # x /\ n.op \in Guarded
  BY <1>1
<1>3. n.cookie = x
  OBVIOUS
<1>4. ASSUME NEW t, Behind(t) PROVE Behind(t)'
  <2>1. SUFFICES ASSUME t \in Tokens PROVE row'[t[1]].st # "none" /\ t[2] <= row'[t[1]].gen
    BY DEF Behind
  <2>2. t[1] \in Sids /\ t[2] \in Int /\ row'[t[1]].gen \in Int
    BY <2>1, TokenParts, SessionAssumption DEF SessionRow
  <2>3. CASE t[1] = u
    <3>1. t[2] < row'[u].gen
      BY <1>2, <1>4, <2>1, <2>3
    <3> QED
      BY <2>2, <2>3, <3>1
  <2>4. CASE t[1] # u
    BY <1>4, <2>1, <2>2, <2>4 DEF Behind
  <2> QED
    BY <2>3, <2>4
<1>5. Behind(x)'
  BY <1>1 DEF Behind
<1>6. TokensBehind /\ \A d \in Calls : \A b \in Attempts : Bears(exec[d][b])
  BY DEF CookieInv
<1>7. TokensBehind'
  <2>1. Behind(jar)' /\ \A d \in Calls : Behind(call[d].tok)'
    BY <1>4, <1>6 DEF TokensBehind
  <2>2. ASSUME NEW d \in Calls, NEW b \in Attempts
        PROVE  Behind(exec[d][b].tok)' /\ Behind(exec[d][b].cookie)'
    <3>1. CASE d = c /\ b = a
      <4>1. Behind(n.cookie)'
        BY <1>3, <1>5
      <4>2. Behind(exec[c][a].tok)
        BY <1>6 DEF TokensBehind
      <4>3. n.tok = exec[c][a].tok => Behind(n.tok)'
        BY <1>4, <4>2
      <4> QED
        BY <3>1, <4>1, <4>3
    <3>2. CASE ~(d = c /\ b = a)
      <4>1. Behind(exec[d][b].tok) /\ Behind(exec[d][b].cookie)
        BY <1>6 DEF TokensBehind
      <4> QED
        BY <1>4, <3>2, <4>1
    <3> QED
      BY <3>1, <3>2
  <2> QED
    BY <2>1, <2>2 DEF TokensBehind
<1>8. ASSUME NEW s \in Sids \ disturbed', s # u PROVE JarAgrees(s)'
  <2>1. row'[s] = row[s] /\ JarAgrees(s) /\ s \notin disturbed
    BY <1>8 DEF CookieInv
  <2>2. ASSUME jar' \in Tokens, jar'[1] = s
        PROVE  \/ jar'[2] = row'[s].gen
               \/ \E d \in Calls : \E b \in Attempts :
                      exec'[d][b].op \in Guarded /\ exec'[d][b].cookie = <<s, row'[s].gen>>
    <3>1. CASE \E d \in Calls : \E b \in Attempts : exec[d][b].op \in Guarded /\ exec[d][b].cookie = <<s, row[s].gen>>
      <4>1. PICK d \in Calls, b \in Attempts : exec[d][b].op \in Guarded /\ exec[d][b].cookie = <<s, row[s].gen>>
        BY <3>1
      <4>2. <<s, row[s].gen>> \in Tokens
        BY TokenMade DEF SessionTypeOK, SessionRow
      <4>3. ~(d = c /\ b = a)
        BY <4>1, <4>2
      <4> QED
        BY <2>1, <4>1, <4>3
    <3> QED
      BY <2>1, <2>2, <3>1 DEF JarAgrees
  <2>3. ASSUME NEW d \in Calls, NEW b \in Attempts, exec'[d][b].cookie \in Tokens, exec'[d][b].cookie[1] = s
        PROVE  SoleBearer(d, b, s)'
    <3>1. ~(d = c /\ b = a)
      BY <1>1, <1>3, <1>8, <2>3
    <3>2. exec'[d][b] = exec[d][b] /\ SoleBearer(d, b, s)
      BY <2>1, <2>3, <3>1 DEF JarAgrees
    <3>3. exec[d][b].cookie # x
      BY <1>1, <1>8, <2>3, <3>2
    <3>4. n.tok # exec[d][b].cookie /\ n.cookie # exec[d][b].cookie
      BY <1>3, <3>1, <3>2, <3>3 DEF SoleBearer
    <3> QED
      BY <2>1, <3>2, <3>4 DEF SoleBearer
  <2> QED
    BY <2>2, <2>3 DEF JarAgrees
<1>9. ASSUME u \notin disturbed' PROVE JarAgrees(u)'
  <2>1. jar \in Tokens /\ jar[1] = u => n.op \in Guarded
    BY <1>2, <1>6 DEF TokensBehind
  <2>2. ASSUME NEW d \in Calls, NEW b \in Attempts, exec'[d][b].cookie \in Tokens, exec'[d][b].cookie[1] = u
        PROVE  d = c /\ b = a
    BY <1>9, <2>2
  <2>3. /\ jar # x /\ \A d \in Calls : call[d].tok # x
        /\ \A d \in Calls : \A b \in Attempts : exec[d][b].tok # x /\ exec[d][b].cookie # x
    BY <1>1, <1>2, <1>6 DEF TokensBehind
  <2>4. SoleBearer(c, a, u)'
    BY <1>3, <2>3 DEF SoleBearer
  <2>5. \A d \in Calls : \A b \in Attempts :
            exec'[d][b].cookie \in Tokens /\ exec'[d][b].cookie[1] = u => SoleBearer(d, b, u)'
    BY <2>2, <2>4
  <2>6. jar' \in Tokens /\ jar'[1] = u =>
            \E d \in Calls : \E b \in Attempts :
                exec'[d][b].op \in Guarded /\ exec'[d][b].cookie = <<u, row'[u].gen>>
    BY <2>1
  <2> QED
    BY <2>5, <2>6 DEF JarAgrees
<1>10. \A d \in Calls : \A b \in Attempts : Bears(exec'[d][b])
  BY <1>6
<1>11. \A s \in Sids \ disturbed' : JarAgrees(s)'
  BY <1>8, <1>9
<1> QED
  BY <1>7, <1>10, <1>11 DEF CookieInv

-----------------------------------------------------------------------------
(* An execution goes on with the tokens it has; to sign out it drops the   *)
(* cookie.                                                                 *)
Advances(e, n) ==
    /\ n.tok = e.tok /\ n.op = e.op /\ n.pc # "idle"
    /\ n.cookie = e.cookie \/ (n.cookie \notin Tokens /\ n.pc = "answer" /\ e.op = "logout")
    /\ n.pc \in Looking /\ n.phase = 1 => e.pc \in Looking /\ e.phase = 1
    /\ n.pc \in Looking => e.pc \in Looking \/ e.op \in Guarded
    /\ n.pc = "refresh" => e.op # "logout"
    /\ n.pc \in {"outCache", "outRow"} => e.op = "logout"
    /\ n.pc \in {"create", "createCache"} => e.op = "login"
    /\ n.pc = "answer" => n.ans \in {"ok", "denied", "down", "broken"}

(* refreshSessionIfNeeded issues a new token. *)
Rotates(e) == e.rec.expires - now < Threshold

(* The rows keep their tokens. *)
RowsKeepTokens == \A s \in Sids : row'[s].gen = row[s].gen /\ (row[s].st # "none" => row'[s].st # "none")

LEMMA AdvanceInv ==
    ASSUME SessionTypeOK, CookieInv, NEW c \in Calls, NEW a \in Attempts, NEW n, Become(c, a, n),
           Advances(exec[c][a], n), exec[c][a].pc # "idle", jar' = jar, call' = call,
           disturbed \subseteq disturbed', RowsKeepTokens
    PROVE  CookieInv'
<1> DEFINE e == exec[c][a]
<1>1. /\ exec'[c][a] = n
      /\ \A d \in Calls : \A b \in Attempts : ~(d = c /\ b = a) => exec'[d][b] = exec[d][b]
  BY DEF SessionTypeOK, Become
<1>2. \A d \in Calls : \A b \in Attempts : Bears(exec[d][b]) /\ WaitedFor(d, b)
  BY DEF CookieInv
<1>3. /\ n.tok = e.tok /\ n.op = e.op
      /\ n.cookie = e.cookie \/ (n.cookie \notin Tokens /\ e.op = "logout")
  BY DEF Advances
<1>4. Bears(n)
  BY <1>2 DEF Advances, Bears, Looking
<1>5. ASSUME NEW d \in Calls, NEW b \in Attempts PROVE (Bears(exec[d][b]) /\ WaitedFor(d, b))'
  <2>1. CASE d = c /\ b = a
    <3>1. Bears(exec'[d][b])
      BY <1>1, <1>4, <2>1
    <3>2. WaitedFor(d, b)'
      BY <1>1, <1>2, <1>3, <2>1 DEF WaitedFor, SidOf
    <3> QED
      BY <3>1, <3>2
  <2>2. CASE ~(d = c /\ b = a)
    <3>1. exec'[d][b] = exec[d][b]
      BY <1>1, <2>2
    <3> QED
      BY <1>2, <3>1 DEF WaitedFor
  <2> QED
    BY <2>1, <2>2
<1>6. "logout" \notin Guarded
  BY DEF Guarded, Reads
<1>7. ASSUME NEW d \in Calls, NEW b \in Attempts
      PROVE  /\ exec'[d][b].tok = exec[d][b].tok
             /\ \/ exec'[d][b].cookie = exec[d][b].cookie /\ exec'[d][b].op = exec[d][b].op
                \/ exec'[d][b].cookie \notin Tokens
             /\ ~(Gone(d, b) /\ exec[d][b].op \in Guarded)
  <2>1. CASE d = c /\ b = a
    BY <1>1, <1>3, <1>6, <2>1 DEF Gone
  <2>2. CASE ~(d = c /\ b = a)
    <3>1. exec'[d][b] = exec[d][b]
      BY <1>1, <2>2
    <3> QED
      BY <3>1 DEF Gone
  <2> QED
    BY <2>1, <2>2
<1>8. TokensMove
  BY <1>5, <1>7 DEF TokensMove, Loose, RowsKeepTokens
<1> QED
  BY <1>8, TokensMoveInv

-----------------------------------------------------------------------------
(* What the steps do to the tokens of an execution. *)

LEMMA AnswerAdvances ==
    ASSUME NEW e \in Exec, NEW ans \in {"ok", "denied", "down", "broken"}
    PROVE  Advances(e, Answered(e, ans))
<1> DEFINE n == Answered(e, ans)
<1>1. n.tok = e.tok /\ n.cookie = e.cookie /\ n.op = e.op /\ n.pc = "answer" /\ n.ans = ans
  BY DEF Answered, Exec
<1> HIDE DEF n
<1>2. Advances(e, n)
  BY <1>1 DEF Advances, Looking
<1> QED
  BY <1>2 DEF n

LEMMA MoveAdvances ==
    ASSUME NEW e, NEW n, n.tok = e.tok, n.cookie = e.cookie, n.op = e.op,
           n.pc \notin {"idle", "answer", "outCache", "outRow", "create", "createCache", "refresh"},
           n.pc \in Looking /\ n.phase = 1 => e.pc \in Looking /\ e.phase = 1,
           n.pc \in Looking => e.pc \in Looking \/ e.op \in Guarded
    PROVE  Advances(e, n)
BY DEF Advances

LEMMA FoundAdvances ==
    ASSUME NEW e \in Exec, ExecOK(e), e.pc \in Looking, NEW rec
    PROVE  Advances(e, Found(e, rec)) /\ Advances(e, NotFound(e))
<1>1. ASSUME NEW n, n = Found(e, rec) PROVE Advances(e, n)
  <2>1. /\ n.tok = e.tok /\ n.cookie = e.cookie /\ n.phase = e.phase /\ n.op = e.op
        /\ n.pc \in {"outCache", "revList", "refresh"} /\ (n.pc = "outCache" => n.op = "logout")
        /\ n.pc = "refresh" => n.op # "logout"
    BY <1>1, FoundIs
  <2> QED
    BY <2>1 DEF Advances
<1>2. ASSUME NEW n, n = NotFound(e) PROVE Advances(e, n)
  <2>1. /\ n.tok = e.tok /\ n.cookie = e.cookie /\ n.phase = e.phase /\ n.op = e.op
        /\ n.pc \in {"outCache", "revList", "answer"} /\ (n.pc = "outCache" => n.op = "logout")
        /\ n.pc = "answer" => n.ans = "denied"
    BY <1>2, NotFoundIs
  <2> QED
    BY <2>1 DEF Advances, Looking
<1> QED
  BY <1>1, <1>2

(* The guard. *)
LEMMA GuardAdvances ==
    ASSUME SessionTypeOK, NEW c \in Calls, NEW a \in Attempts, NEW e, e = exec[c][a], ExecOK(e),
           \/ Lookup(c, a) \/ ExpireCache(c, a) \/ ExpireRow(c, a) \/ DbRead(c, a) \/ Fill(c, a)
           \/ RotDel(c, a) \/ RotSet(c, a) \/ Touch(c, a)
           \/ Refresh(c, a) /\ ~Rotates(e)
    PROVE  \E n : Become(c, a, n) /\ Advances(e, n)
<1>1. e \in Exec
  BY ExecTyped
<1>2. ASSUME NEW p \in Steps \ {"idle", "answer", "outCache", "outRow", "create", "createCache", "refresh"},
             p \in Looking => e.pc \in Looking
      PROVE  Advances(e, [e EXCEPT !.pc = p])
  <2> DEFINE n == [e EXCEPT !.pc = p]
  <2>1. n.tok = e.tok /\ n.cookie = e.cookie /\ n.op = e.op /\ n.phase = e.phase /\ n.pc = p
    BY <1>1 DEF Exec
  <2> HIDE DEF n
  <2>2. Advances(e, n)
    BY <1>2, <2>1, MoveAdvances
  <2> QED
    BY <2>2 DEF n
<1>3. CASE Lookup(c, a)
  <2>1. e.pc = "lookup"
    BY <1>3, Zenon DEF Lookup, At
  <2>2. Advances(e, [e EXCEPT !.pc = "dbRead"]) /\ Advances(e, [e EXCEPT !.pc = "expireCache"])
    BY <1>2, <2>1 DEF Looking, Steps, Before, GuardSteps
  <2>3. Advances(e, Found(e, cache[e.tok])) /\ Advances(e, NotFound(e))
    BY <1>1, <2>1, FoundAdvances DEF Looking
  <2>4. CASE e.tok = NoToken
    BY <1>3, <2>3, <2>4, Zenon DEF Lookup
  <2>5. CASE e.tok # NoToken /\ ~cache[e.tok].in
    BY <1>3, <2>2, <2>5, Zenon DEF Lookup
  <2>6. CASE e.tok # NoToken /\ cache[e.tok].in /\ Expired(cache[e.tok])
    BY <1>3, <2>2, <2>6, Zenon DEF Lookup
  <2>7. CASE e.tok # NoToken /\ cache[e.tok].in /\ ~Expired(cache[e.tok])
    BY <1>3, <2>3, <2>7, Zenon DEF Lookup
  <2> QED
    BY <2>4, <2>5, <2>6, <2>7
<1>4. CASE ExpireCache(c, a)
  <2>1. e.pc = "expireCache" /\ Become(c, a, [e EXCEPT !.pc = "expireRow"])
    BY <1>4, Zenon DEF ExpireCache, At, Goto
  <2>2. Advances(e, [e EXCEPT !.pc = "expireRow"])
    BY <1>2, <2>1 DEF Looking, Steps, Before, GuardSteps
  <2> QED
    BY <2>1, <2>2
<1>5. CASE ExpireRow(c, a)
  <2>1. e.pc = "expireRow" /\ Become(c, a, NotFound(e))
    BY <1>5, Zenon DEF ExpireRow, At
  <2>2. Advances(e, NotFound(e))
    BY <1>1, <2>1, FoundAdvances DEF Looking
  <2> QED
    BY <2>1, <2>2
<1>6. CASE DbRead(c, a)
  <2> DEFINE r == row[e.tok[1]]
             v == EntryOf(r)
             f == [e EXCEPT !.pc = "fill", !.rec = v]
  <2>1. /\ e.pc = "dbRead"
        /\ Become(c, a, IF r.st # "live" \/ r.gen # e.tok[2] THEN NotFound(e)
                        ELSE IF Expired(r) THEN [e EXCEPT !.pc = "expireRow"] ELSE f)
    BY <1>6, Zenon DEF DbRead, At
  <2>2. Advances(e, [e EXCEPT !.pc = "expireRow"])
    BY <1>2, <2>1 DEF Looking, Steps, Before, GuardSteps
  <2>3. Advances(e, NotFound(e))
    BY <1>1, <2>1, FoundAdvances DEF Looking
  <2> HIDE DEF v
  <2>4. f.tok = e.tok /\ f.cookie = e.cookie /\ f.op = e.op /\ f.phase = e.phase /\ f.pc = "fill"
    BY <1>1 DEF Exec
  <2> HIDE DEF f, r
  <2>5. Advances(e, f)
    BY <2>1, <2>4, MoveAdvances DEF Looking
  <2>6. CASE r.st # "live" \/ r.gen # e.tok[2]
    BY <2>1, <2>3, <2>6, Zenon
  <2>7. CASE ~(r.st # "live" \/ r.gen # e.tok[2]) /\ Expired(r)
    BY <2>1, <2>2, <2>7, Zenon
  <2>8. CASE ~(r.st # "live" \/ r.gen # e.tok[2]) /\ ~Expired(r)
    BY <2>1, <2>5, <2>8, Zenon
  <2> QED
    BY <2>6, <2>7, <2>8, Zenon
<1>7. CASE Fill(c, a)
  <2>1. e.pc = "fill" /\ Become(c, a, Found(e, e.rec))
    BY <1>7, Zenon DEF Fill, At
  <2>2. Advances(e, Found(e, e.rec))
    BY <1>1, <2>1, FoundAdvances DEF Looking
  <2> QED
    BY <2>1, <2>2
<1>8. ASSUME NEW p \in {"rotSet", "user", "touch", "touchAgain"}, Goto(c, a, p)
      PROVE  \E n : Become(c, a, n) /\ Advances(e, n)
  <2>1. Advances(e, [e EXCEPT !.pc = p])
    BY <1>2, <1>8 DEF Looking, Steps, Before, GuardSteps
  <2> QED
    BY <1>8, <2>1, Zenon DEF Goto
<1>9. CASE RotDel(c, a) \/ RotSet(c, a)
  BY <1>8, <1>9 DEF RotDel, RotSet
<1>10. CASE Touch(c, a)
  <2> DEFINE p == IF e.pc = "touch" THEN "touchAgain" ELSE "user"
  <2>1. Goto(c, a, p)
    BY <1>10, Zenon DEF Touch
  <2>2. p \in {"rotSet", "user", "touch", "touchAgain"}
    OBVIOUS
  <2> HIDE DEF p
  <2> QED
    BY <1>8, <2>1, <2>2
<1>11. CASE Refresh(c, a) /\ ~Rotates(e)
  <2>1. Goto(c, a, "touch")
    BY <1>11, Zenon DEF Refresh, Rotates
  <2> QED
    BY <1>8, <2>1
<1> QED
  BY <1>3, <1>4, <1>5, <1>6, <1>7, <1>9, <1>10, <1>11

(* The handlers, and the answer. *)
LEMMA HandlerAdvances ==
    ASSUME SessionTypeOK, NEW c \in Calls, NEW a \in Attempts, NEW e, e = exec[c][a], ExecOK(e), Bears(e),
           \/ PlainStep(c, a) \/ RevokeList(c, a) \/ RevokeRows(c, a) \/ LogoutCache(c, a) \/ LogoutRow(c, a)
           \/ CreateCache(c, a) \/ \E u \in Sids : RevokeOne(c, a, u)
           \/ \E t \in Tokens : RevokeCache(c, a, t)
    PROVE  \E n : Become(c, a, n) /\ Advances(e, n)
<1>1. e \in Exec /\ exec \in [Calls -> [Attempts -> Exec]]
  BY ExecTyped DEF SessionTypeOK
<1>2. ASSUME NEW p \in {"handler", "issue", "revList"} PROVE Advances(e, [e EXCEPT !.pc = p])
  <2> DEFINE n == [e EXCEPT !.pc = p]
  <2>1. n.tok = e.tok /\ n.cookie = e.cookie /\ n.op = e.op /\ n.pc = p
    BY <1>1 DEF Exec
  <2> HIDE DEF n
  <2>2. Advances(e, n)
    BY <1>2, <2>1, MoveAdvances DEF Looking
  <2> QED
    BY <2>2 DEF n
<1>3. Advances(e, Answered(e, "ok")) /\ Advances(e, Answered(e, "denied"))
  BY <1>1, AnswerAdvances
<1>4. CASE PlainStep(c, a)
  <2>1. e.op = "revokeOthers" => Advances(e, [e EXCEPT !.pc = "lookup", !.phase = 2])
    <3> DEFINE n == [e EXCEPT !.pc = "lookup", !.phase = 2]
    <3>1. n.tok = e.tok /\ n.cookie = e.cookie /\ n.op = e.op /\ n.pc = "lookup" /\ n.phase = 2
      BY <1>1 DEF Exec
    <3> HIDE DEF n
    <3>2. e.op = "revokeOthers" => Advances(e, n)
      BY <3>1, MoveAdvances DEF Guarded
    <3> QED
      BY <3>2 DEF n
  <2>2. e.op = "login" => Advances(e, [e EXCEPT !.pc = "create"])
    <3> DEFINE n == [e EXCEPT !.pc = "create"]
    <3>1. n.tok = e.tok /\ n.cookie = e.cookie /\ n.op = e.op /\ n.pc = "create"
      BY <1>1 DEF Exec
    <3> HIDE DEF n
    <3>2. e.op = "login" => Advances(e, n)
      BY <3>1 DEF Advances, Looking
    <3> QED
      BY <3>2 DEF n
  <2>3. /\ Advances(e, [e EXCEPT !.pc = "handler"]) /\ Advances(e, [e EXCEPT !.pc = "issue"])
        /\ Advances(e, [e EXCEPT !.pc = "revList"])
    BY <1>2
  <2>3a. ASSUME NEW k \in Links PROVE Advances(e, [e EXCEPT !.pc = "resetTx", !.found = {k}])
    <3> DEFINE n == [e EXCEPT !.pc = "resetTx", !.found = {k}]
    <3>1. n.tok = e.tok /\ n.cookie = e.cookie /\ n.op = e.op /\ n.pc = "resetTx"
      BY <1>1 DEF Exec
    <3> HIDE DEF n
    <3>2. Advances(e, n)
      BY <3>1, MoveAdvances DEF Looking
    <3> QED
      BY <3>2 DEF n
  <2>4. \/ Become(c, a, [e EXCEPT !.pc = "handler"])
        \/ Become(c, a, Answered(e, "ok")) \/ Become(c, a, Answered(e, "denied"))
        \/ e.op = "revokeOthers" /\ Become(c, a, [e EXCEPT !.pc = "lookup", !.phase = 2])
        \/ e.op = "login" /\ Become(c, a, [e EXCEPT !.pc = "create"])
        \/ Become(c, a, [e EXCEPT !.pc = "issue"]) \/ \E k \in Links : ToReset(c, a, e, k)
        \/ Become(c, a, [e EXCEPT !.pc = "revList"])
    BY <1>4, PlainShape, Zenon
  <2> QED
    BY <1>3, <2>1, <2>2, <2>3, <2>3a, <2>4, Zenon DEF ToReset
<1>5. CASE RevokeList(c, a)
  <2> DEFINE v == {<<s, row[s].gen>> : s \in {s \in Sids \ e.keep : row[s].st = "live"}}
             n == [e EXCEPT !.pc = "revCache", !.todo = v]
  <2>1. Become(c, a, n)
    BY <1>5, Zenon DEF RevokeList, Become
  <2> HIDE DEF v
  <2>2. n.tok = e.tok /\ n.cookie = e.cookie /\ n.op = e.op /\ n.pc = "revCache"
    BY <1>1 DEF Exec
  <2> HIDE DEF n
  <2>3. Advances(e, n)
    BY <2>2, MoveAdvances DEF Looking
  <2> QED
    BY <2>1, <2>3
<1>6. CASE \E u \in Sids : RevokeOne(c, a, u)
  <2>1. PICK u \in Sids : RevokeOne(c, a, u)
    BY <1>6
  <2> DEFINE v == {<<u, row[u].gen>>}
             w == Sids \ {u}
             n == [e EXCEPT !.pc = "revCache", !.todo = v, !.keep = w]
  <2>2. Become(c, a, IF row[u].st = "live" THEN n ELSE Answered(e, "ok"))
    BY <1>1, <2>1 DEF RevokeOne, Become
  <2> HIDE DEF v, w
  <2>3. n.tok = e.tok /\ n.cookie = e.cookie /\ n.op = e.op /\ n.pc = "revCache"
    BY <1>1 DEF Exec
  <2> HIDE DEF n
  <2>4. Advances(e, n)
    BY <2>3, MoveAdvances DEF Looking
  <2> QED
    BY <1>3, <2>2, <2>4
<1>7. CASE \E t \in Tokens : RevokeCache(c, a, t)
  <2>1. PICK t \in Tokens : RevokeCache(c, a, t)
    BY <1>7
  <2> DEFINE v == e.todo \ {t}
             n == [e EXCEPT !.todo = v]
  <2>2. Become(c, a, n) /\ e.pc = "revCache"
    BY <1>1, <2>1 DEF RevokeCache, Become, At
  <2> HIDE DEF v
  <2>3. n.tok = e.tok /\ n.cookie = e.cookie /\ n.op = e.op /\ n.pc = e.pc
    BY <1>1 DEF Exec
  <2> HIDE DEF n
  <2>4. Advances(e, n)
    BY <2>2, <2>3, MoveAdvances DEF Looking
  <2> QED
    BY <2>2, <2>4
<1>8. CASE RevokeRows(c, a) \/ CreateCache(c, a)
  <2>1. Become(c, a, Answered(e, "ok"))
    BY <1>8, Zenon DEF RevokeRows, CreateCache
  <2> QED
    BY <1>3, <2>1
<1>9. CASE LogoutCache(c, a)
  <2> DEFINE n == [e EXCEPT !.pc = "outRow"]
  <2>1. Become(c, a, n) /\ e.pc = "outCache"
    BY <1>9, Zenon DEF LogoutCache, Goto, At
  <2>2. n.tok = e.tok /\ n.cookie = e.cookie /\ n.op = e.op /\ n.pc = "outRow"
    BY <1>1 DEF Exec
  <2> HIDE DEF n
  <2>3. Advances(e, n)
    BY <2>1, <2>2 DEF Advances, Bears, Looking
  <2> QED
    BY <2>1, <2>3
<1>10. CASE LogoutRow(c, a)
  <2> DEFINE n == [Answered(e, "ok") EXCEPT !.cookie = <<"clear">>]
  <2>1. Become(c, a, n) /\ e.pc = "outRow"
    BY <1>10, Zenon DEF LogoutRow, At
  <2>2. n.tok = e.tok /\ n.cookie = <<"clear">> /\ n.op = e.op /\ n.pc = "answer" /\ n.ans = "ok"
    BY <1>1 DEF Exec, Answered
  <2> HIDE DEF n
  <2>3. <<"clear">> \notin Tokens
    BY DEF Tokens
  <2>4. Advances(e, n)
    BY <2>1, <2>2, <2>3 DEF Advances, Bears, Looking
  <2> QED
    BY <2>1, <2>4
<1> QED
  BY <1>4, <1>5, <1>6, <1>7, <1>8, <1>9, <1>10

(* Only a rotation gives a row another token, and only a sign-in a first one.*)
LEMMA RowTokens ==
    ASSUME SessionTypeOK, NEW c \in Calls, NEW a \in Attempts, NEW e, e = exec[c][a], Step(c, a),
           ~(Refresh(c, a) /\ Rotates(e)), ~\E u \in Sids : CreateSession(c, a, u)
    PROVE  RowsKeepTokens
<1>1. CASE UNCHANGED row
  BY <1>1 DEF RowsKeepTokens
<1>2. ASSUME NEW S, Revoke(S) PROVE RowsKeepTokens
  <2>1. \A s \in Sids : row'[s] = IF s \in S /\ row[s].st = "live" THEN [row[s] EXCEPT !.st = "revoked"] ELSE row[s]
    BY <1>2 DEF Revoke
  <2>2. \A s \in Sids : row[s] \in SessionRow
    BY DEF SessionTypeOK
  <2> QED
    BY <2>1, <2>2 DEF RowsKeepTokens, SessionRow
<1>3. CASE ExpireRow(c, a) \/ RevokeRows(c, a) \/ LogoutRow(c, a)
  BY <1>2, <1>3 DEF ExpireRow, RevokeRows, LogoutRow
<1>4. CASE Touch(c, a)
  <2>1. row' = [row EXCEPT ![e.tok[1]].active = now]
    BY <1>4, Zenon DEF Touch
  <2>2. \A s \in Sids : row[s] \in SessionRow
    BY DEF SessionTypeOK
  <2> QED
    BY <2>1, <2>2 DEF RowsKeepTokens, SessionTypeOK, SessionRow
<1>5. CASE Refresh(c, a)
  <2>1. ~Rotates(e)
    BY <1>5
  <2>2. UNCHANGED row
    BY <1>5, <2>1, Zenon DEF Refresh, Rotates
  <2> QED
    BY <1>1, <2>2
<1>6. CASE \/ Lookup(c, a) \/ ExpireCache(c, a) \/ DbRead(c, a) \/ Fill(c, a) \/ RotDel(c, a)
           \/ RotSet(c, a) \/ GuardUser(c, a) \/ HandleRead(c, a) \/ RevokeOthers(c, a)
           \/ RevokeList(c, a) \/ LogoutCache(c, a) \/ Login(c, a) \/ CreateCache(c, a)
           \/ AdminUpdate(c, a) \/ IssueDrop(c, a) \/ ResetFails(c, a) \/ ResetCommit(c, a)
           \/ \E s \in Sids : RevokeOne(c, a, s)
           \/ \E t \in Tokens : RevokeCache(c, a, t)
           \/ \E k \in Links : IssueAdd(c, a, k) \/ ResetRead(c, a, k)
  <2>1. UNCHANGED row
    BY <1>6, Zenon DEF Lookup, ExpireCache, DbRead, Fill, RotDel, RotSet, GuardUser, HandleRead, RevokeOthers,
         RevokeList, LogoutCache, Login, CreateCache, AdminUpdate, IssueDrop, ResetFails, ResetCommit, RevokeOne,
         RevokeCache, IssueAdd, ResetRead
  <2> QED
    BY <1>1, <2>1
<1> QED
  BY <1>3, <1>4, <1>5, <1>6, Zenon DEF Step

(* A session, once disturbed, stays so. *)
LEMMA DisturbedGrows ==
    ASSUME NEW c \in Calls, NEW a \in Attempts, Step(c, a) \/ CacheDown(c, a) \/ Crash(c, a)
    PROVE  disturbed \subseteq disturbed'
<1>1. disturbed' = disturbed \/ \E S : disturbed' = disturbed \cup S
  BY Zenon DEF Step, Lookup, ExpireCache, ExpireRow, DbRead, Fill, Refresh, RotDel, RotSet,
      Touch, GuardUser, HandleRead, RevokeOthers, RevokeList, RevokeRows, LogoutCache, LogoutRow, Login,
      CreateCache, AdminUpdate, IssueDrop, ResetFails, ResetCommit, RevokeOne, CreateSession, RevokeCache, IssueAdd,
      ResetRead, Steady, CacheDown, Crash
<1> QED
  BY <1>1

(* A step that makes no token. *)
LEMMA AdvanceStep ==
    ASSUME SessionInv, CookieInv, NEW c \in Calls, NEW a \in Attempts, NEW e, e = exec[c][a], Step(c, a),
           ~(Refresh(c, a) /\ Rotates(e)), ~\E u \in Sids : CreateSession(c, a, u)
    PROVE  CookieInv'
<1>1. SessionTypeOK /\ ExecOK(e) /\ Bears(e)
  BY DEF SessionInv, CallSound, CookieInv
<1>2. e.pc # "idle" /\ call' = call
  BY <1>1, StepMoves DEF Moves
<1>3. jar' = jar /\ disturbed \subseteq disturbed' /\ RowsKeepTokens
  BY <1>1, StepElse, DisturbedGrows, RowTokens
<1>4. CASE \/ Lookup(c, a) \/ ExpireCache(c, a) \/ ExpireRow(c, a) \/ DbRead(c, a) \/ Fill(c, a)
           \/ RotDel(c, a) \/ RotSet(c, a) \/ Touch(c, a) \/ Refresh(c, a)
  <2>1. \E n : Become(c, a, n) /\ Advances(e, n)
    BY <1>1, <1>4, GuardAdvances
  <2> QED
    BY <1>1, <1>2, <1>3, <2>1, AdvanceInv
<1>5. CASE \/ PlainStep(c, a) \/ RevokeList(c, a) \/ RevokeRows(c, a) \/ LogoutCache(c, a) \/ LogoutRow(c, a)
           \/ CreateCache(c, a) \/ \E u \in Sids : RevokeOne(c, a, u)
           \/ \E t \in Tokens : RevokeCache(c, a, t)
  <2>1. \E n : Become(c, a, n) /\ Advances(e, n)
    BY <1>1, <1>5, HandlerAdvances
  <2> QED
    BY <1>1, <1>2, <1>3, <2>1, AdvanceInv
<1> QED
  BY <1>4, <1>5, Zenon DEF Step, PlainStep

LEMMA BrokenCookie ==
    ASSUME SessionInv, CookieInv, NEW c \in Calls, NEW a \in Attempts, CacheDown(c, a) \/ Crash(c, a)
    PROVE  CookieInv'
<1> DEFINE e == exec[c][a]
<1>1. SessionTypeOK /\ e \in Exec
  BY ExecTyped DEF SessionInv
<1>2. /\ e.pc # "idle" /\ call' = call /\ jar' = jar /\ row' = row
      /\ Become(c, a, Answered(e, "down")) \/ Become(c, a, Answered(e, "broken"))
  BY DEF CacheDown, Crash, Running, store
<1>3. Advances(e, Answered(e, "down")) /\ Advances(e, Answered(e, "broken"))
  BY <1>1, AnswerAdvances
<1>4. disturbed \subseteq disturbed' /\ RowsKeepTokens
  BY <1>2, DisturbedGrows DEF RowsKeepTokens
<1> HIDE DEF e
<1> QED
  BY <1>1, <1>2, <1>3, <1>4, AdvanceInv DEF e

-----------------------------------------------------------------------------
(* The two steps that make a token. *)

(* Others are waited for as before. *)
LEMMA StillWaited ==
    ASSUME CookieInv, NEW c \in Calls, NEW a \in Attempts, NEW n, exec'[c][a] = n,
           \A d \in Calls : \A b \in Attempts : ~(d = c /\ b = a) => exec'[d][b] = exec[d][b],
           call' = call, disturbed \subseteq disturbed', exec[c][a].pc # "idle",
           n.op \in Guarded => n.op = exec[c][a].op /\ n.tok = exec[c][a].tok
    PROVE  \A d \in Calls : \A b \in Attempts : WaitedFor(d, b)'
<1> SUFFICES ASSUME NEW d \in Calls, NEW b \in Attempts PROVE WaitedFor(d, b)'
  OBVIOUS
<1>1. WaitedFor(d, b)
  BY DEF CookieInv
<1>2. CASE d = c /\ b = a
  BY <1>1, <1>2 DEF WaitedFor, SidOf
<1>3. CASE ~(d = c /\ b = a)
  <2>1. exec'[d][b] = exec[d][b]
    BY <1>3
  <2> QED
    BY <1>1, <2>1 DEF WaitedFor
<1> QED
  BY <1>2, <1>3

LEMMA CreateCookie ==
    ASSUME SessionInv, CookieInv, NEW c \in Calls, NEW a \in Attempts, NEW u \in Sids, CreateSession(c, a, u)
    PROVE  CookieInv'
<1> DEFINE e == exec[c][a]
           r == [st |-> "live", gen |-> 0, created |-> now, active |-> now, expires |-> now + TTL]
           x == <<u, 0>>
           v == EntryOf(r)
           n == [e EXCEPT !.pc = "createCache", !.cookie = x, !.tok = x, !.rec = v]
<1>1. SessionTypeOK /\ e \in Exec /\ ExecOK(e) /\ Step(c, a)
  BY ExecTyped DEF SessionInv, CallSound, Step
<1>2. /\ e.pc = "create" /\ row[u].st = "none" /\ row' = [row EXCEPT ![u] = r] /\ jar' = jar /\ call' = call
      /\ disturbed \subseteq disturbed'
      /\ exec' = [exec EXCEPT ![c][a] = [@ EXCEPT !.pc = "createCache", !.cookie = x, !.tok = x, !.rec = v]]
  BY Zenon DEF CreateSession, At
<1>3. r.st = "live" /\ r.gen = 0
  OBVIOUS
<1> HIDE DEF r, v
<1>4. row' \in [Sids -> SessionRow]
  BY <1>1, RowShape
<1>5. row'[u].st = "live" /\ row'[u].gen = 0 /\ \A s \in Sids \ {u} : row'[s] = row[s]
  BY <1>1, <1>2, <1>3 DEF SessionTypeOK
<1>6. x = <<u, row'[u].gen>> /\ x \in Tokens
  BY <1>4, <1>5, TokenMade DEF SessionRow
<1> HIDE DEF x
<1>7. /\ exec'[c][a] = n
      /\ \A d \in Calls : \A b \in Attempts : ~(d = c /\ b = a) => exec'[d][b] = exec[d][b]
  BY <1>1, <1>2 DEF SessionTypeOK
<1>8. n.pc = "createCache" /\ n.tok = x /\ n.cookie = x /\ n.op = e.op
  BY <1>1 DEF Exec
<1>9. e.op = "login" /\ "login" \notin Guarded
  <2>1. Bears(e)
    BY DEF CookieInv
  <2> QED
    BY <1>2, <2>1 DEF Bears, Guarded, Reads
<1> HIDE DEF n
<1>10. Bears(n)
  BY <1>6, <1>8, <1>9 DEF Bears, Looking
<1>11. \A t : ~(Behind(t) /\ t \in Tokens /\ t[1] = u)
  BY <1>2 DEF Behind
<1>12. \A d \in Calls : \A b \in Attempts : ~(exec[d][b].cookie \in Tokens /\ exec[d][b].cookie[1] = u)
  BY <1>11 DEF CookieInv, TokensBehind
<1>13. \A d \in Calls : \A b \in Attempts : WaitedFor(d, b)'
  <2>1. exec[c][a].pc # "idle" /\ n.op \notin Guarded /\ call' = call /\ disturbed \subseteq disturbed'
    BY <1>2, <1>8, <1>9
  <2> HIDE DEF e
  <2> QED
    BY <1>7, <2>1, StillWaited
<1> HIDE DEF e
<1>14. n.cookie = x /\ n.tok = n.cookie /\ row'[u].st # "none"
  BY <1>5, <1>8
<1>15. exec[c][a].op \notin Guarded
  BY <1>9 DEF e
<1>16. jar' = jar /\ call' = call /\ disturbed \subseteq disturbed'
  BY <1>2
<1> QED
  BY <1>1, <1>4, <1>5, <1>6, <1>7, <1>10, <1>11, <1>12, <1>13, <1>14, <1>15, <1>16, TokenMadeInv

(* Whoever has the new token of an undisturbed session, it is not the guard*)
(* that rotates it.                                                        *)
LEMMA RotateCookie ==
    ASSUME SessionInv, StoreInv, CookieInv, NEW c \in Calls, NEW a \in Attempts, Refresh(c, a),
           Rotates(exec[c][a])
    PROVE  CookieInv'
<1> DEFINE e == exec[c][a]
           u == e.tok[1]
           x == <<u, row[u].gen + 1>>
           v == EntryOf(row'[u])
           n == [e EXCEPT !.pc = "rotDel", !.cookie = x, !.rec = v]
<1>1. SessionTypeOK /\ e \in Exec /\ ExecOK(e) /\ Step(c, a) /\ e.tok \in Tokens \cup {NoToken} /\ Bears(e)
  BY ExecTyped DEF SessionInv, CallSound, Step, CookieInv
<1>2. e.pc = "refresh" /\ jar' = jar /\ call' = call /\ disturbed' = disturbed
  BY Zenon DEF Refresh, At, Steady
<1>20. /\ row[u].gen < MaxGen
       /\ row' = [row EXCEPT ![u].gen = @ + 1, ![u].expires = now + TTL, ![u].active = now]
       /\ Become(c, a, n)
  BY Zenon DEF Refresh, Rotates
<1>3. e.tok \in Tokens /\ e.phase = 1
  BY <1>1, <1>2 DEF ExecOK, GuardSteps
<1>4. u \in Sids /\ \A s \in Sids : s \in SidOf(e) <=> s = u
  BY <1>3, SidIs, TokenParts
<1>5. e.op \in Guarded /\ e.cookie = NoToken
  BY <1>1, <1>2, <1>3 DEF Bears, Looking
<1>6. /\ row'[u].st = row[u].st /\ row'[u].gen = row[u].gen + 1
      /\ <<u, row'[u].gen>> \in Tokens
      /\ \A q \in Sids \ {u} : row'[q] = row[q]
  <2>1. SessionTypeOK /\ u \in Sids
    BY <1>1, <1>4
  <2> HIDE DEF e, u, n, x, v
  <2> QED
    BY <1>20, <2>1, Rotated, Zenon
<1>7. row' \in [Sids -> SessionRow] /\ row[u].gen \in Int
  BY <1>1, <1>4, RowShape, SessionAssumption DEF SessionTypeOK, SessionRow
<1>8. x = <<u, row'[u].gen>> /\ x \in Tokens /\ x[1] = u
  BY <1>6, TokenParts
<1> HIDE DEF x, v
<1>9. /\ exec'[c][a] = n
      /\ \A d \in Calls : \A b \in Attempts : ~(d = c /\ b = a) => exec'[d][b] = exec[d][b]
  BY <1>1, <1>20 DEF SessionTypeOK, Become
<1>10. n.pc = "rotDel" /\ n.tok = e.tok /\ n.cookie = x /\ n.op = e.op
  BY <1>1 DEF Exec
<1> HIDE DEF n
<1>11. Bears(n)
  BY <1>3, <1>8, <1>10 DEF Bears, Looking
<1>12. \A d \in Calls : \A b \in Attempts : WaitedFor(d, b)'
  <2>1. /\ exec[c][a].pc # "idle" /\ n.op = exec[c][a].op /\ n.tok = exec[c][a].tok
        /\ call' = call /\ disturbed \subseteq disturbed'
    BY <1>2, <1>10
  <2> HIDE DEF e
  <2> QED
    BY <1>9, <2>1, StillWaited
<1>13. \A t : Behind(t) /\ t \in Tokens /\ t[1] = u => t[2] < row'[u].gen /\ n.op \in Guarded
  <2>1. \A t \in Tokens : t[2] \in Int
    BY TokenParts, SessionAssumption
  <2> QED
    BY <1>5, <1>6, <1>7, <1>10, <2>1 DEF Behind
<1>14. row'[u].st # "none"
  <2>1. Behind(e.tok)
    BY DEF CookieInv, TokensBehind
  <2> QED
    BY <1>3, <1>6, <2>1 DEF Behind
<1>15. ASSUME u \notin disturbed', NEW d \in Calls, NEW b \in Attempts, ~(d = c /\ b = a),
              exec[d][b].cookie \in Tokens, exec[d][b].cookie[1] = u
       PROVE  FALSE
  <2>1. u \in Sids \ disturbed
    BY <1>2, <1>4, <1>15
  <2>2. SoleBearer(d, b, u)
    BY <1>15, <2>1 DEF CookieInv, JarAgrees
  <2>3. Uses(exec[c][a], u)
    BY <1>2, <1>4 DEF Uses
  <2>4. Fits(exec[c][a], u, row[u], cache, now)
    BY <2>1, <2>3, InHand
  <2>5. e.tok = <<u, row[u].gen>>
    <3> HIDE DEF u
    <3> QED
      BY <1>2, <2>4 DEF Fits, GuardKnows, Current
  <2> QED
    BY <1>15, <2>2, <2>5 DEF SoleBearer
<1>16. NoToken \notin Tokens
  BY DEF NoToken, Tokens
<1>17. exec[c][a].cookie \notin Tokens
  BY <1>5, <1>16
<1>18. n.tok = exec[c][a].tok /\ n.cookie = x /\ disturbed \subseteq disturbed'
  BY <1>2, <1>10
<1> HIDE DEF e, u
<1> QED
  BY <1>1, <1>2, <1>4, <1>6, <1>7, <1>8, <1>9, <1>11, <1>12, <1>13, <1>14, <1>15, <1>17, <1>18, TokenMadeInv

-----------------------------------------------------------------------------
(* The browser and the proxy: only executions of one call are begun or     *)
(* taken away, and a rotated token that is lost disturbs its session.      *)

Delivered(e) == e.cookie \in Tokens /\ e.op \in Guarded => e.cookie[1] \in disturbed' \/ jar' = e.cookie

LEMMA ProxyCookie ==
    ASSUME SessionTypeOK, CookieInv, row' = row, disturbed \subseteq disturbed', NEW c \in Calls,
           \A d \in Calls \ {c} : exec'[d] = exec[d] /\ call'[d] = call[d],
           Loose(call'[c].tok),
           jar' \in {NoToken, jar} \/ \E a \in Attempts : Gone(c, a) /\ jar' = exec[c][a].cookie,
           \A a \in Attempts : Bears(exec'[c][a]) /\ WaitedFor(c, a)',
           \A a \in Attempts : \/ exec'[c][a] = exec[c][a]
                               \/ /\ exec'[c][a].cookie \notin Tokens
                                  /\ Loose(exec'[c][a].tok)
                                  /\ Delivered(exec[c][a])
    PROVE  CookieInv'
<1>1. \A d \in Calls : \A b \in Attempts : Bears(exec[d][b]) /\ WaitedFor(d, b)
  BY DEF CookieInv
<1>2. \A d \in Calls : \A b \in Attempts : (Bears(exec[d][b]) /\ WaitedFor(d, b))'
  <2> SUFFICES ASSUME NEW d \in Calls, NEW b \in Attempts PROVE Bears(exec'[d][b]) /\ WaitedFor(d, b)'
    OBVIOUS
  <2>1. CASE d = c
    BY <2>1
  <2>2. CASE d # c
    <3>1. exec'[d] = exec[d] /\ call'[d] = call[d]
      BY <2>2
    <3> QED
      BY <1>1, <3>1 DEF WaitedFor
  <2> QED
    BY <2>1, <2>2
<1>3. \A d \in Calls : Loose(call'[d].tok)
  <2>1. \A d \in Calls \ {c} : Loose(call'[d].tok)
    BY DEF Loose
  <2> QED
    BY <2>1
<1>4. ASSUME NEW d \in Calls, NEW b \in Attempts
      PROVE  /\ exec'[d][b].tok = exec[d][b].tok \/ Loose(exec'[d][b].tok)
             /\ \/ exec'[d][b].cookie = exec[d][b].cookie /\ exec'[d][b].op = exec[d][b].op
                \/ exec'[d][b].cookie \notin Tokens
             /\ Gone(d, b) /\ exec[d][b].op \in Guarded =>
                    exec[d][b].cookie[1] \in disturbed' \/ jar' = exec[d][b].cookie
  <2>1. CASE exec'[d][b] = exec[d][b]
    BY <2>1 DEF Gone
  <2>2. CASE exec'[d][b] # exec[d][b]
    <3>1. d = c
      BY <2>2
    <3> QED
      BY <2>2, <3>1 DEF Gone, Delivered
  <2> QED
    BY <2>1, <2>2
<1>5. \/ Loose(jar') /\ jar' \in {NoToken, jar}
      \/ \E d \in Calls : \E b \in Attempts : Gone(d, b) /\ jar' = exec[d][b].cookie
  BY DEF Loose
<1>6. TokensMove
  BY <1>2, <1>3, <1>4, <1>5 DEF TokensMove
<1> QED
  BY <1>6, TokensMoveInv

LEMMA NewBears ==
    ASSUME NEW op, NEW tok, NEW n, n = NewExec(op, tok)
    PROVE  n.tok = tok /\ n.op = op /\ n.cookie = NoToken /\ n.cookie \notin Tokens /\ n.pc # "idle" /\ Bears(n)
<1> DEFINE pc == IF op \in Guarded \cup {"logout"} THEN "lookup" ELSE "handler"
<1>1. pc \in {"lookup", "handler"} /\ (pc = "lookup" => op \in Guarded \cup {"logout"})
  OBVIOUS
<1> DEFINE m == [pc |-> pc, op |-> op, tok |-> tok, rec |-> NoEntry, phase |-> 1,
                 cookie |-> NoToken, todo |-> {}, keep |-> {}, found |-> {}, ans |-> ""]
<1>2. n = m
  BY DEF NewExec
<1> HIDE DEF pc
<1>3. n.pc = pc /\ n.tok = tok /\ n.op = op /\ n.cookie = NoToken
  <2>1. m.pc = pc /\ m.tok = tok /\ m.op = op /\ m.cookie = NoToken
    OBVIOUS
  <2> HIDE DEF m
  <2> QED
    BY <1>2, <2>1
<1> HIDE DEF m
<1>4. NoToken \notin Tokens
  BY DEF NoToken, Tokens
<1>5. n.cookie \notin Tokens /\ n.pc # "idle"
  BY <1>1, <1>3, <1>4
<1>6. Bears(n)
  BY <1>1, <1>3, <1>5 DEF Bears, Looking
<1> QED
  BY <1>3, <1>5, <1>6

LEMMA NoneBears ==
    NoExec.pc = "idle" /\ NoExec.tok = NoToken /\ NoExec.cookie = NoToken /\ NoToken \notin Tokens /\ Bears(NoExec)
<1>1. NoToken \notin Tokens
  BY DEF NoToken, Tokens
<1> DEFINE n == NewExec("page", NoToken)
<1>2. n \in Exec
  <2>1. "page" \in AllOps /\ NoToken \in Tokens \cup {NoToken}
    BY DEF AllOps, Guarded, Reads
  <2> QED
    BY <2>1, NewExecOK
<1>3. n.tok = NoToken /\ n.cookie = NoToken
  BY NewBears
<1>4. NoExec = [n EXCEPT !.pc = "idle"]
  BY DEF NoExec
<1> HIDE DEF n
<1>5. NoExec.pc = "idle" /\ NoExec.tok = NoToken /\ NoExec.cookie = NoToken
  BY <1>2, <1>3, <1>4 DEF Exec
<1> HIDE DEF NoExec
<1>6. Bears(NoExec)
  BY <1>1, <1>5 DEF Bears, Looking
<1> QED
  BY <1>1, <1>5, <1>6

LEMMA SendCookie ==
    ASSUME SessionInv, CookieInv, NEW c \in Calls, NEW op \in AllOps, Send(c, op)
    PROVE  CookieInv'
<1> DEFINE tok == IF op \in Guarded \cup {"logout"} THEN jar ELSE NoToken
           n   == NewExec(op, tok)
           r   == [st |-> "waiting", op |-> op, tok |-> tok, attempt |-> 0]
<1>1. /\ SessionTypeOK /\ 0 \in Attempts /\ exec \in [Calls -> [Attempts -> Exec]] /\ call \in [Calls -> Call]
      /\ Loose(tok)
  BY FirstAttempt DEF SessionInv, SessionTypeOK, Loose
<1>2. /\ exec' = [exec EXCEPT ![c][0] = n] /\ call' = [call EXCEPT ![c] = r]
      /\ disturbed \subseteq disturbed' /\ row' = row /\ jar' = jar
      /\ \A a \in Attempts : exec[c][a].pc = "idle"
  BY DEF Send, store
<1> HIDE DEF tok
<1>3. r.tok = tok /\ r.st = "waiting" /\ r.attempt = 0
  OBVIOUS
<1>4. n.tok = tok /\ n.cookie \notin Tokens /\ Bears(n)
  BY NewBears
<1> HIDE DEF n, r
<1>5. /\ exec'[c][0] = n /\ \A a \in Attempts \ {0} : exec'[c][a] = exec[c][a]
      /\ call'[c] = r
      /\ \A d \in Calls \ {c} : exec'[d] = exec[d] /\ call'[d] = call[d]
  BY <1>1, <1>2
<1>6. ASSUME NEW a \in Attempts PROVE Bears(exec'[c][a]) /\ WaitedFor(c, a)'
  <2>1. CASE a = 0
    BY <1>3, <1>4, <1>5, <2>1 DEF WaitedFor
  <2>2. CASE a # 0
    BY <1>2, <1>5, <2>2 DEF WaitedFor, CookieInv
  <2> QED
    BY <2>1, <2>2
<1>7. \A a \in Attempts : \/ exec'[c][a] = exec[c][a]
                          \/ exec'[c][a].cookie \notin Tokens /\ Loose(exec'[c][a].tok) /\ Delivered(exec[c][a])
  <2>1. Delivered(exec[c][0])
    BY <1>1, <1>2, NoneBears DEF CookieInv, Bears, Delivered
  <2> QED
    BY <1>1, <1>4, <1>5, <2>1
<1>8. Loose(call'[c].tok)
  BY <1>1, <1>3, <1>5
<1>9. jar' \in {NoToken, jar}
  BY <1>2
<1> QED
  BY <1>1, <1>2, <1>5, <1>6, <1>7, <1>8, <1>9, ProxyCookie

(* A guarded execution that is not waited for does not matter any more. *)
LEMMA NotWaitedFor ==
    ASSUME SessionTypeOK, CookieInv, NEW c \in Calls, NEW a \in Attempts, exec[c][a].pc # "idle", exec[c][a].op \in Guarded,
           SidOf(exec[c][a]) \subseteq disturbed'
    PROVE  Delivered(exec[c][a])
<1> DEFINE e == exec[c][a]
<1>1. Bears(e) /\ e.tok \in Tokens \cup {NoToken}
  BY ExecTyped DEF CookieInv
<1>2. ASSUME e.cookie \in Tokens PROVE e.cookie[1] \in disturbed'
  <2>1. e.tok \in Tokens /\ e.cookie[1] = e.tok[1]
    BY <1>1, <1>2 DEF Bears
  <2>2. e.tok # NoToken
    BY <2>1, NoneBears
  <2> QED
    BY <2>1, <2>2 DEF SidOf
<1> QED
  BY <1>2 DEF Delivered

LEMMA AgainCookie ==
    ASSUME SessionInv, Unsent, CookieInv, NEW c \in Calls, Again(c), call[c].st = "waiting", UNCHANGED store
    PROVE  CookieInv'
<1>1. SessionTypeOK /\ call \in [Calls -> Call]
  BY DEF SessionInv, SessionTypeOK
<1>2. PICK a \in Attempts : \E n, l \in Exec :
               /\ a = call[c].attempt + 1 /\ a - 1 \in Attempts /\ a - 1 # a /\ call[c].op \in Reads
               /\ n = NewExec(call[c].op, call[c].tok) /\ ExecOK(n) /\ n.op = call[c].op
               /\ l = IF exec[c][a - 1].pc = "answer" THEN NoExec ELSE exec[c][a - 1]
               /\ exec' \in [Calls -> [Attempts -> Exec]] /\ call' \in [Calls -> Call]
               /\ \A b \in Attempts : exec'[c][b] = IF b = a - 1 THEN l ELSE IF b = a THEN n ELSE exec[c][b]
               /\ call'[c].op = call[c].op /\ call'[c].attempt = a /\ jar' = jar
               /\ \A d \in Calls \ {c} : exec'[d] = exec[d] /\ call'[d] = call[d]
  BY <1>1, AgainShape
<1>3. PICK n \in Exec, l \in Exec :
               /\ a = call[c].attempt + 1 /\ a - 1 \in Attempts /\ a - 1 # a /\ call[c].op \in Reads
               /\ n = NewExec(call[c].op, call[c].tok)
               /\ l = IF exec[c][a - 1].pc = "answer" THEN NoExec ELSE exec[c][a - 1]
               /\ \A b \in Attempts : exec'[c][b] = IF b = a - 1 THEN l ELSE IF b = a THEN n ELSE exec[c][b]
               /\ call'[c].attempt = a /\ jar' = jar
               /\ \A d \in Calls \ {c} : exec'[d] = exec[d] /\ call'[d] = call[d]
  BY <1>2
<1>4. /\ call'[c].st = "waiting" /\ call'[c].tok = call[c].tok /\ row' = row
      /\ disturbed \subseteq disturbed' /\ SidOf(call[c]) \subseteq disturbed'
  BY <1>1 DEF Again, store, Call
<1>5. n.tok = call[c].tok /\ n.cookie \notin Tokens /\ Bears(n)
  BY <1>3, NewBears
<1>6. \A b \in Attempts : Bears(exec[c][b]) /\ WaitedFor(c, b)
  BY DEF CookieInv
<1>7. exec[c][a].pc = "idle"
  <2>1. call[c].attempt \in Int
    BY <1>1, SessionAssumption DEF Call, Attempts
  <2>2. a > call[c].attempt
    BY <1>3, <2>1
  <2> QED
    BY <2>2 DEF Unsent
<1>8. \A b \in Attempts : exec[c][b].pc # "idle" /\ exec[c][b].op \in Guarded => SidOf(exec[c][b]) \subseteq disturbed'
  BY <1>4, <1>6 DEF WaitedFor, SidOf
<1>9. ASSUME NEW b \in Attempts PROVE Bears(exec'[c][b]) /\ WaitedFor(c, b)'
  <2>1. CASE b = a
    <3>1. exec'[c][b] = n
      BY <1>3, <2>1
    <3> QED
      BY <1>3, <1>4, <1>5, <2>1, <3>1 DEF WaitedFor
  <2>2. CASE exec'[c][b] = exec[c][b]
    BY <1>4, <1>6, <1>8, <2>2 DEF WaitedFor
  <2>3. CASE exec'[c][b] = NoExec
    BY <2>3, NoneBears DEF WaitedFor
  <2> QED
    BY <1>3, <2>1, <2>2, <2>3
<1>10. ASSUME NEW b \in Attempts
       PROVE  \/ exec'[c][b] = exec[c][b]
              \/ exec'[c][b].cookie \notin Tokens /\ Loose(exec'[c][b].tok) /\ Delivered(exec[c][b])
  <2>1. CASE b = a
    <3>1. exec'[c][b] = n
      BY <1>3, <2>1
    <3>2. Delivered(exec[c][a])
      BY <1>6, <1>7, NoneBears DEF Bears, Delivered
    <3> QED
      BY <1>5, <2>1, <3>1, <3>2 DEF Loose
  <2>2. CASE exec'[c][b] = NoExec /\ exec[c][b].pc = "answer"
    <3>1. exec[c][b].op \in Guarded => Delivered(exec[c][b])
      BY <1>1, <1>8, <2>2, NotWaitedFor
    <3>2. Delivered(exec[c][b])
      BY <3>1 DEF Delivered
    <3> QED
      BY <2>2, <3>2, NoneBears DEF Loose
  <2>3. CASE exec'[c][b] = exec[c][b]
    BY <2>3
  <2> QED
    BY <1>3, <2>1, <2>2, <2>3
<1>11. Loose(call'[c].tok) /\ jar' \in {NoToken, jar}
  BY <1>3, <1>4 DEF Loose
<1> QED
  BY <1>1, <1>3, <1>4, <1>9, <1>10, <1>11, ProxyCookie

LEMMA GiveUpCookie ==
    ASSUME SessionInv, CookieInv, NEW c \in Calls, GiveUp(c), UNCHANGED exec, UNCHANGED store
    PROVE  CookieInv'
<1>1. SessionTypeOK /\ call \in [Calls -> Call]
  BY DEF SessionInv, SessionTypeOK
<1>2. /\ call' = [call EXCEPT ![c].st = "idle"] /\ disturbed' = disturbed \cup SidOf(call[c]) /\ jar' = jar
      /\ exec' = exec /\ row' = row
  BY DEF GiveUp, store
<1>3. call'[c].tok = call[c].tok /\ \A d \in Calls \ {c} : call'[d] = call[d]
  BY <1>1, <1>2 DEF Call
<1>4. \A a \in Attempts : Bears(exec'[c][a]) /\ WaitedFor(c, a)'
  BY <1>2, <1>3 DEF CookieInv, WaitedFor, SidOf
<1>5. Loose(call'[c].tok) /\ jar' \in {NoToken, jar}
  BY <1>2, <1>3 DEF Loose
<1> QED
  BY <1>1, <1>2, <1>3, <1>4, <1>5, ProxyCookie

(* The browser takes the cookie of the answer. *)
LEMMA AnswerCookie ==
    ASSUME SessionInv, CookieInv, NEW c \in Calls, Answer(c), ~Again(c)
    PROVE  CookieInv'
<1> DEFINE a == call[c].attempt
           e == exec[c][a]
<1>1. SessionTypeOK /\ call \in [Calls -> Call] /\ exec \in [Calls -> [Attempts -> Exec]] /\ a \in Attempts
  BY DEF SessionInv, SessionTypeOK, Call
<1>2. /\ e.pc = "answer" /\ row' = row
      /\ call' = [call EXCEPT ![c].st = "idle"]
      /\ jar' = IF e.ans \in {"ok", "denied"} THEN Keep(e.op, e.cookie, jar) ELSE jar
      /\ exec' = [exec EXCEPT ![c][a] = NoExec]
      /\ disturbed' = IF e.ans \in {"down", "broken"} \/ (e.op = "page" /\ e.cookie # NoToken)
                      THEN disturbed \cup SidOf(e) ELSE disturbed
  BY Zenon DEF Answer, store
<1>3. e \in Exec /\ e.cookie \in Tokens \cup {NoToken, <<"clear">>} /\ e.ans \in {"ok", "denied", "down", "broken"}
  <2>1. Bears(e) /\ e \in Exec
    BY <1>1 DEF CookieInv
  <2> QED
    BY <1>2, <2>1 DEF Bears, Exec
<1> HIDE DEF NoExec
<1>4. /\ exec'[c][a] = NoExec /\ \A b \in Attempts \ {a} : exec'[c][b] = exec[c][b]
      /\ call'[c].tok = call[c].tok
      /\ \A d \in Calls \ {c} : exec'[d] = exec[d] /\ call'[d] = call[d]
  BY <1>1, <1>2 DEF Call
<1>5. disturbed \subseteq disturbed'
  BY <1>2
<1>6. <<"clear">> \notin Tokens /\ NoToken \notin Tokens
  BY NoneBears DEF Tokens
<1>7. jar' \in {NoToken, jar} \/ (e.cookie \in Tokens /\ jar' = e.cookie)
  <2>1. Keep(e.op, e.cookie, jar) \in {NoToken, jar, e.cookie}
    BY DEF Keep
  <2>2. e.cookie \notin Tokens => Keep(e.op, e.cookie, jar) \in {NoToken, jar}
    BY <1>3 DEF Keep
  <2> QED
    BY <1>2, <2>1, <2>2
<1>8. \A b \in Attempts : Gone(c, b) <=> b = a /\ e.cookie \in Tokens
  BY <1>1, <1>4, NoneBears DEF Gone
<1>9. Delivered(e)
  <2> SUFFICES ASSUME e.cookie \in Tokens, e.op \in Guarded, jar' # e.cookie PROVE e.cookie[1] \in disturbed'
    BY DEF Delivered
  <2>1. e.cookie # NoToken /\ e.cookie # <<"clear">>
    BY <1>6
  <2>2. e.ans \in {"ok", "denied"} => e.op = "page"
    BY <1>2, <2>1 DEF Keep
  <2>3. SidOf(e) \subseteq disturbed'
    BY <1>2, <1>3, <2>1, <2>2
  <2>4. exec[c][a].pc # "idle"
    BY <1>2
  <2>5. Delivered(exec[c][a])
    <3>1. exec[c][a].op \in Guarded /\ SidOf(exec[c][a]) \subseteq disturbed'
      BY <2>3
    <3> HIDE DEF e, a
    <3> QED
      BY <1>1, <2>4, <3>1, NotWaitedFor DEF a
  <2> QED
    BY <2>5 DEF Delivered
<1>10. ASSUME NEW b \in Attempts PROVE Bears(exec'[c][b]) /\ WaitedFor(c, b)'
  <2>1. CASE b = a
    BY <1>4, <2>1, NoneBears DEF WaitedFor
  <2>2. CASE b # a
    BY <1>4, <1>5, <2>2 DEF WaitedFor, CookieInv
  <2> QED
    BY <2>1, <2>2
<1>11. \A b \in Attempts : \/ exec'[c][b] = exec[c][b]
                           \/ exec'[c][b].cookie \notin Tokens /\ Loose(exec'[c][b].tok) /\ Delivered(exec[c][b])
  BY <1>4, <1>9, NoneBears DEF Loose
<1>12. jar' \in {NoToken, jar} \/ \E b \in Attempts : Gone(c, b) /\ jar' = exec[c][b].cookie
  BY <1>1, <1>7, <1>8
<1>13. Loose(call'[c].tok)
  BY <1>4 DEF Loose
<1> HIDE DEF a, e
<1> QED
  BY <1>1, <1>2, <1>4, <1>5, <1>10, <1>11, <1>12, <1>13, ProxyCookie

LEMMA DiscardCookie ==
    ASSUME SessionInv, CookieInv, NEW c \in Calls, NEW a \in Attempts, Discard(c, a)
    PROVE  CookieInv'
<1>1. SessionTypeOK /\ exec \in [Calls -> [Attempts -> Exec]]
  BY DEF SessionInv, SessionTypeOK
<1>2. /\ exec[c][a].pc = "answer" /\ (call[c].st = "idle" \/ call[c].attempt # a)
      /\ exec' = [exec EXCEPT ![c][a] = NoExec]
      /\ row' = row /\ jar' = jar /\ call' = call /\ disturbed' = disturbed
  BY DEF Discard, Become, store
<1> HIDE DEF NoExec
<1>3. /\ exec'[c][a] = NoExec /\ \A b \in Attempts \ {a} : exec'[c][b] = exec[c][b]
      /\ \A d \in Calls \ {c} : exec'[d] = exec[d]
  BY <1>1, <1>2
<1>4. Delivered(exec[c][a])
  <2>1. WaitedFor(c, a) /\ exec[c][a].pc # "idle"
    BY <1>2 DEF CookieInv
  <2>2. exec[c][a].op \in Guarded => SidOf(exec[c][a]) \subseteq disturbed'
    BY <1>2, <2>1 DEF WaitedFor
  <2>3. exec[c][a].op \in Guarded => Delivered(exec[c][a])
    BY <1>1, <2>1, <2>2, NotWaitedFor
  <2> QED
    BY <2>3 DEF Delivered
<1>5. ASSUME NEW b \in Attempts PROVE Bears(exec'[c][b]) /\ WaitedFor(c, b)'
  <2>1. CASE b = a
    BY <1>3, <2>1, NoneBears DEF WaitedFor
  <2>2. CASE b # a
    BY <1>2, <1>3, <2>2 DEF WaitedFor, CookieInv
  <2> QED
    BY <2>1, <2>2
<1>6. \A b \in Attempts : \/ exec'[c][b] = exec[c][b]
                          \/ exec'[c][b].cookie \notin Tokens /\ Loose(exec'[c][b].tok) /\ Delivered(exec[c][b])
  BY <1>3, <1>4, NoneBears DEF Loose
<1>7. Loose(call'[c].tok)
  BY <1>2 DEF Loose
<1> QED
  BY <1>1, <1>2, <1>3, <1>5, <1>6, <1>7, ProxyCookie

-----------------------------------------------------------------------------
(* The whole invariant, the cookie included. *)
CookieAndStore == SignInInv /\ CookieInv

LEMMA CookieInit == Init => CookieInv
<1> SUFFICES ASSUME Init PROVE CookieInv
  OBVIOUS
<1> HIDE DEF NoExec
<1>1. \A c \in Calls : \A a \in Attempts : exec[c][a] = NoExec
  BY DEF Init
<1>2. jar = NoToken /\ \A c \in Calls : call[c].tok = NoToken
  BY DEF Init
<1>3. TokensBehind
  BY <1>1, <1>2, NoneBears DEF TokensBehind, Behind
<1>4. \A c \in Calls : \A a \in Attempts : Bears(exec[c][a]) /\ WaitedFor(c, a)
  BY <1>1, NoneBears DEF WaitedFor
<1>5. \A s \in Sids : JarAgrees(s)
  BY <1>1, <1>2, NoneBears DEF JarAgrees
<1> QED
  BY <1>3, <1>4, <1>5 DEF CookieInv

LEMMA CookieNext == SignInInv /\ CookieInv /\ [Next]_vars => CookieInv'
<1> SUFFICES ASSUME SessionInv, StoreInv, Unsent, CookieInv, [Next]_vars PROVE CookieInv'
  BY DEF SignInInv
<1>1. SessionTypeOK
  BY DEF SessionInv
<1>2. ASSUME NEW c \in Calls,
             \/ LoadPage(c) \/ Query(c) \/ SignIn(c) \/ SignOut(c) \/ ResetPassword(c)
             \/ RevokeSession(c) \/ RevokeAllOthers(c) \/ EditUser(c) \/ GenerateResetLink(c)
      PROVE  CookieInv'
  <2>1. PICK op \in AllOps : Send(c, op)
    BY <1>2 DEF LoadPage, Query, SignIn, SignOut, ResetPassword, RevokeSession, RevokeAllOthers, EditUser,
                GenerateResetLink, AllOps, Guarded, Reads
  <2> QED
    BY <2>1, SendCookie
<1>3. ASSUME NEW c \in Calls, Timeout(c) \/ Answer(c) PROVE CookieInv'
  <2>1. call[c].st = "waiting" /\ UNCHANGED store
    BY <1>3 DEF Timeout, Answer, store
  <2>2. CASE Again(c)
    BY <2>1, <2>2, AgainCookie
  <2>3. CASE GiveUp(c) /\ UNCHANGED exec
    BY <2>1, <2>3, GiveUpCookie
  <2>4. CASE Answer(c) /\ ~Again(c)
    BY <2>4, AnswerCookie
  <2> QED
    BY <1>3, <2>2, <2>3, <2>4 DEF Timeout
<1>4. ASSUME NEW c \in Calls, NEW a \in Attempts, Step(c, a) PROVE CookieInv'
  <2>1. CASE Refresh(c, a) /\ Rotates(exec[c][a])
    BY <2>1, RotateCookie
  <2>2. CASE \E u \in Sids : CreateSession(c, a, u)
    BY <2>2, CreateCookie
  <2>3. CASE ~(Refresh(c, a) /\ Rotates(exec[c][a])) /\ ~\E u \in Sids : CreateSession(c, a, u)
    BY <1>4, <2>3, AdvanceStep
  <2> QED
    BY <2>1, <2>2, <2>3
<1>5. ASSUME NEW c \in Calls, NEW a \in Attempts, Discard(c, a) PROVE CookieInv'
  BY <1>5, DiscardCookie
<1>6. ASSUME NEW c \in Calls, NEW a \in Attempts, CacheDown(c, a) \/ Crash(c, a) PROVE CookieInv'
  BY <1>6, BrokenCookie
<1>7. CASE row' = row /\ jar' = jar /\ call' = call /\ exec' = exec /\ disturbed' = disturbed
  <2>1. TokensBehind'
    BY <1>7 DEF CookieInv, TokensBehind, Behind
  <2>2. \A c \in Calls : \A a \in Attempts : (Bears(exec[c][a]) /\ WaitedFor(c, a))'
    BY <1>7 DEF CookieInv, WaitedFor
  <2>3. ASSUME NEW s \in Sids \ disturbed PROVE JarAgrees(s)'
    <3>1. JarAgrees(s)
      BY DEF CookieInv
    <3> QED
      BY <1>7, <3>1 DEF JarAgrees, SoleBearer
  <2> QED
    BY <1>7, <2>1, <2>2, <2>3 DEF CookieInv
<1>8. CASE (\E t \in Tokens : Evict(t)) \/ Tick \/ UNCHANGED vars
  <2>1. row' = row /\ jar' = jar /\ call' = call /\ exec' = exec /\ disturbed' = disturbed
    BY <1>8 DEF Evict, Tick, vars, store
  <2> QED
    BY <1>7, <2>1
<1> QED
  BY <1>2, <1>3, <1>4, <1>5, <1>6, <1>8 DEF Next

(* The cookie of a browser whose calls are over is the token of its        *)
(* session's row however often the guard rotated it, if the session is     *)
(* undisturbed: no two executions overlapped at it, none broke off, no     *)
(* answer was lost or late, no new token was given to a page render.       *)
(* Nobody has the new token but the execution that rotated, and it either  *)
(* answers the browser or is given up at the price of a disturbed session. *)
THEOREM CookieStaysCurrent == Spec => []CookieIsCurrent
<1>1. SessionInv /\ CookieInv => CookieIsCurrent
  <2> SUFFICES ASSUME SessionInv, CookieInv, NEW s \in Sids \ disturbed, jar # NoToken, jar[1] = s,
                      \A c \in Calls : call[c].st = "idle"
               PROVE  row[s].gen = jar[2]
    BY DEF CookieIsCurrent
  <2>1. jar \in Tokens /\ SessionTypeOK
    BY DEF SessionInv, SessionTypeOK
  <2>2. JarAgrees(s)
    BY DEF CookieInv
  <2>3. ASSUME NEW c \in Calls, NEW a \in Attempts, exec[c][a].op \in Guarded, exec[c][a].cookie = <<s, row[s].gen>>
        PROVE  FALSE
    <3>1. exec[c][a].cookie \in Tokens /\ exec[c][a].cookie[1] = s
      BY <2>1, <2>3, TokenMade DEF SessionTypeOK, SessionRow
    <3>2. Bears(exec[c][a]) /\ WaitedFor(c, a)
      BY DEF CookieInv
    <3>3. exec[c][a].pc # "idle" /\ exec[c][a].tok \in Tokens /\ exec[c][a].tok[1] = s
      BY <3>1, <3>2, NoneBears DEF Bears
    <3>4. s \in SidOf(exec[c][a])
      BY <3>3, NoneBears DEF SidOf
    <3>5. SidOf(exec[c][a]) \subseteq disturbed
      BY <2>3, <3>2, <3>3 DEF WaitedFor
    <3> QED
      BY <3>4, <3>5
  <2> QED
    BY <2>1, <2>2, <2>3 DEF JarAgrees
<1>2. Init => CookieAndStore
  BY SignInInit, CookieInit DEF CookieAndStore
<1>3. CookieAndStore /\ [Next]_vars => CookieAndStore'
  BY SignInNext, CookieNext DEF CookieAndStore
<1>4. CookieAndStore => CookieIsCurrent
  BY <1>1 DEF CookieAndStore, SignInInv
<1> QED
  BY <1>2, <1>3, <1>4, PTL DEF Spec

=============================================================================
