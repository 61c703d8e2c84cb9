--------------------------- MODULE LoginProtection ---------------------------
(***************************************************************************)
(* The login throttle of one email address in Redis (login-protection.     *)
(* service.ts): a failure counter with a window and a temporary lock, and  *)
(* sign-in attempts that check the lock, verify the password, count and    *)
(* lock in separate steps.                                                 *)
(***************************************************************************)
EXTENDS Integers, FiniteSets

CONSTANTS
    Logins,      \* sign-in attempts in flight
    MaxFailures, \* LOGIN_MAX_FAILURES
    MaxCrashes,  \* bound: attempts cut off by a crash or a Redis outage
    MaxCount     \* bound: the failure counter

ASSUME LoginAssumption == /\ IsFiniteSet(Logins)
                          /\ MaxFailures \in Nat \ {0} /\ MaxCrashes \in Nat /\ MaxCount \in Nat

VARIABLES
    failures, \* the counter login:fail:<email>, 0 when the key is absent
    window,   \* the counter has an expiry
    lock,     \* login:lock:<email> is set
    attempt,  \* attempts in flight: [pc, n]
    guesses,  \* history: wrong passwords verified since the last reset
    crashes   \* history: attempts cut off since the last reset

loginVars == <<failures, window, lock, attempt, guesses, crashes>>

LoginInit ==
    /\ failures = 0 /\ window = FALSE /\ lock = FALSE
    /\ attempt = [l \in Logins |-> [pc |-> "idle", n |-> 0]]
    /\ guesses = 0 /\ crashes = 0

GoOn(l, pc, n) == attempt' = [attempt EXCEPT ![l] = [pc |-> pc, n |-> n]]

Uncounted == Cardinality({l \in Logins : attempt[l].pc = "count"})

(* assertLoginAllowed *)
AssertAllowed(l) ==
    /\ attempt[l].pc = "idle" /\ ~lock
    /\ GoOn(l, "verify", 0)
    /\ UNCHANGED <<failures, window, lock, guesses, crashes>>

(* verifyPassword and the other grounds for refusal. *)
WrongPassword(l) ==
    /\ attempt[l].pc = "verify"
    /\ guesses' = guesses + 1
    /\ GoOn(l, "count", 0)
    /\ UNCHANGED <<failures, window, lock, crashes>>

(* A right password deletes the counter and the lock. *)
ClearFailures(l) ==
    /\ attempt[l].pc = "verify"
    /\ failures' = 0 /\ window' = FALSE /\ lock' = FALSE
    /\ guesses' = Uncounted
    /\ crashes' = 0
    /\ GoOn(l, "idle", 0)

(* incrementFailures: INCR, and EXPIRE on the first *)
IncrementFailures(l) ==
    /\ attempt[l].pc = "count" /\ failures < MaxCount
    /\ failures' = failures + 1
    /\ GoOn(l, IF failures = 0 THEN "expire" ELSE "slow", failures + 1)
    /\ UNCHANGED <<window, lock, guesses, crashes>>

SetWindow(l) ==
    /\ attempt[l].pc = "expire"
    /\ window' = (failures > 0)
    /\ GoOn(l, "slow", attempt[l].n)
    /\ UNCHANGED <<failures, lock, guesses, crashes>>

(* Mutation: one failure more than the limit. *)
MutSetLockLate(l) ==
    /\ attempt[l].pc = "slow"
    /\ lock' = (lock \/ attempt[l].n > MaxFailures)
    /\ GoOn(l, "idle", 0)
    /\ UNCHANGED <<failures, window, guesses, crashes>>

(* After the delay: lock when the limit is reached. *)
SetLock(l) ==
    /\ attempt[l].pc = "slow"
    /\ lock' = (lock \/ attempt[l].n >= MaxFailures)
    /\ GoOn(l, "idle", 0)
    /\ UNCHANGED <<failures, window, guesses, crashes>>

(* The process dies or Redis fails: the attempt ends where it is. *)
CutOff(l) ==
    /\ attempt[l].pc # "idle" /\ crashes < MaxCrashes
    /\ crashes' = crashes + 1
    /\ GoOn(l, "idle", 0)
    /\ UNCHANGED <<failures, window, lock, guesses>>

(* Redis expires the counter at the end of the window, or the lock. *)
Expire ==
    /\ \/ window /\ failures' = 0 /\ window' = FALSE /\ UNCHANGED lock
       \/ lock /\ lock' = FALSE /\ UNCHANGED <<failures, window>>
    /\ guesses' = Uncounted
    /\ crashes' = 0
    /\ UNCHANGED attempt

LoginNext ==
    \/ \E l \in Logins : \/ AssertAllowed(l) \/ WrongPassword(l) \/ ClearFailures(l)
                         \/ IncrementFailures(l) \/ SetWindow(l) \/ SetLock(l) \/ CutOff(l)
    \/ Expire

LoginSpec == LoginInit /\ [][LoginNext]_loginVars

(* Between two resets (the window or the lock ends, or a right password) no *)
(* more wrong passwords are verified than the limit, the attempts that were *)
(* already past the lock check, and one for each attempt cut off before it *)
(* could count or lock.                                                    *)
GuessesBounded == guesses <= MaxFailures - 1 + Cardinality(Logins) + crashes
=============================================================================
