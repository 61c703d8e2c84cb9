----------------------------- MODULE MCSessions -----------------------------
(* Sessions for TLC, from the state after one login and with one reset link *)
(* handed out; and beside it, never interleaved with it, the throttle.      *)
EXTENDS Sessions, LoginProtection

VARIABLE part   \* which of the two this behaviour is about

FirstRow == [st |-> "live", gen |-> 0, created |-> 0, active |-> 0, expires |-> TTL]

SignedIn ==
    /\ LET s == CHOOSE x \in Sids : TRUE
       IN  /\ row = [r \in Sids |-> IF r = s THEN FirstRow
                                    ELSE [FirstRow EXCEPT !.st = "none", !.expires = 0]]
           /\ cache = [t \in Tokens |-> IF t = <<s, 0>> THEN EntryOf(FirstRow) ELSE NoEntry]
           /\ jar = <<s, 0>>
    /\ link = LET l == CHOOSE x \in Links : TRUE
              IN  [k \in Links |-> IF k = l THEN "unused" ELSE "none"]
    /\ now = 0 /\ active = TRUE
    /\ call = [c \in Calls |-> [st |-> "idle", op |-> "page", tok |-> NoToken, attempt |-> 0]]
    /\ exec = [c \in Calls |-> [a \in Attempts |-> NoExec]]
    /\ made = 0 /\ faults = 0 /\ disturbed = {} /\ effects = [c \in Calls |-> 0]

MCInit == SignedIn /\ LoginInit /\ part \in {"sessions", "login"}

MCNext == \/ part = "sessions" /\ Next /\ UNCHANGED <<loginVars, part>>
          \/ part = "login" /\ LoginNext /\ UNCHANGED <<vars, part>>

MCSpec == /\ MCInit
          /\ [][MCNext]_<<vars, loginVars, part>>
          /\ \A c \in Calls : WF_vars(Timeout(c)) /\ WF_vars(Answer(c))
=============================================================================
