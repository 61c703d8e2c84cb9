------------------------------ MODULE Sessions ------------------------------
(***************************************************************************)
(* Staff sign-in of one user: session rows in PostgreSQL with a Redis cache*)
(* in front (apps/api/src/auth/session.service.ts), the guard every request*)
(* passes, logout and the revocations, and the way of a request from the   *)
(* browser through the portal's proxy (apps/portal/lib), which waits only  *)
(* so long and repeats reads.                                              *)
(*                                                                         *)
(* A call is what the browser waits for; each attempt of the proxy is an   *)
(* execution in the API that goes on when the proxy has stopped waiting.   *)
(* Every database or Redis operation is a step of its own.  The raw token  *)
(* of a session is <<sid, gen>>, gen counting its rotations.               *)
(***************************************************************************)
EXTENDS Integers, FiniteSets

CONSTANTS
    Sids,        \* session rows that logins may create
    Links,       \* password reset tokens that may be issued
    Calls,       \* browser tabs and administrators with a call in flight
    MaxRetries,  \* PORTAL_API_MAX_RETRIES
    TTL,         \* SESSION_TTL_SECONDS
    Threshold,   \* SESSION_REFRESH_THRESHOLD_SECONDS
    Idle,        \* sessionIdleTimeoutSeconds()
    Absolute,    \* sessionAbsoluteTimeoutSeconds()
    MaxTime,     \* bound: the clock
    MaxGen,      \* bound: rotations of one session
    MaxCalls,    \* bound: calls made
    MaxFaults,   \* bound: Redis outages, crashes and evictions
    Readers,     \* bound: the calls that may be reads, which leave executions behind
    Ops          \* which operations calls may ask for

ASSUME SessionAssumption == /\ {MaxRetries, MaxTime, MaxGen, MaxCalls, MaxFaults} \subseteq Nat
                            /\ {TTL, Threshold, Idle, Absolute} \subseteq Nat \ {0}
                            /\ Readers \subseteq Calls /\ IsFiniteSet(Calls)

VARIABLES
    now,       \* the clock
    row,       \* row[s]: the session row
    cache,     \* cache[t]: the Redis entry of token t
    active,    \* the user is ACTIVE and has a staff role
    link,      \* link[k]: the password_reset_token row
    jar,       \* the token in the browser's cookie
    call,      \* calls in flight
    exec,      \* exec[c][a]: the API at work on attempt a of call c
    made,      \* calls made so far (only to bound them)
    faults,    \* outages, crashes and evictions so far (only to bound them)
    disturbed, \* history: sessions whose requests overlapped, broke off or lost an answer
    effects    \* history: how often the API started the operation of the call in c

store  == <<row, cache, active, link>>
vars   == <<now, store, jar, call, exec, made, faults, disturbed, effects>>

-----------------------------------------------------------------------------
(* Records *)

Attempts == 0..MaxRetries
Tokens   == Sids \X (0..MaxGen)
NoToken  == <<>>
NoEntry  == [in |-> FALSE, created |-> 0, active |-> 0, expires |-> 0]
Reads    == {"page", "read"}
Guarded  == Reads \cup {"revokeOne", "revokeOthers"}

NewExec(op, tok) ==
    [pc |-> IF op \in Guarded \cup {"logout"} THEN "lookup" ELSE "handler", op |-> op, tok |-> tok,
     rec |-> NoEntry, phase |-> 1, cookie |-> NoToken, todo |-> {}, keep |-> {}, found |-> {}, ans |-> ""]
NoExec == [NewExec("page", NoToken) EXCEPT !.pc = "idle"]

Init ==
    /\ now = 0
    /\ row = [s \in Sids |-> [st |-> "none", gen |-> 0, created |-> 0, active |-> 0, expires |-> 0]]
    /\ cache = [t \in Tokens |-> NoEntry]
    /\ active = TRUE
    /\ link = [k \in Links |-> "none"]
    /\ jar = NoToken
    /\ call = [c \in Calls |-> [st |-> "idle", op |-> "page", tok |-> NoToken, attempt |-> 0]]
    /\ exec = [c \in Calls |-> [a \in Attempts |-> NoExec]]
    /\ made = 0
    /\ faults = 0
    /\ disturbed = {}
    /\ effects = [c \in Calls |-> 0]

Become(c, a, e) == exec' = [exec EXCEPT ![c][a] = e]
Goto(c, a, pc)  == Become(c, a, [exec[c][a] EXCEPT !.pc = pc])
Answered(e, ans) == [e EXCEPT !.pc = "answer", !.ans = ans]
At(c, a, pc) == exec[c][a].pc = pc

Running(c, a) == exec[c][a].pc \notin {"idle", "answer"}
SidOf(e) == IF e.tok = NoToken THEN {} ELSE {e.tok[1]}

(* Sessions that at least two executions use at the same time. *)
Shared(ex) ==
    {s \in Sids : Cardinality({p \in Calls \X Attempts :
        /\ ex[p[1]][p[2]].pc \notin {"idle", "answer"}
        /\ \/ s \in SidOf(ex[p[1]][p[2]])
           \/ \E t \in ex[p[1]][p[2]].todo : t[1] = s
           \/ /\ ex[p[1]][p[2]].pc \in {"revList", "revCache"}
              /\ s \notin ex[p[1]][p[2]].keep}) > 1}

-----------------------------------------------------------------------------
(* The browser and the portal's proxy *)

(* A page sends a request to the portal, which forwards it with the cookie.*)
Send(c, op) ==
    /\ call[c].st = "idle"
    /\ \A a \in Attempts : exec[c][a].pc = "idle"
    /\ op \in Ops
    /\ op \in Reads => c \in Readers
    /\ made < MaxCalls
    /\ made' = made + 1
    /\ LET tok == IF op \in Guarded \cup {"logout"} THEN jar ELSE NoToken
           ex  == [exec EXCEPT ![c][0] = NewExec(op, tok)]
       IN  /\ call' = [call EXCEPT ![c] = [st |-> "waiting", op |-> op, tok |-> tok, attempt |-> 0]]
           /\ exec' = ex
           /\ disturbed' = disturbed \cup Shared(ex)
    /\ effects' = [effects EXCEPT ![c] = 0]
    /\ UNCHANGED <<now, store, jar, faults>>

(* The pages.  A form is disabled while its call is under way; the server  *)
(* component of every page and the browser's own queries are reads.        *)
LoadPage(c)        == Send(c, "page")
Query(c)           == Send(c, "read")
SignIn(c)          == Send(c, "login")
SignOut(c)         == Send(c, "logout")
ResetPassword(c)   == Send(c, "reset")
RevokeSession(c)   == Send(c, "revokeOne")
RevokeAllOthers(c) == Send(c, "revokeOthers")

(* The users page, in an administrator's browser. *)
EditUser(c) == \E op \in {"disable", "enable", "reassign"} \cap Ops : Send(c, op)
GenerateResetLink(c) == Send(c, "issue")

(* A plausible slip: every method is retried. *)
MutRetryAll(c) == call[c].attempt < MaxRetries

(* canRetry and PORTAL_API_MAX_RETRIES *)
Retryable(c) == call[c].op \in Reads /\ call[c].attempt < MaxRetries

(* Mutation: attempts are not counted. *)
MutAgainUncounted(c) ==
    /\ Retryable(c)
    /\ exec' = [exec EXCEPT ![c][0] = NewExec(call[c].op, call[c].tok)]
    /\ disturbed' = disturbed \cup Shared(exec') \cup SidOf(call[c])
    /\ UNCHANGED <<call, jar>>

(* Send the same request, with the same cookie, once more. *)
Again(c) ==
    /\ Retryable(c)
    /\ LET a  == call[c].attempt + 1
           ex == [exec EXCEPT ![c][a] = NewExec(call[c].op, call[c].tok),
                              ![c][a - 1] = IF @.pc = "answer" THEN NoExec ELSE @]
       IN  /\ exec' = ex
           /\ call' = [call EXCEPT ![c].attempt = a]
           /\ disturbed' = disturbed \cup Shared(ex) \cup SidOf(call[c])
    /\ UNCHANGED jar

(* The error page: API_UNAVAILABLE, or API_TIMEOUT for uploads.  The logout *)
(* page leaves the application whatever the answer.                        *)
GiveUp(c) ==
    /\ ~Retryable(c)
    /\ call' = [call EXCEPT ![c].st = "idle"]
    /\ disturbed' = disturbed \cup SidOf(call[c])
    /\ UNCHANGED jar

(* AbortSignal.timeout: the proxy stops waiting, the execution goes on. *)
Timeout(c) ==
    /\ call[c].st = "waiting"
    /\ Running(c, call[c].attempt)
    /\ \/ Again(c)
       \/ GiveUp(c) /\ UNCHANGED exec
    /\ UNCHANGED <<now, store, made, effects, faults>>

(* Mutation: the proxy drops Set-Cookie. *)
MutKeepOld(op, cookie, old) == IF cookie = <<"clear">> THEN NoToken ELSE old

(* The browser keeps the cookie of the answer; a server component has no   *)
(* way to pass it on.                                                      *)
Keep(op, cookie, old) ==
    CASE cookie = NoToken \/ op = "page" -> old
      [] cookie = <<"clear">> -> NoToken
      [] OTHER -> cookie

Answer(c) ==
    LET a == call[c].attempt
        e == exec[c][a]
    IN  /\ call[c].st = "waiting"
        /\ e.pc = "answer"
        /\ \/ e.ans = "down" /\ Again(c)
           \/ /\ e.ans = "down" => ~Retryable(c)
              /\ call' = [call EXCEPT ![c].st = "idle"]
              /\ jar' = IF e.ans \in {"ok", "denied"} THEN Keep(e.op, e.cookie, jar) ELSE jar
              /\ exec' = [exec EXCEPT ![c][a] = NoExec]
              /\ disturbed' = IF e.ans \in {"down", "broken"} \/ (e.op = "page" /\ e.cookie # NoToken)
                              THEN disturbed \cup SidOf(e) ELSE disturbed
        /\ UNCHANGED <<now, store, made, effects, faults>>

(* Nobody waits for this execution any more. *)
Discard(c, a) ==
    /\ exec[c][a].pc = "answer"
    /\ call[c].st = "idle" \/ call[c].attempt # a
    /\ Become(c, a, NoExec)
    /\ UNCHANGED <<now, store, jar, call, made, disturbed, effects, faults>>

-----------------------------------------------------------------------------
(* findValidSession *)

Steady == UNCHANGED <<now, active, link, jar, call, made, faults, disturbed>>

Expired(e) == e.expires <= now \/ e.active + Idle <= now \/ e.created + Absolute <= now

EntryOf(r) == [in |-> TRUE, created |-> r.created, active |-> r.active, expires |-> r.expires]

(* Mutation: the session found is not the one to keep. *)
MutFoundNotKept(e, rec) ==
    CASE e.op = "logout" -> [e EXCEPT !.pc = "outCache"]
      [] e.phase = 2     -> [e EXCEPT !.pc = "revList"]
      [] OTHER           -> [e EXCEPT !.pc = "refresh", !.rec = rec]

(* What follows when the token names a valid session, and when it does not.*)
Found(e, rec) ==
    CASE e.op = "logout" -> [e EXCEPT !.pc = "outCache"]
      [] e.phase = 2     -> [e EXCEPT !.pc = "revList", !.keep = {e.tok[1]}]
      [] OTHER           -> [e EXCEPT !.pc = "refresh", !.rec = rec]

NotFound(e) ==
    CASE e.op = "logout" -> [e EXCEPT !.pc = "outCache"]
      [] e.phase = 2     -> [e EXCEPT !.pc = "revList"]
      [] OTHER           -> Answered(e, "denied")

Lookup(c, a) ==
    LET e == exec[c][a]
    IN  /\ At(c, a, "lookup")
        /\ Become(c, a,
             IF e.tok = NoToken THEN NotFound(e)
             ELSE IF ~cache[e.tok].in THEN [e EXCEPT !.pc = "dbRead"]
             ELSE IF Expired(cache[e.tok]) THEN [e EXCEPT !.pc = "expireCache"]
             ELSE Found(e, cache[e.tok]))
        /\ UNCHANGED <<row, cache, effects>> /\ Steady

ExpireCache(c, a) ==
    /\ At(c, a, "expireCache")
    /\ cache' = [cache EXCEPT ![exec[c][a].tok] = NoEntry]
    /\ Goto(c, a, "expireRow")
    /\ UNCHANGED <<row, effects>> /\ Steady

Revoke(S) == row' = [s \in Sids |-> IF s \in S /\ row[s].st = "live"
                                    THEN [row[s] EXCEPT !.st = "revoked"] ELSE row[s]]

ExpireRow(c, a) ==
    /\ At(c, a, "expireRow")
    /\ Revoke(SidOf(exec[c][a]))
    /\ Become(c, a, NotFound(exec[c][a]))
    /\ UNCHANGED <<cache, effects>> /\ Steady

DbRead(c, a) ==
    LET e == exec[c][a]
        r == row[e.tok[1]]
    IN  /\ At(c, a, "dbRead")
        /\ Become(c, a,
             IF r.st # "live" \/ r.gen # e.tok[2] THEN NotFound(e)
             ELSE IF Expired(r) THEN [e EXCEPT !.pc = "expireRow"]
             ELSE [e EXCEPT !.pc = "fill", !.rec = EntryOf(r)])
        /\ UNCHANGED <<row, cache, effects>> /\ Steady

Fill(c, a) ==
    LET e == exec[c][a]
    IN  /\ At(c, a, "fill")
        /\ cache' = [cache EXCEPT ![e.tok] = e.rec]
        /\ Become(c, a, Found(e, e.rec))
        /\ UNCHANGED <<row, effects>> /\ Steady

-----------------------------------------------------------------------------
(* The guard: refreshSessionIfNeeded, touchSession, the user *)

(* Rotation replaces the token of the row, whatever became of the row.     *)
Refresh(c, a) ==
    LET e == exec[c][a]
        s == e.tok[1]
    IN  /\ At(c, a, "refresh")
        /\ IF e.rec.expires - now < Threshold
           THEN /\ row[s].gen < MaxGen
                /\ row' = [row EXCEPT ![s].gen = @ + 1, ![s].expires = now + TTL,
                                      ![s].active = now]
                /\ Become(c, a, [e EXCEPT !.pc = "rotDel", !.cookie = <<s, row[s].gen + 1>>,
                                          !.rec = EntryOf(row'[s])])
           ELSE /\ Goto(c, a, "touch")
                /\ UNCHANGED row
        /\ UNCHANGED <<cache, effects>> /\ Steady

RotDel(c, a) ==
    /\ At(c, a, "rotDel")
    /\ cache' = [cache EXCEPT ![exec[c][a].tok] = NoEntry]
    /\ Goto(c, a, "rotSet")
    /\ UNCHANGED <<row, effects>> /\ Steady

RotSet(c, a) ==
    /\ At(c, a, "rotSet")
    /\ cache' = [cache EXCEPT ![exec[c][a].cookie] = exec[c][a].rec]
    /\ Goto(c, a, "user")
    /\ UNCHANGED <<row, effects>> /\ Steady

(* touchSession writes the cache, then the row, in one step here: the row's*)
(* lastActiveAt is read only where the cache has no entry.  The guard      *)
(* touches a session that was not rotated a second time.                   *)
Touch(c, a) ==
    LET e == exec[c][a]
        s == e.tok[1]
    IN  /\ e.pc \in {"touch", "touchAgain"}
        /\ cache' = [cache EXCEPT ![e.tok] = [e.rec EXCEPT !.active = now]]
        /\ row' = [row EXCEPT ![s].active = now]
        /\ Goto(c, a, IF e.pc = "touch" THEN "touchAgain" ELSE "user")
        /\ UNCHANGED effects /\ Steady

GuardUser(c, a) ==
    /\ At(c, a, "user")
    /\ Become(c, a, IF active THEN [exec[c][a] EXCEPT !.pc = "handler"]
                    ELSE Answered(exec[c][a], "denied"))
    /\ UNCHANGED <<row, cache, effects>> /\ Steady

-----------------------------------------------------------------------------
(* Handlers *)

Started(c) == effects' = [effects EXCEPT ![c] = @ + 1]

(* Pages and reads only look. *)
HandleRead(c, a) ==
    /\ At(c, a, "handler") /\ exec[c][a].op \in Reads
    /\ Become(c, a, Answered(exec[c][a], "ok"))
    /\ Started(c)
    /\ UNCHANGED <<row, cache>> /\ Steady

(* DELETE sessions/:id, for a session of the user that is still live. *)
RevokeOne(c, a, s) ==
    LET ex == [exec EXCEPT ![c][a] =
                  IF row[s].st = "live"
                  THEN [@ EXCEPT !.pc = "revCache", !.todo = {<<s, row[s].gen>>}, !.keep = Sids \ {s}]
                  ELSE Answered(@, "ok")]
    IN  /\ At(c, a, "handler") /\ exec[c][a].op = "revokeOne"
        /\ exec' = ex
        /\ disturbed' = disturbed \cup Shared(ex)
        /\ Started(c)
        /\ UNCHANGED <<row, cache, now, active, link, jar, call, made, faults>>

(* POST sessions/revoke-all with keepCurrent looks the current session up  *)
(* again, by the token the request came with.                              *)
RevokeOthers(c, a) ==
    /\ At(c, a, "handler") /\ exec[c][a].op = "revokeOthers"
    /\ Become(c, a, [exec[c][a] EXCEPT !.pc = "lookup", !.phase = 2])
    /\ Started(c)
    /\ UNCHANGED <<row, cache>> /\ Steady

(* revokeAllUserSessions: list, delete the cache entries one by one, revoke*)
RevokeList(c, a) ==
    LET e == exec[c][a]
        S == {s \in Sids \ e.keep : row[s].st = "live"}
        ex == [exec EXCEPT ![c][a] = [e EXCEPT !.pc = "revCache",
                                      !.todo = {<<s, row[s].gen>> : s \in S}]]
    IN  /\ At(c, a, "revList")
        /\ exec' = ex
        /\ disturbed' = disturbed \cup Shared(ex)
        /\ UNCHANGED <<row, cache, now, active, link, jar, call, made, effects, faults>>

RevokeCache(c, a, t) ==
    /\ At(c, a, "revCache")
    /\ t \in exec[c][a].todo
    /\ cache' = [cache EXCEPT ![t] = NoEntry]
    /\ Become(c, a, [exec[c][a] EXCEPT !.todo = @ \ {t}])
    /\ UNCHANGED <<row, effects>> /\ Steady

RevokeRows(c, a) ==
    /\ At(c, a, "revCache") /\ exec[c][a].todo = {}
    /\ Revoke(Sids \ exec[c][a].keep)
    /\ Become(c, a, Answered(exec[c][a], "ok"))
    /\ UNCHANGED <<cache, effects>> /\ Steady

(* Mutation: logout only forgets the row. *)
MutLogoutKeepsCache(c, a) ==
    /\ At(c, a, "outCache")
    /\ Goto(c, a, "outRow")
    /\ UNCHANGED <<row, cache, effects>> /\ Steady

(* logout: deleteSessionByToken, clearSessionCookie *)
LogoutCache(c, a) ==
    LET e == exec[c][a]
    IN  /\ At(c, a, "outCache")
        /\ cache' = IF e.tok = NoToken THEN cache ELSE [cache EXCEPT ![e.tok] = NoEntry]
        /\ Goto(c, a, "outRow")
        /\ UNCHANGED <<row, effects>> /\ Steady

LogoutRow(c, a) ==
    LET e == exec[c][a]
    IN  /\ At(c, a, "outRow")
        /\ Revoke({s \in SidOf(e) : row[s].gen = e.tok[2]})
        /\ Become(c, a, [Answered(e, "ok") EXCEPT !.cookie = <<"clear">>])
        /\ Started(c)
        /\ UNCHANGED cache /\ Steady

(* login: an active staff user with the right password gets a new session, *)
(* anyone else a refusal.                                                  *)
Login(c, a) ==
    /\ At(c, a, "handler") /\ exec[c][a].op = "login"
    /\ \/ active /\ Goto(c, a, "create")
       \/ Become(c, a, Answered(exec[c][a], "denied"))
    /\ UNCHANGED <<row, cache, effects>> /\ Steady

CreateSession(c, a, s) ==
    LET r == [st |-> "live", gen |-> 0, created |-> now, active |-> now, expires |-> now + TTL]
        ex == [exec EXCEPT ![c][a] = [@ EXCEPT !.pc = "createCache", !.cookie = <<s, 0>>,
                                               !.tok = <<s, 0>>, !.rec = EntryOf(r)]]
    IN  /\ At(c, a, "create")
        /\ row[s].st = "none"
        /\ row' = [row EXCEPT ![s] = r]
        /\ exec' = ex
        /\ disturbed' = disturbed \cup Shared(ex)
        /\ Started(c)
        /\ UNCHANGED <<cache, now, active, link, jar, call, made, faults>>

CreateCache(c, a) ==
    LET e == exec[c][a]
    IN  /\ At(c, a, "createCache")
        /\ cache' = [cache EXCEPT ![e.cookie] = e.rec]
        /\ Become(c, a, Answered(e, "ok"))
        /\ UNCHANGED <<row, effects>> /\ Steady

(* users: deactivate and update write the user, then revoke its sessions;  *)
(* making a user ACTIVE again revokes nothing.                             *)
AdminUpdate(c, a) ==
    LET e == exec[c][a]
    IN  /\ At(c, a, "handler") /\ e.op \in {"disable", "enable", "reassign"}
        /\ active' = CASE e.op = "disable" -> FALSE
                       [] e.op = "enable"  -> TRUE
                       [] OTHER -> active
        /\ Become(c, a, IF e.op = "enable" THEN Answered(e, "ok") ELSE [e EXCEPT !.pc = "revList"])
        /\ Started(c)
        /\ UNCHANGED <<row, cache, now, link, jar, call, made, disturbed, faults>>

(* createPasswordResetTokenForUser: drop the unused tokens, add a new one. *)
IssueDrop(c, a) ==
    /\ At(c, a, "handler") /\ exec[c][a].op = "issue"
    /\ link' = [k \in Links |-> IF link[k] = "unused" THEN "dropped" ELSE link[k]]
    /\ Goto(c, a, "issue")
    /\ Started(c)
    /\ UNCHANGED <<row, cache, now, active, jar, call, made, disturbed, faults>>

IssueAdd(c, a, k) ==
    /\ At(c, a, "issue")
    /\ link[k] = "none"
    /\ link' = [link EXCEPT ![k] = "unused"]
    /\ Become(c, a, Answered(exec[c][a], "ok"))
    /\ UNCHANGED <<row, cache, effects, now, active, jar, call, made, disturbed, faults>>

(* consumePasswordResetToken: read the token; in one transaction set the   *)
(* password and use up every token of the user; revoke all sessions.  The  *)
(* transaction fails when the row it read was dropped for a newer link.    *)
ResetRead(c, a, k) ==
    /\ At(c, a, "handler") /\ exec[c][a].op = "reset"
    /\ Become(c, a, IF link[k] = "unused" THEN [exec[c][a] EXCEPT !.pc = "resetTx", !.found = {k}]
                    ELSE Answered(exec[c][a], "denied"))
    /\ UNCHANGED <<row, cache, effects>> /\ Steady

ResetFails(c, a) ==
    /\ At(c, a, "resetTx")
    /\ \E k \in exec[c][a].found : link[k] = "dropped"
    /\ Become(c, a, Answered(exec[c][a], "denied"))
    /\ UNCHANGED <<row, cache, effects>> /\ Steady

ResetCommit(c, a) ==
    /\ At(c, a, "resetTx")
    /\ \A k \in exec[c][a].found : link[k] # "dropped"
    /\ link' = [k \in Links |-> IF link[k] = "unused" THEN "used" ELSE link[k]]
    /\ Goto(c, a, "revList")
    /\ Started(c)
    /\ UNCHANGED <<row, cache, now, active, jar, call, made, disturbed, faults>>

-----------------------------------------------------------------------------
(* Faults and time *)

(* Redis cannot be reached: storeUnavailable, answered as 503. *)
CacheDown(c, a) ==
    /\ faults < MaxFaults
    /\ faults' = faults + 1
    /\ exec[c][a].pc \in {"lookup", "expireCache", "fill", "rotDel", "rotSet", "touch", "touchAgain",
                          "outCache", "revCache", "createCache"}
    /\ Become(c, a, Answered(exec[c][a], "down"))
    /\ disturbed' = disturbed \cup SidOf(exec[c][a]) \cup {t[1] : t \in exec[c][a].todo}
    /\ UNCHANGED <<now, store, jar, call, made, effects>>

(* The API process dies in the middle: the connection breaks. *)
Crash(c, a) ==
    /\ faults < MaxFaults
    /\ faults' = faults + 1
    /\ Running(c, a)
    /\ Become(c, a, Answered(exec[c][a], "broken"))
    /\ disturbed' = disturbed \cup SidOf(exec[c][a]) \cup {t[1] : t \in exec[c][a].todo}
    /\ UNCHANGED <<now, store, jar, call, made, effects>>

(* Redis drops an entry, at its TTL or under pressure. *)
Evict(t) ==
    /\ faults < MaxFaults
    /\ faults' = faults + 1
    /\ cache[t].in
    /\ cache' = [cache EXCEPT ![t] = NoEntry]
    /\ UNCHANGED <<now, row, active, link, jar, call, exec, made, disturbed, effects>>

(* The timeouts of a session are minutes and days, those of a request      *)
(* seconds: the clock is not seen to move while the API is at work.        *)
Tick ==
    /\ now < MaxTime
    /\ \A c \in Calls, a \in Attempts : ~Running(c, a)
    /\ now' = now + 1
    /\ UNCHANGED <<store, jar, call, exec, made, disturbed, effects, faults>>

-----------------------------------------------------------------------------
(* An execution in the API takes its next step. *)
Step(c, a) ==
    \/ Lookup(c, a) \/ ExpireCache(c, a) \/ ExpireRow(c, a) \/ DbRead(c, a) \/ Fill(c, a)
    \/ Refresh(c, a) \/ RotDel(c, a) \/ RotSet(c, a) \/ Touch(c, a) \/ GuardUser(c, a)
    \/ HandleRead(c, a) \/ RevokeOthers(c, a) \/ RevokeList(c, a) \/ RevokeRows(c, a)
    \/ LogoutCache(c, a) \/ LogoutRow(c, a) \/ Login(c, a) \/ CreateCache(c, a)
    \/ AdminUpdate(c, a) \/ IssueDrop(c, a) \/ ResetFails(c, a) \/ ResetCommit(c, a)
    \/ \E s \in Sids : RevokeOne(c, a, s) \/ CreateSession(c, a, s)
    \/ \E t \in Tokens : RevokeCache(c, a, t)
    \/ \E k \in Links : IssueAdd(c, a, k) \/ ResetRead(c, a, k)

Next ==
    \/ \E c \in Calls :
           \/ LoadPage(c) \/ Query(c) \/ SignIn(c) \/ SignOut(c) \/ ResetPassword(c)
           \/ RevokeSession(c) \/ RevokeAllOthers(c) \/ EditUser(c) \/ GenerateResetLink(c)
           \/ Timeout(c) \/ Answer(c)
    \/ \E c \in Calls, a \in Attempts :
           Step(c, a) \/ Discard(c, a) \/ CacheDown(c, a) \/ Crash(c, a)
    \/ \E t \in Tokens : Evict(t)
    \/ Tick

Spec == Init /\ [][Next]_vars

(* The proxy's timer fires and it takes the answer it has; the API, Redis  *)
(* and the clock promise nothing.                                          *)
FairSpec == Spec /\ \A c \in Calls : WF_vars(Timeout(c)) /\ WF_vars(Answer(c))

-----------------------------------------------------------------------------
(* Properties *)

InUse(s) == \E c \in Calls, a \in Attempts :
                Running(c, a) /\ (s \in SidOf(exec[c][a]) \/ \E t \in exec[c][a].todo : t[1] = s)

(* A session that was signed out, revoked or expired has no cache entry    *)
(* under any token it ever had, so no later request finds it, unless its   *)
(* requests overlapped one another or broke off (deleteCache before the    *)
(* row, rotation, writeCache on a miss).                                   *)
RevokedIsForgotten ==
    \A s \in Sids \ disturbed :
        row[s].st = "revoked" /\ ~InUse(s) => \A g \in 0..MaxGen : ~cache[<<s, g>>].in

(* The browser's cookie is the token of its session's row however often it *)
(* was rotated, unless requests overlapped at the session, broke off or    *)
(* crashed, or their answer was lost, late or given to a server component, *)
(* which drops the new cookie.                                             *)
CookieIsCurrent ==
    \A s \in Sids \ disturbed :
        /\ jar # NoToken
        /\ jar[1] = s
        /\ \A c \in Calls : call[c].st = "idle"
        => row[s].gen = jar[2]

(* The operation of one call is started at most once, however late its     *)
(* answer is: only reads are sent again (proxyToApi's canRetry).           *)
MutationOnce == \A c \in Calls : call[c].op \notin Reads => effects[c] <= 1

(* The browser gets an answer to every call even if the API never finishes:*)
(* the proxy's timeouts and retries end.                                   *)
EveryCallAnswered == \A c \in Calls : call[c].st = "waiting" ~> call[c].st = "idle"

(* Revoke-all with keepCurrent leaves the session that asked for it alone, *)
(* if the guard did not rotate it on the way: the handler looks the session*)
(* up by the token the request came with, which a rotation has replaced, and *)
(* then revokes the current session with the others.                       *)
CurrentIsKept ==
    [][\A c \in Calls, a \in Attempts, s \in Sids \ disturbed :
          /\ exec[c][a].op = "revokeOthers"
          /\ exec[c][a].pc = "revCache"
          /\ exec[c][a].cookie = NoToken
          /\ exec'[c][a].ans = "ok"
          /\ s \in SidOf(exec[c][a])
          => row'[s].st = row[s].st]_vars

=============================================================================
