------------------------------- MODULE Access -------------------------------
(***************************************************************************)
(* The role matrix and the user form of the settings, and the API behind   *)
(* them.  Both replace a set of rows (the permissions of a role, the roles *)
(* of a user) by deleting all and creating the new ones, in statements     *)
(* that are not in a transaction; a user's are between the one that writes *)
(* his status and the one that ends his sessions, while he may be signing  *)
(* in.  INACTIVE stands for SUSPENDED too: the code treats them alike.     *)
(***************************************************************************)
EXTENDS Integers, FiniteSets

CONSTANTS
    Grants,      \* permissions, or roles that can be given to staff
    Operator,    \* the role of those who are given none
    Admins,
    MaxSaves,    \* bound on requests; nothing is edited after the last
    MaxDeaths    \* bound on API requests that die half-way

ASSUME AccessConstants == Operator \in Grants /\ MaxSaves \in Nat /\ MaxDeaths \in Nat

VARIABLES
    holder,    \* whose rows these are: a role's or a user's
    status,    \* the user's, or "none" before there is one; a role's is ACTIVE
    rows,      \* the grants of the role or user
    list,      \* list[a]: the rows as the page of admin a loaded it, if it has
    save,      \* save[a]: the request of admin a
    signin,    \* a login of the user that has looked at his status
    signed,    \* the user has sessions
    stray,     \* sessions a revocation missed: they began, or it died, too late
    drafts,    \* what was ever saved, and what there was at first
    spoiled,   \* saves overlapped, or one died half-way
    count      \* requests and deaths

accessVars == <<holder, status, rows, list, save, signin, signed, stray, drafts, spoiled,
                count>>
sessionVars == <<signin, signed, stray>>

NoSave == [pc |-> "idle", set |-> {}, status |-> "ACTIVE"]

-----------------------------------------------------------------------------
(* The pages.  The boxes of a form bring its draft to any set of grants,    *)
(* one by one or those of a resource together, and a draft in hand stays    *)
(* when the rows are loaded again: what is saved owes nothing to the rows.  *)

Editing == count.saves < MaxSaves
Counted == count' = [count EXCEPT !.saves = @ + 1]

\* The users' or roles' query, again after every save of the same page
LoadRows(a) ==
    /\ Editing /\ status # "none" /\ list[a] # {rows}
    /\ list' = [list EXCEPT ![a] = {rows}]
    /\ UNCHANGED <<holder, status, rows, save, sessionVars, drafts, spoiled, count>>

\* resolveRoleIds: a user is never given no role at all
Resolve(set) == IF holder = "user" /\ set = {} THEN {Operator} ELSE set

\* The matrix is saved only when it differs from what the page knows; the
\* user form always sends its roles and its status
MaySave(a, draft) == list[a] # {} /\ (holder = "role" => draft \notin list[a])

SaveForm(a, draft, s) ==
    /\ Editing /\ save[a].pc = "idle" /\ MaySave(a, draft)
    /\ holder = "role" => s = "ACTIVE"
    /\ save' = [save EXCEPT ![a] = [pc     |-> IF holder = "user" THEN "status" ELSE "delete",
                                    set    |-> draft,
                                    status |-> s]]
    /\ drafts' = drafts \cup {Resolve(draft)}
    /\ Counted
    /\ UNCHANGED <<holder, status, rows, list, sessionVars, spoiled>>

\* The rows are loaded again
Saved(a) ==
    /\ save[a].pc = "ok"
    /\ list' = [list EXCEPT ![a] = {rows}]
    /\ save' = [save EXCEPT ![a] = NoSave]
    /\ UNCHANGED <<holder, status, rows, sessionVars, drafts, spoiled, count>>

SaveFailed(a) ==
    /\ save[a].pc = "error"
    /\ save' = [save EXCEPT ![a] = NoSave]
    /\ UNCHANGED <<holder, status, rows, list, sessionVars, drafts, spoiled, count>>

-----------------------------------------------------------------------------
(* UsersService.create, update and deactivate, and updateRole.             *)

\* One transaction, and one user to an e-mail address
CreateUser(set) ==
    /\ Editing /\ status = "none"
    /\ status' = "ACTIVE" /\ rows' = Resolve(set) /\ drafts' = {Resolve(set)}
    /\ Counted
    /\ UNCHANGED <<holder, list, save, sessionVars, spoiled>>

\* DELETE: the update of the status alone
Deactivate(a) ==
    /\ Editing /\ holder = "user" /\ status # "none" /\ save[a].pc = "idle"
    /\ save' = [save EXCEPT ![a] = [pc |-> "deactivate", set |-> {}, status |-> "INACTIVE"]]
    /\ Counted
    /\ UNCHANGED <<holder, status, rows, list, sessionVars, drafts, spoiled>>

WriteStatus(a) ==
    /\ save[a].pc \in {"status", "deactivate"}
    /\ status' = save[a].status
    /\ save' = [save EXCEPT ![a].pc = IF @ = "status" THEN "delete" ELSE "revoke"]
    /\ UNCHANGED <<holder, rows, list, sessionVars, drafts, spoiled, count>>

\* Another save is between its two statements
Overlapped(a) == \E b \in Admins \ {a} : save[b].pc = "create"

\* Mutant: the rows that were there stay
MutDeleteAll == rows

DeleteAll == {}

DeleteRows(a) ==
    /\ save[a].pc = "delete"
    /\ rows' = DeleteAll
    /\ save' = [save EXCEPT ![a].pc = "create"]
    /\ spoiled' = (spoiled \/ Overlapped(a))
    /\ UNCHANGED <<holder, status, list, sessionVars, drafts, count>>

\* The sessions end when a user is made inactive or his roles change, which they do
\* not when all were taken away (rolesChanging is dto.roleIds.length)
EndsSessions(a) == holder = "user" /\ (save[a].status # "ACTIVE" \/ save[a].set # {})

\* createMany is one statement: a row that exists already fails it all.
\* A save that ran alone makes good what went wrong before
CreateRows(a) ==
    LET set == Resolve(save[a].set)
        clash == rows \cap set # {}
    IN  /\ save[a].pc = "create"
        /\ rows' = IF clash THEN rows ELSE rows \cup set
        /\ save' = [save EXCEPT ![a].pc = IF clash THEN "error"
                                          ELSE IF EndsSessions(a) THEN "revoke" ELSE "ok"]
        /\ spoiled' = (spoiled /\ (clash \/ Overlapped(a) \/ rows # {}))
        /\ stray' = (stray \/ (clash /\ EndsSessions(a)))
        /\ UNCHANGED <<holder, status, list, signin, signed, drafts, count>>

RevokeSessions(a) ==
    /\ save[a].pc = "revoke"
    /\ signed' = FALSE /\ stray' = FALSE
    /\ save' = [save EXCEPT ![a].pc = "ok"]
    /\ UNCHANGED <<holder, status, rows, list, signin, drafts, spoiled, count>>

\* The API process dies half-way, and the page sees an error
RequestDies(a) ==
    /\ save[a].pc \in {"status", "delete", "create", "revoke"} /\ count.deaths < MaxDeaths
    /\ save' = [save EXCEPT ![a].pc = "error"]
    /\ spoiled' = (spoiled \/ save[a].pc = "create")
    /\ stray' = (stray \/ (save[a].pc # "status" /\ EndsSessions(a)))
    /\ count' = [count EXCEPT !.deaths = @ + 1]
    /\ UNCHANGED <<holder, status, rows, list, signin, signed, drafts>>

-----------------------------------------------------------------------------
(* AuthService.login: the status is looked at well before the session is made. *)

LookAtStatus ==
    /\ holder = "user" /\ ~signin /\ status = "ACTIVE" /\ rows # {} /\ ~signed
    /\ signin' = TRUE
    /\ UNCHANGED <<holder, status, rows, list, save, signed, stray, drafts, spoiled, count>>

CreateSession ==
    /\ signin
    /\ signin' = FALSE /\ signed' = TRUE /\ stray' = (stray \/ status # "ACTIVE")
    /\ UNCHANGED <<holder, status, rows, list, save, drafts, spoiled, count>>

-----------------------------------------------------------------------------
AccessInit ==
    /\ holder \in {"role", "user"} /\ rows \in SUBSET Grants
    /\ status \in IF holder = "role" THEN {"ACTIVE"} ELSE {"none", "ACTIVE", "INACTIVE"}
    /\ status = "none" => rows = {}
    /\ list = [a \in Admins |-> {}] /\ save = [a \in Admins |-> NoSave]
    /\ signin = FALSE /\ signed = (status = "ACTIVE") /\ stray = FALSE
    /\ drafts = {rows} /\ spoiled = FALSE /\ count = [saves |-> 0, deaths |-> 0]

AccessNext ==
    \/ \E a \in Admins :
          \/ LoadRows(a) \/ Saved(a) \/ SaveFailed(a) \/ Deactivate(a) \/ WriteStatus(a)
          \/ DeleteRows(a) \/ CreateRows(a) \/ RevokeSessions(a) \/ RequestDies(a)
          \/ \E draft \in SUBSET Grants, s \in {"ACTIVE", "INACTIVE"} : SaveForm(a, draft, s)
    \/ \E set \in SUBSET Grants : CreateUser(set)
    \/ LookAtStatus \/ CreateSession

AccessSpec == AccessInit /\ [][AccessNext]_accessVars

-----------------------------------------------------------------------------
\* The rows, the drafts and the requests hold what they may hold
AccessTypeOK ==
    LET Set == SUBSET Grants
        Live == {"ACTIVE", "INACTIVE"}
    IN  /\ holder \in {"role", "user"} /\ rows \in Set /\ status \in Live \cup {"none"}
        /\ \A a \in Admins : list[a] \subseteq Set
        /\ save \in [Admins -> [pc : {"idle", "status", "deactivate", "delete", "create", "revoke",
                                      "ok", "error"}, set : Set, status : Live]]
        /\ {signin, signed, stray, spoiled} \subseteq BOOLEAN

\* Between saves a role has exactly the permissions, and a user exactly the
\* roles, that one admin saved, never a mixture and never none by accident,
\* although the rows are replaced in two statements (updateRole and update
\* delete, then create).  The exceptions the code has: two saves overlapped,
\* or a request died between the statements, until the next save
GrantsAreOneDraft ==
    (\A a \in Admins : save[a].pc # "create") => rows \in drafts \/ spoiled

\* A user who was made inactive has no session left when the requests are done
\* (update and deactivate revoke after they write the status), although he may
\* be signing in and another admin saving him.  The exceptions: a login that had
\* looked at the status before, or a request that died or failed on the way
InactiveHasNoSession ==
    (\A a \in Admins : save[a].pc \in {"idle", "ok", "error"})
        => (status = "INACTIVE" /\ signed => stray)

\* What an admin saved is what holds: the grants are one admin's, and a user made
\* inactive is signed out (updateRole, UsersService.update and deactivate)
AccessIsAsSaved == GrantsAreOneDraft /\ InactiveHasNoSession
=============================================================================
