CONSTANTS
    Sids = {s1, s2}
    Links = {k1, k2, k3}
    Calls = {c1, c2}
    MaxRetries = 1
    TTL = 2
    Threshold = 2
    Idle = 2
    Absolute = 2
    MaxTime = 2
    MaxGen = 1
    MaxCalls = 2
    MaxFaults = 1
    Readers = {c1}
    Ops = {"page", "read", "revokeOne", "revokeOthers", "logout", "login", "disable", "enable", "issue", "reset"}
    Logins = {l1, l2, l3}
    MaxFailures = 3
    MaxCrashes = 1
    MaxCount = 7
SPECIFICATION MCSpec
INVARIANTS RevokedIsForgotten CookieIsCurrent MutationOnce GuessesBounded
PROPERTIES EveryCallAnswered CurrentIsKept
CHECK_DEADLOCK FALSE
