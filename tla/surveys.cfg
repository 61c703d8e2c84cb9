CONSTANTS
    r1 = r1
    r2 = r2
    r3 = r3
    j1 = j1
    j2 = j2
    j3 = j3
    j4 = j4
    Rows = {r1, r2, r3, r4, r5}
    Wards = {1, 2}
    Nums = {1, 2}
    Uses = {"R"}
    Vals = {"a", "b"}
    Others = {"p"}
    Jobs = {j1, j2, j3, j4}
    Files <- MCFiles
    Strategy <- MCStrategy
    Legacy <- MCLegacy
    Execs = {e1, e2}
    Reqs = {q1, q2}
    Tabs = {t1}
    Ops = {"list", "open", "load", "create", "delete", "ARCHIVED", "ACTIVE"}
    PruneFloor = 1
    MaxUploads = 1
    MaxReq = 2
    MaxCrashes = 1
    MaxStarts = 2
    Spent <- MCSpent
SPECIFICATION FairSpec
INVARIANTS IdCarriesNumber
PROPERTIES RegistryImplemented FileIsTheWard PruneSparesTheFile StartedJobEnds
CHECK_DEADLOCK FALSE
