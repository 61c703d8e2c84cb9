CONSTANTS
    Demands = {d1}
    Payments = {p1, p2}
    Requests = {r1, r2}
    Keys = {k1}
    NoKey = NoKey
    Totals = {2}
    OfflineAmounts = {1, 2}
    RefundAmounts = {}
    DeclineCodes = {}
    MaxPublish = 2
    MaxReturned = 0
SPECIFICATION Spec
SYMMETRY Symmetry
INVARIANTS BalanceConsistent KeyCollectsOnce LedgerComplete
PROPERTY OfflineWithinDues
CHECK_DEADLOCK FALSE
