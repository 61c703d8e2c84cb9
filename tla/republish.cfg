CONSTANTS
    Demands = {d1}
    Payments = {p1}
    Requests = {r1, r2}
    Keys = {k1}
    NoKey = NoKey
    Totals = {2}
    OfflineAmounts = {1, 2}
    RefundAmounts = {}
    DeclineCodes = {}
    MaxPublish = 2
    MaxReturned = 0
SPECIFICATION Spec
SYMMETRY Symmetry
CHECK_DEADLOCK FALSE
PROPERTY PaidNeverDrops
