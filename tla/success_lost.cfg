CONSTANTS
    Demands = {d1}
    Payments = {p1}
    Requests = {r1, r2}
    Keys = {k1}
    NoKey = NoKey
    Totals = {2}
    OfflineAmounts = {}
    RefundAmounts = {}
    DeclineCodes = {"FAIL", "UNKNOWN"}
    MaxPublish = 1
    MaxReturned = 0
SPECIFICATION Spec
SYMMETRY Symmetry
CHECK_DEADLOCK FALSE
PROPERTY SuccessKept
