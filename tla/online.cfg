CONSTANTS
    Demands = {d1}
    Payments = {p1}
    Requests = {r1, r2}
    Keys = {k1}
    NoKey = NoKey
    Totals = {2}
    OfflineAmounts = {}
    RefundAmounts = {1, 2}
    DeclineCodes = {"FAIL", "UNKNOWN"}
    MaxPublish = 1
    MaxReturned = 3
SPECIFICATION Spec
SYMMETRY Symmetry
INVARIANTS TypeOK SettledMoneyReceived SettledHasReceipt SuccessIsCredited RefundBacked
CHECK_DEADLOCK FALSE
