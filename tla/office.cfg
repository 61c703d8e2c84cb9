CONSTANTS
    Wards = {w1, w2}
    Rates = {0, 1}
    Pages = {p1}
    Reqs = {q1, q2}
    MaxRateReq = 2
    MaxEdits = 1
    Codes = {y1, y2}
    Rules = {r1}
    Values = {a}
    Dates = {1, 2}
    All = all
    Clerks = {p1, p2}
    Ops = {"addYear", "editYear", "activate", "deactivate", "deleteYear", "addRule", "editRule", "publish", "archive", "remove"}
    MaxAsk = 2
    Parcels = {p1}
    MaxDue = 2
    DeskReqs = {q1, q2}
    MaxConfirms = 2
    MaxPasses = 1
    MaxLate = 1
    Tabs = {t1, t2, t3}
    Followed = {t3}
    Orders = {1, 2}
    Terms = {"a", "b"}
    MaxSearches = 3
    MaxFailures = 1
    Finds = {"", "x"}
    Filters = {"all", "one"}
    MaxPages = 2
    Grants = {g1, g2}
    Operator = g1
    Admins = {a1, a2}
    MaxSaves = 2
    MaxDeaths = 1
    Holdings <- MCHoldings
    Tables <- MCTables
    Books <- MCBooks
    CarriedSums = {2}
    MaxReceipts = 2
    Charges = {150, 300}
    Givebacks = {50, 120, 150}
    MaxDays = 2
    MaxRefunds = 3
    Storeys = {"ground", "first"}
    Uses = {"home", "shop"}
    Roofs = {"rcc"}
    Sketches <- MCSketches
    Records <- MCRecords
    MaxFloors = 2
    MaxChanges = 2
    MaxSubmits = 2
    MaxDrifts = 1
    FiscalYears = {y1, y2}
    MaxPreviews = 3
    MaxCommits = 2
    DashWards = {w1, w2}
    Homes = {h1, h2}
    Coins = {c1}
    Whole = whole
    MaxWrites = 2
    MaxMoments = 2
    MaxLooks = 1
SPECIFICATION MCSpec
INVARIANTS OfficeTypeOK RatesAreVersioned YearsDisjoint PassCollectsOnce NoOpenOrderPassedBy SuccessShownIsPaid ResultsAnswerQuery ScreensAgree AccessIsAsSaved PapersAgree BooksAgree FloorsAsMeant CommitsWhatIsShown
PROPERTIES BilledAsShown ConfirmingEnds
CHECK_DEADLOCK FALSE
