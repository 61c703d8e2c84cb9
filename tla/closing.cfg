CONSTANTS
    Surveys = {s1, s2}
    Years = {y1, y2}
    Tasks = {t1, t2}
    Currents = {1}
    PayAmounts = {2}
    PreviewLimit = 2
    MaxPublish = 2
    MaxPaid = 2
SPECIFICATION Spec
SYMMETRY Symmetry
INVARIANTS TypeOK ArrearsByCommittedRun
PROPERTIES CarriedOnce PreviewIsCarried PublishedStays
CHECK_DEADLOCK FALSE
