CONSTANTS
    Surveys = {s1, s2}
    Years = {y1, y2}
    Tasks = {t1}
    Currents = {1}
    PayAmounts = {}
    PreviewLimit = 1
    MaxPublish = 2
    MaxPaid = 0
SPECIFICATION Spec
SYMMETRY Symmetry
PROPERTY UnpaidIsCarried
CHECK_DEADLOCK FALSE
