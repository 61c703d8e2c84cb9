CONSTANTS
    Surveys = {s1}
    Years = {y1, y2}
    Tasks = {t1, t2}
    Currents = {1}
    PayAmounts = {}
    PreviewLimit = 2
    MaxPublish = 3
    MaxPaid = 0
SPECIFICATION Spec
SYMMETRY Symmetry
PROPERTY WardKeepsArrears
CHECK_DEADLOCK FALSE
