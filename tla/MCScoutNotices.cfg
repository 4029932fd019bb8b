SPECIFICATION Spec
CONSTANTS
    Pages = {p1, p2}
    Frequency = 1
    Day = 2
    MaxReports = 4
    MaxTime = 2
SYMMETRY Symmetric
INVARIANTS
    LocalAlwaysShown
    NoticesBounded
CHECK_DEADLOCK FALSE
