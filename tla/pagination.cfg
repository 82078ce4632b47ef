\* Four rows, pages of one, filtered on risk, and any two writes between pages.
SPECIFICATION Spec
CONSTANTS
    Indicators = {i1, i2, i3, i4}
    Risks = {0, 1, 2, 3}
    Times = {0, 1}
    MinRisk = 1
    MaxRisk = 2
    Limit = 1
    Absent = Absent
    MaxWrites = 2
SYMMETRY MCSymmetry
INVARIANTS PagingInv MissedOnlyByWrites RepeatedOnlyByWrites
\* The client has seen the last page.
CHECK_DEADLOCK FALSE
