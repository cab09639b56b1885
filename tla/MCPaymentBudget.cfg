CONSTANTS
    Tasks = {t1}
    Stamps = {s1}
    Slots = {q1, q2}
    Amounts <- MCAmounts
    NoTask = NoTask
    NoRef = NoRef
SPECIFICATION Spec
INVARIANT PaidCoversTotal
SYMMETRY MCSymmetry
CHECK_DEADLOCK FALSE
