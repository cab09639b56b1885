CONSTANTS
    Tasks = {t1}
    Stamps = {s1, s2}
    Slots = {q1, q2}
    Amounts <- MCAmounts
    NoTask = NoTask
    NoRef = NoRef
SPECIFICATION Spec
INVARIANTS PaidByItsCharge PublishedWasCharged ChargedOnce
SYMMETRY MCSymmetry
CHECK_DEADLOCK FALSE
