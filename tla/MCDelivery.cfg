CONSTANTS
    Tasks = {t1}
    Stamps = {s1, s2}
    Slots = {q1}
    Amounts <- MCAmounts
    NoTask = NoTask
    NoRef = NoRef
SPECIFICATION FairSpec
PROPERTY ChargeRecognised
CHECK_DEADLOCK FALSE
