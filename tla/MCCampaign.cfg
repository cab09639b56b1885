CONSTANTS
    Tasks = {t1}
    Stamps = {s1}
    Slots = {q1, q2}
    Amounts <- SomeAmounts
    NoTask = NoTask
    NoRef = NoRef
    Terms = {k1}
    Desks = {d1, d2}
    FeePct = 10
    Shares = {10}
    PaidCap = 20
    RefundCap = 40
    NoTerm = NoTerm
    Contributors = {c1, c2}
    Subs = {u1, u2}
    Hands = {h1}
    Reviews = {v1}
    MaxPlaces = 2
    NoOne = NoOne
    NoSub = NoSub
SPECIFICATION MCSpec
INVARIANTS SettlementTypeOK RefundsWereCharged RefundHeldUntilProcessed WorkWasCharged CostsAreCovered
PROPERTY SettlesAtomically
SYMMETRY MCSymmetry
CHECK_DEADLOCK FALSE
