CONSTANTS
    Tasks = {t1}
    Stamps = {s1}
    Slots = {q1}
    Amounts = {20}
    NoTask = NoTask
    NoRef = NoRef
    Terms = {k1}
    Desks = {d1}
    FeePct = 10
    Shares = {5}
    PaidCap = 0
    RefundCap = 40
    NoTerm = NoTerm
SPECIFICATION MoneySpec
INVARIANT RefundsAreUnspent
CHECK_DEADLOCK FALSE
