CONSTANTS
    Banks = {b1, b2}
    Numbers = {n1, n2}
    Otps = {o1, o2}
    Hands = {h1, h2}
    Amounts <- MCAmounts
    MaxBanks = 2
    CreditCap = 2
    NoBank = NoBank
    NoNumber = NoNumber
    NoOtp = NoOtp
SPECIFICATION MCSpec
INVARIANTS TypeOK PaidOutWasCredited OneTransferPerOtp OneDefaultAccount
PROPERTY PaysAtomically
SYMMETRY MCSymmetry
CHECK_DEADLOCK FALSE
