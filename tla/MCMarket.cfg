CONSTANTS
    Tasks = {t1}
    Contributors = {c1, c2}
    one = c1
    Texts <- Words
    Blank <- NoWords
    Within <- Containing
    Aliases <- OtherNames
    Interests = {"fit", "food"}
    Targets <- Audiences
    Profiles <- Members
    Appliers = {i1, i2}
    Payouts = {p1, p2}
    Places = 1
    Default = 75
    Threshold = 75
    Top = 85
    Bonus = 5
    MaxPaid = 3
    NoTask = NoTask
    NoContributor = NoContributor
SPECIFICATION MCSpec
INVARIANTS MarketTypeOK PageTellsTruth ReputationIsEarned
PROPERTY ApplicantsSuit
SYMMETRY MCSymmetry
CHECK_DEADLOCK FALSE
