CONSTANTS
    Tasks = {t1}
    Contributors = {c1, c2}
    Subs = {s1, s2}
    Hands = {h1, h2}
    Reviews = {v1, v2}
    MaxPlaces = 2
    NoTask = NoTask
    NoOne = NoOne
    NoSub = NoSub
SPECIFICATION MCSpec
INVARIANTS TypeOK ContributorsWithinPlaces RejectedMayResubmit
PROPERTY JudgesAndPaysOnce
SYMMETRY MCSymmetry
CHECK_DEADLOCK FALSE
