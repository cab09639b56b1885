CONSTANTS
    Categories = {"MAKE_POST", "FOLLOW_ACCOUNT"}
    Contents = {"VIDEO", "NONE"}
    Counts = {1, 9}
    MaxCount = 3
    Fees = {7, 10}
    Budgets <- SomeBudgets
    Editors = {e1, e2}
    People = {root, ada, obi}
    root = root
    Secrets = {s1, s2}
    Hands = {h1, h2}
    s1 = s1
    ada = ada
    NoOne = NoOne
    NoSecret = NoSecret
    Campaigns = {t1}
    Cases = {k1, k2}
    Clerks = {f1, f2}
    NoCampaign = NoCampaign
    NoCase = NoCase
    Lists = {interests, categories}
    Labels = {x1, x2}
    Unnamed = {categories}
    Rows = {r1, r2, r3}
    Adders = {a1, a2}
    NoList = NoList
    NoLabel = NoLabel
    l1 = l1
    l2 = l2
    Entries = {l1, l2, l3, l4}
    Start <- StartRows
    Limit = 2
    Kinds = {"staff", "platform"}
    Matching = {l1, l3}
    Drafts = {d1}
    Titles = {fair, foul}
    Notes = {n1}
    Offensive = {foul}
    Authors = {w1, w2}
    Omitted = Omitted
    NoDraft = NoDraft
    Readers = {1, 2, 3}
    Heralds = {b1, b2}
    PageSize = 2
    BatchLimit = 1
SPECIFICATION MCSpec
INVARIANTS
    OfficeTypeOK FullRate QuotesAreFunded
    OwnerKnowsPassword AuditTellsStatus OneReferrer
    OneOpenDispute OfferedOnce NoRowMissed BriefMatchesText EverybodyHearsOnce
PROPERTIES DecisionIsFinal
SYMMETRY MCSymmetry
CHECK_DEADLOCK FALSE
