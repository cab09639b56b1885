CONSTANTS
    Platforms = {1}
    Handles = {x1, x2}
    ada = ada
    obi = obi
    nin1 = nin1
    Names = {ada, obi}
    Nins = {nin1, nin2, nin3}
    Registered = {nin1, nin2}
    Checked = "name"
    OwnerOf <- MCOwnerOf
    Hands = {h1, h2}
    Desks = {d1, d2}
    MaxGen = 2
    NoHandle = NoHandle
    NoName = NoName
    NoNin = NoNin
SPECIFICATION MCSpec
INVARIANTS TypeOK NinIsOwn ApprovedIsLinked
PROPERTIES IdentityIsKept DecisionStands
SYMMETRY MCSymmetry
CHECK_DEADLOCK FALSE
