SPECIFICATION FairSpec
CONSTANTS
    k1 = k1
    k2 = k2
    k3 = k3
    k4 = k4
    k5 = k5
    Keys = {k1, k2, k3, k4, k5}
    NoKey = NoKey
    CAP = 4
    Hash <- MCHash
    Amount <- MCAmount
    MaxValue = 2
    Operations = {"add", "assign", "erase", "clear"}
INVARIANTS
    TypeOK
    EveryEntryIsFound
    SizeIsExact
PROPERTIES
    OthersUndisturbed
    SurplusIsLeftover
    EraseEnds
