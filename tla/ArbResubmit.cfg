SPECIFICATION FairSpec
CONSTANTS
    Groups = {g1}
    MaxSubmits = 2
    Keys <- MCOrders
    Sig <- MCSig
    FillPrice <- MCFillPrice
    ReferencePrice <- MCReferencePrice
    Symbols = {"BTC"}
    InitialCash = 2
    MaxLeverage = 10
    Gateways = {"cex", "dex"}
    Refusing = {"cex"}
    Reverting = {"dex"}
    Answering = {"cex", "dex"}
INVARIANTS
    ReversesJustified
    CompletedIsEarned
PROPERTIES
    PromiseKept
    HedgedStaysCompleted
    AssemblyEnds
    PairSettles
\* Signals end, and with them the threads: the system may stop.
CHECK_DEADLOCK FALSE
