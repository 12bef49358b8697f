SPECIFICATION Spec
CONSTANTS
    Groups = {g1}
    MaxSubmits = 1
    Keys <- MCOrders
    Sig <- MCSig
    FillPrice <- MCFillPrice
    ReferencePrice <- MCReferencePrice
    Symbols = {"BTC"}
    InitialCash = 2
    MaxLeverage = 10
    Gateways = {"cex", "dex"}
    Refusing = {"cex"}
    Reverting = {"dex"}
    Answering = {"cex", "dex"}
INVARIANTS
    ReversedOnce
\* Signals end, and with them the threads: the system may stop.
CHECK_DEADLOCK FALSE
