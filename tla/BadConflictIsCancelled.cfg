SPECIFICATION Spec
CONSTANTS
    buy = buy
    sell = sell
    swap = swap
    stray = stray
    late = late
    Keys = {buy, sell, swap, stray, late}
    Symbols = {"BTC"}
    Sig <- MCSig
    Received <- MCReceived
    DirectFreshness = 200
    BacktestFreshness = 5000
    Venue <- MCVenue
    Routed <- MCRouted
    FillPrice <- MCFillPrice
    ReferencePrice <- MCReferencePrice
    InitialCash = 3
    MaxLeverage = 10
    Refusing = {"cex"}
    Reverting = {"dex"}
    Answering = {"cex", "dex"}
PROPERTY
    ConflictIsCancelled
CHECK_DEADLOCK FALSE
