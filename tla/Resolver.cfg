SPECIFICATION FairSpec
CONSTANTS
    quick = quick
    slow = slow
    unknown = unknown
    Orders = {quick, slow, unknown}
    Signals = {s1, s2}
    Symbol <- MCSymbol
    Buy = {quick, slow, unknown}
    WithId = {quick, slow}
    Routed = {quick, slow, unknown}
    Slow = {slow}
    Failing = {slow}
    Strategies = {"CANCEL_AND_REPLACE", "REJECT_NEW"}
INVARIANTS
    TypeOK
    FillIsKept
    StaleOnlyByTimeout
PROPERTIES
    PassedIsClear
    CheckReturns
\* Orders and signals end: the system may stop.
CHECK_DEADLOCK FALSE
