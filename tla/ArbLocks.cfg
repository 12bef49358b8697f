SPECIFICATION FairSpec
CONSTANTS
    Signals <- MCSignals
    Routed = {"cex", "dex"}
    Resets = 1
INVARIANTS
    TypeOK
    WorkersAreJoinable
PROPERTIES
    JoinReturns
\* The coordinator may hang, and it stops when it is destroyed.
CHECK_DEADLOCK FALSE
