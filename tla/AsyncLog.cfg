SPECIFICATION FairSpec
CONSTANTS
    Lines = {l1, l2, l3}
    Cap = 2
INVARIANTS
    TypeOK
    OutputIsFaithful
PROPERTIES
    LinesArePrinted
\* The logger is gone, and with it the I/O thread: the system stops.
CHECK_DEADLOCK FALSE
