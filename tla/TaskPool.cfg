SPECIFICATION FairSpec
CONSTANTS
    a = a
    b = b
    c = c
    d = d
    Callers = {a, b, c}
    Spawned = {d}
    Spawns <- MCSpawns
    Workers = {w1, w2}
    Cap = 2
INVARIANTS
    TypeOK
PROPERTIES
    KeepsPromise
    RefusedOnlyWhenLapped
    DestructorReturns
\* The pool is gone, and with it the workers: the system stops.
CHECK_DEADLOCK FALSE
