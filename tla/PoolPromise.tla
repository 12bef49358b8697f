----------------------------- MODULE PoolPromise -----------------------------
(***************************************************************************)
(* What the thread pool of src/util/thread_pool.h promises its callers:    *)
(* accepted tasks are started in the order in which they were accepted,    *)
(* each runs once, and the pool is gone only when all of them have run.    *)
(***************************************************************************)
EXTENDS Naturals, Sequences

CONSTANTS Tasks

VARIABLES
    fifo,            \* accepted tasks that no worker has started on, oldest first
    taken,           \* tasks a worker has started on and not run yet
    ran,             \* tasks that have run
    gone             \* the destructor has returned

vars == <<fifo, taken, ran, gone>>

Init == fifo = <<>> /\ taken = {} /\ ran = {} /\ gone = FALSE

Fresh(x) == x \notin taken \cup ran /\ \A i \in DOMAIN fifo : fifo[i] # x

Accept(x) ==
    /\ ~gone /\ Fresh(x)
    /\ fifo' = Append(fifo, x)
    /\ UNCHANGED <<taken, ran, gone>>

Take ==
    /\ fifo # <<>>
    /\ fifo' = Tail(fifo)
    /\ taken' = taken \cup {Head(fifo)}
    /\ UNCHANGED <<ran, gone>>

Run(x) ==
    /\ x \in taken
    /\ taken' = taken \ {x}
    /\ ran' = ran \cup {x}
    /\ UNCHANGED <<fifo, gone>>

Leave ==
    /\ fifo = <<>> /\ taken = {}
    /\ gone' = TRUE
    /\ UNCHANGED <<fifo, taken, ran>>

Next == (\E x \in Tasks : Accept(x) \/ Run(x)) \/ Take \/ Leave

Spec == Init /\ [][Next]_vars /\ WF_vars(Take) /\ \A x \in Tasks : WF_vars(Run(x))
=============================================================================
