------------------------------ MODULE ThreadPool ------------------------------
(***************************************************************************)
(* The task pool of src/util/thread_pool.h: a bounded queue of cells that  *)
(* any thread may add to and take from without a lock, workers that spin   *)
(* on it, and a destructor that lets them drain it.                        *)
(*                                                                         *)
(* Every load, store and compare-and-swap of a shared variable is a step   *)
(* of the thread that makes it, and memory is sequentially consistent.     *)
(* A caller is a thread outside the pool with one task to submit, and is   *)
(* named after it; a task may submit another one while it runs.            *)
(***************************************************************************)
EXTENDS Integers, FiniteSets, Sequences

CONSTANTS
    Callers,         \* tasks submitted by a thread outside the pool
    Spawned,         \* tasks submitted by a task
    Spawns,          \* [Callers -> SUBSET Spawned], at most one each
    Workers,         \* threads of the pool
    Cap              \* cells of the queue

Tasks == Callers \cup Spawned

Threads == Callers \cup Workers

ASSUME PoolAssumption ==
    /\ Workers # {} /\ Workers \cap Tasks = {} /\ Callers \cap Spawned = {}
    /\ Spawns \in [Callers -> SUBSET Spawned]
    /\ \A x \in Callers : Cardinality(Spawns[x]) <= 1
    /\ \A x, y \in Callers : x # y => Spawns[x] \cap Spawns[y] = {}
    /\ Cap \in Nat \ {0, 1}

VARIABLES
    pc,              \* Threads -> the next step of the thread
    job,             \* Threads -> the task the thread has in hand
    pos,             \* Threads -> the position it has read or claimed
    sequence,        \* 0..Cap-1 -> sequence number of the cell
    data,            \* 0..Cap-1 -> task in the cell
    enqueuePos, dequeuePos,
    draining,        \* workers that have seen running_ false
    running,
    gone,            \* the destructor has returned
    runs             \* Tasks -> how often the task has run

queueVars == <<sequence, data, enqueuePos, dequeuePos>>

poolVars == <<draining, running, gone, runs>>

vars == <<pc, job, pos, queueVars, poolVars>>

None == "none"

EnqueueSteps == {"enter", "probe", "claim", "write", "publish"}

DequeueSteps == {"load", "look", "grab", "read", "free"}

Typed ==
    /\ pc \in [Threads -> EnqueueSteps \cup DequeueSteps \cup {"loop", "run", "done"}]
    /\ job \in [Threads -> Tasks \cup {None}]
    /\ pos \in [Threads -> Nat]
    /\ sequence \in [0..Cap-1 -> Nat]
    /\ data \in [0..Cap-1 -> Tasks \cup {None}]
    /\ enqueuePos \in Nat /\ dequeuePos \in Nat
    /\ draining \subseteq Workers
    /\ running \in BOOLEAN /\ gone \in BOOLEAN
    /\ runs \in [Tasks -> Nat]

\* Only workers dequeue and run, and who submits or runs has a task in hand.
StepsAreTheirs ==
    \A t \in Threads :
        /\ pc[t] \in DequeueSteps \cup {"loop", "run"} => t \in Workers
        /\ pc[t] \in EnqueueSteps \cup {"free", "run"} => job[t] \in Tasks

\* No worker takes an empty cell for a task, and the readers never pass the writers.
TypeOK == Typed /\ StepsAreTheirs /\ dequeuePos <= enqueuePos

Init ==
    /\ pc = [t \in Threads |-> IF t \in Workers THEN "loop" ELSE "enter"]
    /\ job = [t \in Threads |-> IF t \in Workers THEN None ELSE t]
    /\ pos = [t \in Threads |-> 0]
    /\ sequence = [i \in 0..Cap-1 |-> i]
    /\ data = [i \in 0..Cap-1 |-> None]
    /\ enqueuePos = 0 /\ dequeuePos = 0
    /\ draining = {} /\ running = TRUE /\ gone = FALSE
    /\ runs = [x \in Tasks |-> 0]

Goes(t, from, to) == pc[t] = from /\ pc' = [pc EXCEPT ![t] = to]

CellAt(p) == p % Cap

Cell(t) == CellAt(pos[t])

Keeps == UNCHANGED <<job, pos>>

\* Where a thread goes on when its submit or its task has returned.
Home(t) == IF t \in Workers THEN "loop" ELSE "done"

\* The local variables end with the call.
Returns(t, from, to) ==
    /\ Goes(t, from, to)
    /\ job' = [job EXCEPT ![t] = None]
    /\ pos' = [pos EXCEPT ![t] = 0]

-----------------------------------------------------------------------------
(* MPMCQueue::enqueue.                                                     *)

LoadEnqueuePos(t) ==
    /\ Goes(t, "enter", "probe")
    /\ pos' = [pos EXCEPT ![t] = enqueuePos]
    /\ UNCHANGED <<job, queueVars, poolVars>>

\* The cell is free for this position, still occupied a lap behind, or already gone.
Probe(t) ==
    /\ \/ sequence[Cell(t)] = pos[t] /\ Goes(t, "probe", "claim") /\ Keeps
       \/ sequence[Cell(t)] < pos[t] /\ Returns(t, "probe", Home(t))
       \/ sequence[Cell(t)] > pos[t] /\ Goes(t, "probe", "enter") /\ Keeps
    /\ UNCHANGED <<queueVars, poolVars>>

\* Mutant of ClaimCell: the position is taken without comparing it.
ClaimCellBlindly(t) ==
    /\ Goes(t, "claim", "write")
    /\ enqueuePos' = pos[t] + 1
    /\ UNCHANGED <<job, pos, sequence, data, dequeuePos, poolVars>>

ClaimCell(t) ==
    /\ enqueuePos = pos[t]
    /\ Goes(t, "claim", "write")
    /\ enqueuePos' = pos[t] + 1
    /\ UNCHANGED <<job, pos, sequence, data, dequeuePos, poolVars>>

\* The weak compare-and-swap may fail without a reason, and then pos stays.
ClaimCellFails(t) ==
    /\ Goes(t, "claim", "probe")
    /\ pos' = [pos EXCEPT ![t] = enqueuePos]
    /\ UNCHANGED <<job, queueVars, poolVars>>

WriteCell(t) ==
    /\ Goes(t, "write", "publish")
    /\ data' = [data EXCEPT ![Cell(t)] = job[t]]
    /\ UNCHANGED <<job, pos, sequence, enqueuePos, dequeuePos, poolVars>>

Publish(t) ==
    /\ Returns(t, "publish", Home(t))
    /\ sequence' = [sequence EXCEPT ![Cell(t)] = pos[t] + 1]
    /\ UNCHANGED <<data, enqueuePos, dequeuePos, poolVars>>

-----------------------------------------------------------------------------
(* MPMCQueue::dequeue.                                                     *)

LoadDequeuePos(t) ==
    /\ Goes(t, "load", "look")
    /\ pos' = [pos EXCEPT ![t] = dequeuePos]
    /\ UNCHANGED <<job, queueVars, poolVars>>

LookThen(t, empty) ==
    /\ \/ sequence[Cell(t)] = pos[t] + 1 /\ Goes(t, "look", "grab") /\ Keeps
       \/ sequence[Cell(t)] < pos[t] + 1 /\ Returns(t, "look", empty)
       \/ sequence[Cell(t)] > pos[t] + 1 /\ Goes(t, "look", "load") /\ Keeps
    /\ UNCHANGED <<queueVars, poolVars>>

\* Mutants of Look: a cell that waits for its writer is taken for a full one.
LookAtFreeCell(t) ==
    \/ /\ sequence[Cell(t)] = pos[t]
       /\ Goes(t, "look", "grab")
       /\ UNCHANGED <<job, pos, queueVars, poolVars>>
    \/ LookThen(t, IF t \in draining THEN "done" ELSE "loop")

\* A worker that has drained the queue spins on.
LookForEver(t) == LookThen(t, "loop")

\* A worker that finds nothing spins, or leaves when it is draining.
Look(t) == LookThen(t, IF t \in draining THEN "done" ELSE "loop")

GrabCell(t) ==
    /\ dequeuePos = pos[t]
    /\ Goes(t, "grab", "read")
    /\ dequeuePos' = pos[t] + 1
    /\ UNCHANGED <<job, pos, sequence, data, enqueuePos, poolVars>>

GrabCellFails(t) ==
    /\ Goes(t, "grab", "look")
    /\ pos' = [pos EXCEPT ![t] = dequeuePos]
    /\ UNCHANGED <<job, queueVars, poolVars>>

ReadCell(t) ==
    /\ Goes(t, "read", "free")
    /\ job' = [job EXCEPT ![t] = data[Cell(t)]]
    /\ UNCHANGED <<pos, queueVars, poolVars>>

FreeCellAs(t, n) ==
    /\ Goes(t, "free", "run")
    /\ sequence' = [sequence EXCEPT ![Cell(t)] = n]
    /\ pos' = [pos EXCEPT ![t] = 0]
    /\ UNCHANGED <<job, data, enqueuePos, dequeuePos, poolVars>>

\* Mutant of FreeCell: the cell is marked for the next position.
FreeCellForNext(t) == FreeCellAs(t, pos[t] + 1)

FreeCell(t) == FreeCellAs(t, pos[t] + Cap)

-----------------------------------------------------------------------------
(* The workers and the destructor.                                         *)

\* Mutant of Loop: a worker that sees running_ false leaves at once.
LoopWithoutDrain(t) ==
    /\ Goes(t, "loop", IF running THEN "load" ELSE "done")
    /\ UNCHANGED <<job, pos, queueVars, poolVars>>

\* running_ never becomes true again, so the drain loop reads it in vain.
Loop(t) ==
    /\ Goes(t, "loop", "load")
    /\ draining' = IF running THEN draining ELSE draining \cup {t}
    /\ UNCHANGED <<job, pos, queueVars, running, gone, runs>>

SpawnedBy(x) == IF x \in Callers THEN Spawns[x] ELSE {}

RunTask(t) ==
    /\ \/ /\ SpawnedBy(job[t]) = {}
          /\ Returns(t, "run", "loop")
       \/ \E y \in SpawnedBy(job[t]) :
              Goes(t, "run", "enter") /\ job' = [job EXCEPT ![t] = y] /\ UNCHANGED pos
    /\ runs' = [runs EXCEPT ![job[t]] = @ + 1]
    /\ UNCHANGED <<queueVars, draining, running, gone>>

\* The pool may be destroyed when no call of a thread outside is in progress.
Stop ==
    /\ running /\ \A t \in Callers : pc[t] = "done"
    /\ running' = FALSE
    /\ UNCHANGED <<pc, job, pos, queueVars, draining, gone, runs>>

Joined ==
    /\ ~running /\ ~gone /\ \A t \in Workers : pc[t] = "done"
    /\ gone' = TRUE
    /\ UNCHANGED <<pc, job, pos, queueVars, draining, running, runs>>

-----------------------------------------------------------------------------

Claims(t) == ClaimCell(t) \/ GrabCell(t)

ThreadStep(t) ==
    \/ LoadEnqueuePos(t) \/ Probe(t) \/ WriteCell(t) \/ Publish(t)
    \/ LoadDequeuePos(t) \/ Look(t) \/ ReadCell(t) \/ FreeCell(t)
    \/ ClaimCellFails(t) \/ GrabCellFails(t) \/ Claims(t)
    \/ Loop(t) \/ RunTask(t)

Next ==
    \/ \E t \in Threads : ThreadStep(t)
    \/ Stop \/ Joined

Spec == Init /\ [][Next]_vars

\* Threads are scheduled, and a compare-and-swap does not fail for ever while
\* its position is still there to be taken.  Nobody has to destroy the pool.
Fairness ==
    /\ \A t \in Threads : WF_vars(ThreadStep(t)) /\ SF_vars(Claims(t))
    /\ WF_vars(Joined)

FairSpec == Spec /\ Fairness

-----------------------------------------------------------------------------
(* What is checked.                                                        *)

\* The task at a claimed position, in the hand of its thread until it is written.
TaskAt(p) ==
    LET writers == {t \in Threads : pc[t] = "write" /\ pos[t] = p}
    IN  IF writers # {} THEN job[CHOOSE t \in writers : TRUE] ELSE data[CellAt(p)]

\* The positions that are claimed and not taken, oldest first.
Fifo == [i \in 1..(enqueuePos - dequeuePos) |-> TaskAt(dequeuePos + i - 1)]

\* The tasks of the workers between the claim of a position and the run.
Taken == {TaskAt(pos[t]) : t \in {w \in Workers : pc[w] = "read"}}
         \cup {job[t] : t \in {w \in Workers : pc[w] \in {"free", "run"}}}

Ran == {x \in Tasks : runs[x] > 0}

Promise == INSTANCE PoolPromise WITH fifo <- Fifo, taken <- Taken, ran <- Ran

\* The queue of cells is a queue: the tasks are started in the order in which their
\* positions were claimed, however the threads overtake each other between the
\* claim and the cell, each task once; and the pool is gone only when every
\* accepted task, those submitted by tasks while it was being destroyed among
\* them, has run.  Every accepted task does run.
KeepsPromise == Promise!Spec

Occupied(p) ==
    \/ p \in dequeuePos..(enqueuePos - 1)
    \/ \E t \in Workers : pos[t] = p /\ pc[t] \in {"read", "free"}

\* A submit is refused only while the task one lap before its position is still
\* in its cell.
RefusedOnlyWhenLapped ==
    [][\A t \in Threads :
           (pc[t] = "probe" /\ pc'[t] = Home(t)) => Occupied(pos[t] - Cap)]_vars

\* The destructor returns, although workers spin and tasks submit tasks.
DestructorReturns == ~running ~> gone

=============================================================================
