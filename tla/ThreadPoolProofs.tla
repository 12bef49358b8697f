-------------------------- MODULE ThreadPoolProofs --------------------------
(***************************************************************************)
(* Theorems about the thread pool, for any number of callers, workers and  *)
(* cells and any tasks that submit tasks: the lock-free queue is a queue,  *)
(* and the pool keeps the safety part of its promise.                      *)
(***************************************************************************)
EXTENDS ThreadPool, SequenceTheorems, TLAPS

-----------------------------------------------------------------------------
(* The inductive invariant.                                                *)

Writing(t) == pc[t] \in {"write", "publish"}

Reading(t) == pc[t] \in {"read", "free"}

Waiting == dequeuePos..(enqueuePos - 1)

\* A cell serves one position of each lap in turn: it waits for its writer, is
\* written, is full, or is read.
Serves(i, p) ==
    /\ CellAt(p) = i /\ enqueuePos <= p + Cap
    /\ \/ sequence[i] = p /\ enqueuePos <= p
       \/ sequence[i] = p /\ p \in Waiting /\ \E t \in Threads : Writing(t) /\ pos[t] = p
       \/ sequence[i] = p + 1 /\ p \in Waiting
       \/ sequence[i] = p + 1 /\ p < dequeuePos /\ \E t \in Workers : Reading(t) /\ pos[t] = p

CellsServe == \A i \in 0..Cap-1 : \E p \in 0..(dequeuePos + Cap - 1) : Serves(i, p)

\* What a thread has read of the positions was true once, and a cell's number only
\* grows; what it has claimed is its own until it lets go.
PositionHolds(t) ==
    /\ pc[t] \in {"probe", "claim"} => pos[t] <= enqueuePos
    /\ pc[t] \in {"look", "grab"} => pos[t] <= dequeuePos
    /\ pc[t] = "claim" => sequence[Cell(t)] >= pos[t]
    /\ pc[t] = "grab" => sequence[Cell(t)] >= pos[t] + 1
    /\ Writing(t) => sequence[Cell(t)] = pos[t] /\ pos[t] \in Waiting
    /\ Reading(t) => sequence[Cell(t)] = pos[t] + 1 /\ pos[t] < dequeuePos

ClaimsDiffer ==
    \A t, u \in Threads :
        (Writing(t) /\ Writing(u)) \/ (Reading(t) /\ Reading(u)) => t = u \/ pos[t] # pos[u]

QueueInv ==
    /\ dequeuePos <= enqueuePos
    /\ CellsServe
    /\ \A t \in Threads : PositionHolds(t)
    /\ ClaimsDiffer

\* A task that is on its way is in one hand, or in one slot of the queue.
Hands == {t \in Threads : pc[t] \in {"enter", "probe", "claim", "free", "run"}}

Slots == Waiting \cup {pos[t] : t \in {w \in Workers : pc[w] = "read"}}

Carried(x) == (\E t \in Hands : job[t] = x) \/ (\E p \in Slots : TaskAt(p) = x)

TaskInv ==
    /\ \A p \in Slots : TaskAt(p) \in Tasks
    /\ \A t, u \in Hands : t = u \/ job[t] # job[u]
    /\ \A p, q \in Slots : p = q \/ TaskAt(p) # TaskAt(q)
    /\ \A t \in Hands, p \in Slots : job[t] # TaskAt(p)
    /\ \A x \in Tasks : Carried(x) => runs[x] = 0
    /\ \A x \in Callers : \A y \in Spawns[x] : Carried(y) \/ runs[y] > 0 => runs[x] > 0

\* Workers leave when the pool is being destroyed, which nobody outside then calls,
\* and the last of them leaves an empty queue.
EndInv ==
    /\ running \/ \A t \in Callers : pc[t] = "done"
    /\ draining # {} => ~running
    /\ \A t \in Workers : pc[t] = "done" => t \in draining
    /\ gone => \A t \in Workers : pc[t] = "done"
    /\ (\A t \in Workers : pc[t] = "done") => enqueuePos = dequeuePos

IInv == Typed /\ StepsAreTheirs /\ QueueInv /\ TaskInv /\ EndInv

-----------------------------------------------------------------------------
(* Laps.                                                                   *)

Indices == 0..Cap-1

Steps == EnqueueSteps \cup DequeueSteps \cup {"loop", "run", "done"}

LEMMA CellOfPosition == \A p \in Nat : CellAt(p) \in Indices
BY PoolAssumption DEF Indices, CellAt

\* Positions less than a lap apart have cells of their own.
LEMMA LapsApart ==
    ASSUME NEW a \in Nat, NEW b \in Nat, a <= b, b < a + Cap, CellAt(a) = CellAt(b)
    PROVE  a = b
<1> DEFINE p == a \div Cap
           q == b \div Cap
<1>0. Cap \in Nat \ {0}
  BY PoolAssumption
<1>1. p \in Int /\ a = Cap * p + (a % Cap)
  BY <1>0
<1>2. q \in Int /\ b = Cap * q + (b % Cap)
  BY <1>0
<1> HIDE DEF p, q
<1>3. a % Cap \in Int /\ b - a = Cap * q - Cap * p
  BY <1>0, <1>1, <1>2 DEF CellAt
<1>4. Cap * q - Cap * p = Cap * (q - p)
  BY <1>0, <1>1, <1>2
<1>5. q - p \in Int /\ 0 <= Cap * (q - p) /\ Cap * (q - p) < Cap
  BY <1>0, <1>1, <1>2, <1>3, <1>4
<1>6. ~(q - p >= 1) /\ ~(q - p <= -1)
  <2>1. q - p >= 1 => Cap * (q - p) >= Cap
    BY <1>0, <1>5
  <2>2. q - p <= -1 => Cap * (q - p) <= -Cap
    BY <1>0, <1>5
  <2> QED
    BY <1>0, <1>5, <2>1, <2>2
<1>7. q = p
  BY <1>1, <1>2, <1>6
<1> QED
  BY <1>1, <1>2, <1>7 DEF CellAt

\* So positions of one cell are the same or a lap apart.
LEMMA SameCell ==
    ASSUME NEW a \in Nat, NEW b \in Nat, CellAt(a) = CellAt(b)
    PROVE  a = b \/ a + Cap <= b \/ b + Cap <= a
<1>1. a <= b /\ b < a + Cap => a = b
  BY LapsApart
<1>2. b <= a /\ a < b + Cap => a = b
  BY LapsApart
<1>3. Cap \in Nat
  BY PoolAssumption
<1> QED
  BY <1>1, <1>2, <1>3

LEMMA NextLap ==
    ASSUME NEW a \in Nat
    PROVE  CellAt(a + Cap) = CellAt(a)
<1> DEFINE p == a \div Cap
           r == a % Cap
           q == (a + Cap) \div Cap
           s == (a + Cap) % Cap
<1>0. Cap \in Nat \ {0}
  BY PoolAssumption
<1>1. p \in Int /\ a = Cap * p + r /\ r \in Indices
  BY <1>0 DEF Indices
<1>2. q \in Int /\ a + Cap = Cap * q + s /\ s \in Indices
  BY <1>0 DEF Indices
<1> HIDE DEF p, q, r, s
<1> DEFINE e == q - p - 1
<1>3. e \in Int /\ Cap * e = r - s
  <2>1. Cap * (q - p - 1) = Cap * q - Cap * p - Cap
    BY <1>0, <1>1, <1>2
  <2>2. r \in Int /\ s \in Int
    BY <1>0, <1>1, <1>2 DEF Indices
  <2> QED
    BY <1>0, <1>1, <1>2, <2>1, <2>2
<1> HIDE DEF e
<1>4. -Cap < Cap * e /\ Cap * e < Cap /\ r \in Int /\ s \in Int
  BY <1>0, <1>1, <1>2, <1>3 DEF Indices
<1>5. e = 0
  <2>1. e >= 1 => Cap * e >= Cap
    BY <1>0, <1>3
  <2>2. e <= -1 => Cap * e <= -Cap
    BY <1>0, <1>3
  <2> QED
    BY <1>0, <1>3, <1>4, <2>1, <2>2
<1>6. r = s
  <2>1. Cap * e = 0
    BY <1>0, <1>5
  <2> QED
    BY <1>3, <1>4, <2>1
<1> QED
  BY <1>6 DEF r, s, CellAt

-----------------------------------------------------------------------------
(* Types, and whose step it is.                                            *)

Alone(t) ==
    \A u \in Threads : u # t => pc'[u] = pc[u] /\ job'[u] = job[u] /\ pos'[u] = pos[u]

LEMMA CellType ==
    ASSUME Typed, NEW t \in Threads
    PROVE  pos[t] \in Nat /\ Cell(t) \in Indices
BY CellOfPosition DEF Typed, Cell

LEMMA HomeType ==
    ASSUME NEW t \in Threads
    PROVE  Home(t) \in {"loop", "done"} /\ (Home(t) = "loop" => t \in Workers)
BY DEF Home

LEMMA Sizes == Cap \in Nat /\ Cap >= 2
BY PoolAssumption

\* A step of one thread moves nothing of another's.
LEMMA StepsAlone ==
    ASSUME Typed, NEW t \in Threads, ThreadStep(t)
    PROVE  Alone(t)
<1>1. CASE LoadEnqueuePos(t) \/ Probe(t) \/ WriteCell(t) \/ Publish(t) \/ ClaimCellFails(t)
  BY <1>1 DEF Typed, Alone, LoadEnqueuePos, Probe, WriteCell, Publish, ClaimCellFails,
     Goes, Keeps, Returns
<1>2. CASE LoadDequeuePos(t) \/ Look(t) \/ ReadCell(t) \/ FreeCell(t) \/ GrabCellFails(t)
  BY <1>2 DEF Typed, Alone, LoadDequeuePos, Look, LookThen, ReadCell, FreeCell,
     FreeCellAs, GrabCellFails, Goes, Keeps, Returns
<1>3. CASE Claims(t) \/ Loop(t) \/ RunTask(t)
  BY <1>3 DEF Typed, Alone, Claims, ClaimCell, GrabCell, Loop, RunTask, Goes, Keeps,
     Returns
<1> QED
  BY <1>1, <1>2, <1>3 DEF ThreadStep

LEMMA SpawnedType ==
    ASSUME NEW x \in Tasks, NEW y \in SpawnedBy(x)
    PROVE  x \in Callers /\ y \in Spawns[x] /\ y \in Tasks /\ y \in Spawned
BY PoolAssumption DEF SpawnedBy, Tasks

\* A move of one thread, whatever else the step does, keeps the types.
LEMMA GoesType ==
    ASSUME Typed, NEW t \in Threads, NEW from, NEW to \in Steps, Goes(t, from, to)
    PROVE  pc' \in [Threads -> Steps]
BY DEF Typed, Goes, Steps

LEMMA ReturnsType ==
    ASSUME Typed, NEW t \in Threads, NEW from, NEW to \in Steps, Returns(t, from, to)
    PROVE  /\ pc' \in [Threads -> Steps]
           /\ job' \in [Threads -> Tasks \cup {None}] /\ pos' \in [Threads -> Nat]
<1>1. pc' \in [Threads -> Steps]
  BY GoesType DEF Returns
<1>2. job' \in [Threads -> Tasks \cup {None}]
  BY DEF Returns, Typed
<1>3. pos' \in [Threads -> Nat]
  BY DEF Returns, Typed
<1> QED
  BY <1>1, <1>2, <1>3

\* The thread's own part of the state.
LocalOK ==
    /\ pc \in [Threads -> Steps]
    /\ job \in [Threads -> Tasks \cup {None}]
    /\ pos \in [Threads -> Nat]

LEMMA LocalStep ==
    ASSUME Typed, StepsAreTheirs, NEW t \in Threads, ThreadStep(t)
    PROVE  LocalOK'
<1>0. pos[t] \in Nat /\ Cell(t) \in Indices
  BY CellType
<1>h. Home(t) \in Steps
  BY HomeType DEF Steps
<1>s. /\ EnqueueSteps \subseteq Steps /\ DequeueSteps \subseteq Steps
      /\ {"loop", "run", "done"} \subseteq Steps
  BY DEF Steps
<1>e. {"enter", "probe", "claim", "write", "publish",
        "load", "look", "grab", "read", "free"} \subseteq Steps
  BY <1>s DEF EnqueueSteps, DequeueSteps
<1>v. /\ job \in [Threads -> Tasks \cup {None}] /\ pos \in [Threads -> Nat]
      /\ enqueuePos \in Nat /\ dequeuePos \in Nat /\ data \in [Indices -> Tasks \cup {None}]
  BY DEF Typed, Indices
<1>1. CASE LoadEnqueuePos(t) \/ LoadDequeuePos(t) \/ ClaimCellFails(t) \/ GrabCellFails(t)
  <2>1. pc' \in [Threads -> Steps]
    BY <1>1, <1>e, GoesType DEF LoadEnqueuePos, LoadDequeuePos, ClaimCellFails, GrabCellFails
  <2>2. pos' \in [Threads -> Nat] /\ job' = job
    BY <1>1, <1>v DEF LoadEnqueuePos, LoadDequeuePos, ClaimCellFails, GrabCellFails
  <2> QED
    BY <1>v, <2>1, <2>2 DEF LocalOK
<1>2. CASE Probe(t)
  <2>1. CASE Returns(t, "probe", Home(t))
    BY <1>h, <2>1, ReturnsType DEF LocalOK
  <2>2. CASE (Goes(t, "probe", "claim") \/ Goes(t, "probe", "enter")) /\ Keeps
    <3>1. pc' \in [Threads -> Steps]
      BY <2>2, <1>e, GoesType
    <3> QED
      BY <1>v, <2>2, <3>1 DEF LocalOK, Keeps
  <2> QED
    BY <1>2, <2>1, <2>2 DEF Probe
<1>3. CASE Look(t)
  <2> DEFINE empty == IF t \in draining THEN "done" ELSE "loop"
  <2>1. CASE Returns(t, "look", empty)
    <3>1. empty \in Steps
      BY <1>s
    <3> HIDE DEF empty
    <3> QED
      BY <3>1, <2>1, ReturnsType DEF LocalOK
  <2>2. CASE (Goes(t, "look", "grab") \/ Goes(t, "look", "load")) /\ Keeps
    <3>1. pc' \in [Threads -> Steps]
      BY <2>2, <1>e, GoesType
    <3> QED
      BY <1>v, <2>2, <3>1 DEF LocalOK, Keeps
  <2> QED
    BY <1>3, <2>1, <2>2 DEF Look, LookThen
<1>4. CASE WriteCell(t) \/ Claims(t)
  <2>1. pc' \in [Threads -> Steps]
    BY <1>4, <1>e, GoesType DEF WriteCell, Claims, ClaimCell, GrabCell
  <2> QED
    BY <1>v, <1>4, <2>1 DEF LocalOK, WriteCell, Claims, ClaimCell, GrabCell
<1>5. CASE Publish(t)
  BY <1>5, <1>h, ReturnsType DEF LocalOK, Publish
<1>6. CASE ReadCell(t)
  <2>1. pc' \in [Threads -> Steps]
    BY <1>6, <1>e, GoesType DEF ReadCell
  <2>2. data[Cell(t)] \in Tasks \cup {None}
    BY <1>0, <1>v
  <2>3. job' \in [Threads -> Tasks \cup {None}] /\ pos' = pos
    BY <1>6, <1>v, <2>2 DEF ReadCell
  <2> QED
    BY <1>v, <2>1, <2>3 DEF LocalOK
<1>7. CASE FreeCell(t)
  <2>1. pc' \in [Threads -> Steps]
    BY <1>7, <1>s, GoesType DEF FreeCell, FreeCellAs
  <2>2. pos' \in [Threads -> Nat] /\ job' = job
    BY <1>7, <1>v DEF FreeCell, FreeCellAs
  <2> QED
    BY <1>v, <2>1, <2>2 DEF LocalOK
<1>8. CASE Loop(t)
  <2>1. pc' \in [Threads -> Steps]
    BY <1>8, <1>e, GoesType DEF Loop
  <2> QED
    BY <1>8, <1>v, <2>1 DEF LocalOK, Loop
<1>9. CASE RunTask(t)
  <2>1. job[t] \in Tasks
    BY <1>9 DEF RunTask, Goes, Returns, StepsAreTheirs
  <2>2. CASE Returns(t, "run", "loop")
    BY <2>2, <1>s, ReturnsType DEF LocalOK
  <2>3. ASSUME NEW y \in SpawnedBy(job[t]),
               Goes(t, "run", "enter"), job' = [job EXCEPT ![t] = y], UNCHANGED pos
        PROVE  LocalOK'
    <3>1. pc' \in [Threads -> Steps]
      BY <2>3, <1>e, GoesType
    <3>2. y \in Tasks
      BY <2>1, SpawnedType
    <3>3. job' \in [Threads -> Tasks \cup {None}]
      BY <2>3, <3>2, <1>v
    <3> QED
      BY <1>v, <2>3, <3>1, <3>3 DEF LocalOK
  <2> QED
    BY <1>9, <2>2, <2>3 DEF RunTask
<1> QED
  BY <1>1, <1>2, <1>3, <1>4, <1>5, <1>6, <1>7, <1>8, <1>9 DEF ThreadStep

LEMMA TypeStep ==
    ASSUME Typed, StepsAreTheirs, NEW t \in Threads, ThreadStep(t)
    PROVE  Typed'
<1>0. pos[t] \in Nat /\ Cell(t) \in 0..Cap-1 /\ Cap \in Nat
  BY CellType, Sizes DEF Indices
<1>1. LocalOK'
  BY LocalStep
<1>2. sequence' \in [0..Cap-1 -> Nat]
  <2>1. CASE UNCHANGED sequence
    BY <2>1 DEF Typed
  <2>2. CASE \E n \in Nat : sequence' = [sequence EXCEPT ![Cell(t)] = n]
    BY <2>2 DEF Typed
  <2>3. pos[t] + 1 \in Nat /\ pos[t] + Cap \in Nat
    BY <1>0
  <2>4. UNCHANGED sequence \/ Publish(t) \/ FreeCell(t)
    BY DEF ThreadStep, LoadEnqueuePos, Probe, WriteCell, LoadDequeuePos, Look, LookThen,
       ReadCell, ClaimCellFails, GrabCellFails, Claims, ClaimCell, GrabCell, Loop, RunTask,
       queueVars
  <2> QED
    BY <2>1, <2>2, <2>3, <2>4 DEF Publish, FreeCell, FreeCellAs
<1>3. data' \in [0..Cap-1 -> Tasks \cup {None}]
  <2>1. job[t] \in Tasks \cup {None}
    BY DEF Typed
  <2>2. UNCHANGED data \/ WriteCell(t)
    BY DEF ThreadStep, LoadEnqueuePos, Probe, Publish, LoadDequeuePos, Look, LookThen,
       ReadCell, ClaimCellFails, GrabCellFails, Claims, ClaimCell, GrabCell, Loop, RunTask,
       FreeCell, FreeCellAs, queueVars
  <2>3. CASE WriteCell(t)
    BY <2>1, <2>3 DEF WriteCell, Typed
  <2> QED
    BY <2>2, <2>3 DEF Typed
<1>4. enqueuePos' \in Nat /\ dequeuePos' \in Nat
  <2>1. UNCHANGED <<enqueuePos, dequeuePos>> \/ ClaimCell(t) \/ GrabCell(t)
    BY DEF ThreadStep, LoadEnqueuePos, Probe, Publish, LoadDequeuePos, Look, LookThen,
       ReadCell, ClaimCellFails, GrabCellFails, Claims, WriteCell, Loop, RunTask,
       FreeCell, FreeCellAs, queueVars
  <2>2. pos[t] + 1 \in Nat
    BY <1>0
  <2> QED
    BY <2>1, <2>2 DEF ClaimCell, GrabCell, Typed
<1>5. draining' \subseteq Workers /\ UNCHANGED <<running, gone>>
  <2>1. UNCHANGED <<draining, running, gone>> \/ Loop(t)
    BY DEF ThreadStep, LoadEnqueuePos, Probe, Publish, LoadDequeuePos, Look, LookThen,
       ReadCell, ClaimCellFails, GrabCellFails, Claims, ClaimCell, GrabCell, WriteCell,
       RunTask, FreeCell, FreeCellAs, poolVars
  <2>2. Loop(t) => t \in Workers
    BY DEF Loop, Goes, StepsAreTheirs
  <2> QED
    BY <2>1, <2>2 DEF Loop, Typed
<1>6. runs' \in [Tasks -> Nat]
  <2>1. UNCHANGED runs \/ RunTask(t)
    BY DEF ThreadStep, LoadEnqueuePos, Probe, Publish, LoadDequeuePos, Look, LookThen,
       ReadCell, ClaimCellFails, GrabCellFails, Claims, ClaimCell, GrabCell, WriteCell,
       Loop, FreeCell, FreeCellAs, poolVars
  <2>2. RunTask(t) => job[t] \in Tasks
    BY DEF RunTask, Goes, Returns, StepsAreTheirs
  <2> QED
    BY <2>1, <2>2 DEF RunTask, Typed
<1> QED
  BY <1>1, <1>2, <1>3, <1>4, <1>5, <1>6 DEF Typed, LocalOK, Steps

\* Only workers dequeue and run, and who has no task in hand has none to submit.
LEMMA OwnersStep ==
    ASSUME Typed, StepsAreTheirs, NEW t \in Threads, ThreadStep(t),
           pc[t] = "read" => data[Cell(t)] \in Tasks
    PROVE  StepsAreTheirs'
<1> SUFFICES ASSUME NEW u \in Threads
             PROVE  /\ pc'[u] \in DequeueSteps \cup {"loop", "run"} => u \in Workers
                    /\ pc'[u] \in EnqueueSteps \cup {"free", "run"} => job'[u] \in Tasks
  BY DEF StepsAreTheirs
<1>1. CASE u # t
  BY <1>1, StepsAlone DEF Alone, StepsAreTheirs
<1>2. CASE u = t
  <2>0. /\ pc \in [Threads -> Steps] /\ job \in [Threads -> Tasks \cup {None}]
        /\ pos \in [Threads -> Nat]
    BY DEF Typed, Steps
  <2>h. Home(t) \in {"loop", "done"} /\ (Home(t) = "loop" => t \in Workers)
    BY HomeType
  <2>1. CASE LoadEnqueuePos(t) \/ ClaimCellFails(t) \/ WriteCell(t) \/ ClaimCell(t)
    BY <1>2, <2>0, <2>1 DEF LoadEnqueuePos, ClaimCellFails, WriteCell, ClaimCell, Goes,
       StepsAreTheirs, EnqueueSteps, DequeueSteps
  <2>2. CASE LoadDequeuePos(t) \/ GrabCellFails(t) \/ GrabCell(t) \/ Loop(t)
    BY <1>2, <2>0, <2>2 DEF LoadDequeuePos, GrabCellFails, GrabCell, Loop, Goes,
       StepsAreTheirs, EnqueueSteps, DequeueSteps
  <2>3. CASE Probe(t) \/ Publish(t)
    BY <1>2, <2>0, <2>3, <2>h DEF Probe, Publish, Goes, Keeps, Returns, StepsAreTheirs,
       EnqueueSteps, DequeueSteps
  <2>4. CASE Look(t)
    BY <1>2, <2>0, <2>4 DEF Look, LookThen, Goes, Keeps, Returns, StepsAreTheirs,
       EnqueueSteps, DequeueSteps
  <2>5. CASE ReadCell(t) \/ FreeCell(t)
    BY <1>2, <2>0, <2>5 DEF ReadCell, FreeCell, FreeCellAs, Goes, StepsAreTheirs,
       EnqueueSteps, DequeueSteps
  <2>6. CASE RunTask(t)
    <3>1. t \in Workers /\ job[t] \in Tasks
      BY <2>6 DEF RunTask, Goes, Returns, StepsAreTheirs, EnqueueSteps, DequeueSteps
    <3>2. \A y \in SpawnedBy(job[t]) : y \in Tasks
      BY <3>1, SpawnedType
    <3> QED
      BY <1>2, <2>0, <2>6, <3>1, <3>2 DEF RunTask, Goes, Returns, EnqueueSteps, DequeueSteps
  <2> QED
    BY <2>1, <2>2, <2>3, <2>4, <2>5, <2>6 DEF ThreadStep, Claims
<1> QED
  BY <1>1, <1>2

-----------------------------------------------------------------------------
(* The queue.                                                              *)

LEMMA Adjacent ==
    ASSUME NEW a \in Nat
    PROVE  CellAt(a + 1) # CellAt(a)
<1>1. a + 1 \in Nat /\ a <= a + 1 /\ a + 1 < a + Cap /\ a # a + 1
  BY Sizes
<1> QED
  BY <1>1, LapsApart

\* What the arithmetic below needs of the types.
LEMMA Numbers ==
    ASSUME Typed
    PROVE  /\ Cap \in Nat /\ Cap >= 2 /\ enqueuePos \in Nat /\ dequeuePos \in Nat
           /\ \A i \in Indices : sequence[i] \in Nat
           /\ \A t \in Threads : pos[t] \in Nat /\ Cell(t) \in Indices
BY Sizes, CellType DEF Typed, Indices

\* The position a cell serves, without the case distinction.
LEMMA ServedAt ==
    ASSUME Typed, QueueInv, NEW n \in Nat
    PROVE  \E p \in Nat : /\ p < dequeuePos + Cap /\ Serves(CellAt(n), p)
                          /\ p = n \/ n + Cap <= p \/ p + Cap <= n
<1>1. CellAt(n) \in 0..Cap-1
  BY CellOfPosition DEF Indices
<1>2. PICK p \in 0..(dequeuePos + Cap - 1) : Serves(CellAt(n), p)
  BY <1>1 DEF QueueInv, CellsServe
<1>3. p \in Nat /\ p < dequeuePos + Cap
  BY Numbers
<1>4. CellAt(p) = CellAt(n)
  BY <1>2 DEF Serves
<1>5. p = n \/ n + Cap <= p \/ p + Cap <= n
  BY <1>3, <1>4, SameCell
<1> QED
  BY <1>2, <1>3, <1>5

\* The number of a cell tells what happened to the position it serves.
LEMMA ToBeClaimed ==
    ASSUME Typed, QueueInv, sequence[CellAt(enqueuePos)] >= enqueuePos
    PROVE  sequence[CellAt(enqueuePos)] = enqueuePos /\ enqueuePos < dequeuePos + Cap
<1> DEFINE n == enqueuePos
           c == CellAt(n)
<1>0. n \in Nat /\ dequeuePos \in Nat /\ dequeuePos <= n /\ Cap \in Nat /\ Cap >= 2
  BY Numbers DEF QueueInv
<1>1. PICK p \in Nat : /\ p < dequeuePos + Cap /\ Serves(c, p)
                       /\ (p = n \/ n + Cap <= p \/ p + Cap <= n)
  BY <1>0, ServedAt
<1>2. c \in Indices /\ sequence[c] \in Nat /\ sequence[c] >= n
  BY <1>0, Numbers, CellOfPosition
<1>3. \/ sequence[c] = p /\ n <= p
      \/ sequence[c] = p /\ p < n
      \/ sequence[c] = p + 1 /\ p < n
  BY <1>0, <1>1 DEF Serves, Waiting
<1> HIDE DEF n, c
<1>4. sequence[c] = n /\ n < dequeuePos + Cap
  BY <1>0, <1>1, <1>2, <1>3
<1> QED
  BY <1>4 DEF n, c

LEMMA ToBeGrabbed ==
    ASSUME Typed, QueueInv, sequence[CellAt(dequeuePos)] >= dequeuePos + 1
    PROVE  /\ sequence[CellAt(dequeuePos)] = dequeuePos + 1
           /\ dequeuePos < enqueuePos /\ enqueuePos <= dequeuePos + Cap
<1> DEFINE n == dequeuePos
           c == CellAt(n)
<1>0. n \in Nat /\ enqueuePos \in Nat /\ n <= enqueuePos /\ Cap \in Nat /\ Cap >= 2
  BY Numbers DEF QueueInv
<1>1. PICK p \in Nat : /\ p < n + Cap /\ Serves(c, p)
                       /\ (p = n \/ n + Cap <= p \/ p + Cap <= n)
  BY <1>0, ServedAt
<1>2. c \in Indices /\ sequence[c] \in Nat /\ sequence[c] >= n + 1
  BY <1>0, Numbers, CellOfPosition
<1>3. /\ enqueuePos <= p + Cap
      /\ \/ sequence[c] = p
         \/ sequence[c] = p + 1 /\ p < enqueuePos /\ n <= p
         \/ sequence[c] = p + 1 /\ p < n
  BY <1>0, <1>1 DEF Serves, Waiting
<1> HIDE DEF n, c
<1>4. sequence[c] = n + 1 /\ n < enqueuePos /\ enqueuePos <= n + Cap
  BY <1>0, <1>1, <1>2, <1>3
<1> QED
  BY <1>4 DEF n, c

\* A writer's cell serves the position it writes, and a reader's the one it reads.
LEMMA WriterServed ==
    ASSUME Typed, QueueInv, NEW t \in Threads, Writing(t)
    PROVE  /\ sequence[Cell(t)] = pos[t] /\ pos[t] \in Waiting
           /\ pos[t] < dequeuePos + Cap /\ enqueuePos <= pos[t] + Cap
<1> DEFINE n == pos[t]
           c == CellAt(n)
<1>0. n \in Nat /\ enqueuePos \in Nat /\ dequeuePos \in Nat /\ Cap \in Nat /\ Cap >= 2
  BY Numbers
<1>1. PICK p \in Nat : /\ p < dequeuePos + Cap /\ Serves(c, p)
                       /\ (p = n \/ n + Cap <= p \/ p + Cap <= n)
  BY <1>0, ServedAt
<1>2. sequence[c] = n /\ n \in Waiting /\ c = Cell(t)
  BY DEF QueueInv, PositionHolds, Cell
<1>3. enqueuePos <= p + Cap /\ (sequence[c] = p \/ sequence[c] = p + 1)
  BY <1>1 DEF Serves
<1>4. n < dequeuePos + Cap /\ enqueuePos <= n + Cap
  <2> HIDE DEF n, c
  <2> QED
    BY <1>0, <1>1, <1>2, <1>3
<1> QED
  BY <1>2, <1>4

LEMMA ReaderServed ==
    ASSUME Typed, QueueInv, NEW t \in Threads, Reading(t)
    PROVE  /\ sequence[Cell(t)] = pos[t] + 1 /\ pos[t] < dequeuePos
           /\ enqueuePos <= pos[t] + Cap
<1> DEFINE n == pos[t]
           c == CellAt(n)
<1>0. n \in Nat /\ enqueuePos \in Nat /\ dequeuePos \in Nat /\ Cap \in Nat /\ Cap >= 2
  BY Numbers
<1>1. PICK p \in Nat : /\ p < dequeuePos + Cap /\ Serves(c, p)
                       /\ (p = n \/ n + Cap <= p \/ p + Cap <= n)
  BY <1>0, ServedAt
<1>2. sequence[c] = n + 1 /\ n < dequeuePos /\ c = Cell(t)
  BY DEF QueueInv, PositionHolds, Cell
<1>3. enqueuePos <= p + Cap /\ (sequence[c] = p \/ sequence[c] = p + 1)
  BY <1>1 DEF Serves
<1>4. enqueuePos <= n + Cap
  <2> HIDE DEF n, c
  <2> QED
    BY <1>0, <1>1, <1>2, <1>3
<1> QED
  BY <1>2, <1>4

\* A step that leaves the queue's counters alone, and nobody begins or ends a claim.
Quiet(t) ==
    /\ UNCHANGED <<sequence, enqueuePos, dequeuePos>>
    /\ Writing(t)' <=> Writing(t)
    /\ Reading(t)' <=> Reading(t)
    /\ Writing(t) \/ Reading(t) => pos'[t] = pos[t]

LEMMA QuietStep ==
    ASSUME Typed, QueueInv, NEW t \in Threads, Alone(t), Quiet(t), PositionHolds(t)'
    PROVE  QueueInv'
<1>1. \A u \in Threads : /\ Writing(u)' <=> Writing(u)
                         /\ Reading(u)' <=> Reading(u)
                         /\ Writing(u) \/ Reading(u) => pos'[u] = pos[u]
  BY DEF Quiet, Alone, Writing, Reading
<1>2. CellsServe'
  <2> SUFFICES ASSUME NEW i \in 0..Cap-1
               PROVE  \E p \in 0..(dequeuePos + Cap - 1) : Serves(i, p)'
    BY DEF CellsServe, Quiet
  <2>1. PICK p \in 0..(dequeuePos + Cap - 1) : Serves(i, p)
    BY DEF QueueInv, CellsServe
  <2>2. Workers \subseteq Threads
    BY DEF Threads
  <2>3. (\E u \in Threads : Writing(u) /\ pos[u] = p)
           => \E u \in Threads : Writing(u)' /\ pos'[u] = p
    BY <1>1
  <2>4. (\E u \in Workers : Reading(u) /\ pos[u] = p)
           => \E u \in Workers : Reading(u)' /\ pos'[u] = p
    BY <1>1, <2>2
  <2>5. Serves(i, p)'
    BY <2>1, <2>3, <2>4 DEF Serves, Waiting, Quiet
  <2> QED
    BY <2>5
<1>3. \A u \in Threads : PositionHolds(u)'
  <2> SUFFICES ASSUME NEW u \in Threads, u # t
               PROVE  PositionHolds(u)'
    OBVIOUS
  <2> QED
    BY DEF QueueInv, PositionHolds, Quiet, Alone, Writing, Reading, Cell, Waiting
<1>4. ClaimsDiffer'
  BY <1>1 DEF QueueInv, ClaimsDiffer
<1>5. (dequeuePos <= enqueuePos)'
  BY DEF QueueInv, Quiet
<1> QED
  BY <1>2, <1>3, <1>4, <1>5 DEF QueueInv

QuietMove(t) ==
    \/ LoadEnqueuePos(t) \/ Probe(t) \/ WriteCell(t) \/ LoadDequeuePos(t) \/ Look(t)
    \/ ReadCell(t) \/ ClaimCellFails(t) \/ GrabCellFails(t) \/ Loop(t) \/ RunTask(t)

LEMMA QuietMoves ==
    ASSUME Typed, QueueInv, NEW t \in Threads, QuietMove(t)
    PROVE  Quiet(t) /\ PositionHolds(t)'
<1>0. /\ pc \in [Threads -> Steps] /\ pos \in [Threads -> Nat]
      /\ enqueuePos \in Nat /\ dequeuePos \in Nat
      /\ pos[t] \in Nat /\ sequence[Cell(t)] \in Nat /\ PositionHolds(t)
  BY Numbers DEF Typed, Steps, QueueInv
<1>h. Home(t) \in {"loop", "done"}
  BY HomeType
<1>1. CASE LoadEnqueuePos(t) \/ ClaimCellFails(t)
  BY <1>0, <1>1 DEF LoadEnqueuePos, ClaimCellFails, Goes, queueVars, Quiet, PositionHolds,
     Writing, Reading
<1>2. CASE LoadDequeuePos(t) \/ GrabCellFails(t)
  BY <1>0, <1>2 DEF LoadDequeuePos, GrabCellFails, Goes, queueVars, Quiet, PositionHolds,
     Writing, Reading
<1>3. CASE Probe(t)
  <2>1. CASE Returns(t, "probe", Home(t))
    BY <1>0, <1>3, <1>h, <2>1 DEF Probe, Goes, Returns, queueVars, Quiet, PositionHolds,
       Writing, Reading
  <2>2. CASE Goes(t, "probe", "enter") /\ Keeps
    BY <1>0, <1>3, <2>2 DEF Probe, Goes, Keeps, queueVars, Quiet, PositionHolds, Writing,
       Reading
  <2>3. CASE sequence[Cell(t)] = pos[t] /\ Goes(t, "probe", "claim") /\ Keeps
    BY <1>0, <1>3, <2>3 DEF Probe, Goes, Keeps, queueVars, Quiet, PositionHolds, Writing,
       Reading, Cell
  <2> QED
    BY <1>3, <2>1, <2>2, <2>3 DEF Probe
<1>4. CASE Look(t)
  <2> DEFINE empty == IF t \in draining THEN "done" ELSE "loop"
  <2>1. CASE Returns(t, "look", empty)
    <3>1. empty \in {"loop", "done"}
      OBVIOUS
    <3> HIDE DEF empty
    <3>2. UNCHANGED queueVars
      BY <1>4 DEF Look, LookThen
    <3> QED
      BY <1>0, <2>1, <3>1, <3>2 DEF Goes, Returns, queueVars, Quiet, PositionHolds, Writing,
         Reading
  <2>2. CASE Goes(t, "look", "load") /\ Keeps
    BY <1>0, <1>4, <2>2 DEF Look, LookThen, Goes, Keeps, queueVars, Quiet, PositionHolds,
       Writing, Reading
  <2>3. CASE sequence[Cell(t)] = pos[t] + 1 /\ Goes(t, "look", "grab") /\ Keeps
    BY <1>0, <1>4, <2>3 DEF Look, LookThen, Goes, Keeps, queueVars, Quiet, PositionHolds,
       Writing, Reading, Cell
  <2> QED
    BY <1>4, <2>1, <2>2, <2>3 DEF Look, LookThen
<1>5. CASE WriteCell(t) \/ ReadCell(t)
  BY <1>0, <1>5 DEF WriteCell, ReadCell, Goes, queueVars, Quiet, PositionHolds, Writing,
     Reading, Cell, Waiting
<1>6. CASE Loop(t)
  BY <1>0, <1>6 DEF Loop, Goes, queueVars, Quiet, PositionHolds, Writing, Reading
<1>7. CASE RunTask(t)
  BY <1>0, <1>7 DEF RunTask, Goes, Returns, queueVars, Quiet, PositionHolds, Writing,
     Reading
<1> QED
  BY <1>1, <1>2, <1>3, <1>4, <1>5, <1>6, <1>7 DEF QuietMove

LEMMA ClaimKeepsQueue ==
    ASSUME Typed, QueueInv, NEW t \in Threads, Alone(t), ClaimCell(t)
    PROVE  QueueInv'
<1>n. PICK n : n = enqueuePos
  OBVIOUS
<1>c. PICK c : c = CellAt(n)
  OBVIOUS
<1>0. /\ n \in Nat /\ dequeuePos \in Nat /\ Cap \in Nat /\ Cap >= 2 /\ dequeuePos <= n
      /\ c \in 0..Cap-1
  BY <1>n, <1>c, Numbers, CellOfPosition DEF QueueInv, Indices
<1>1. /\ pc[t] = "claim" /\ pc'[t] = "write" /\ pos[t] = n /\ pos'[t] = n /\ Cell(t) = c
      /\ enqueuePos' = n + 1 /\ dequeuePos' = dequeuePos /\ sequence' = sequence /\ pos' = pos
  BY <1>n, <1>c DEF ClaimCell, Goes, Typed, Cell
<1>2. sequence[c] = n /\ n < dequeuePos + Cap
  BY <1>n, <1>c, <1>1, ToBeClaimed DEF QueueInv, PositionHolds
<1>3. \A u \in Threads : u # t =>
          (Writing(u)' <=> Writing(u)) /\ (Reading(u)' <=> Reading(u))
  BY DEF Alone, Writing, Reading
<1>4. ~Writing(t) /\ ~Reading(t) /\ Writing(t)' /\ ~Reading(t)'
  BY <1>1 DEF Writing, Reading
<1>5. Waiting' = Waiting \cup {n}
  BY <1>n, <1>0, <1>1 DEF Waiting
<1>6. CellsServe'
  <2> SUFFICES ASSUME NEW i \in 0..Cap-1
               PROVE  \E p \in 0..(dequeuePos + Cap - 1) : Serves(i, p)'
    BY <1>1 DEF CellsServe
  <2>1. CASE i = c
    <3>1. n \in Waiting'
      BY <1>5
    <3>2. Serves(c, n)'
      BY <1>c, <1>0, <1>1, <1>2, <1>4, <3>1 DEF Serves
    <3>3. n \in 0..(dequeuePos + Cap - 1)
      BY <1>0, <1>2
    <3> QED
      BY <2>1, <3>2, <3>3
  <2>2. CASE i # c
    <3>1. PICK p \in 0..(dequeuePos + Cap - 1) : Serves(i, p)
      BY DEF QueueInv, CellsServe
    <3>2. p \in Nat /\ CellAt(p) = i /\ p # n
      BY <1>0, <1>c, <2>2, <3>1 DEF Serves
    <3>3. n # p + Cap
      BY <1>c, <2>2, <3>2, NextLap
    <3>4. n + 1 <= p + Cap
      BY <1>n, <1>0, <3>1, <3>2, <3>3 DEF Serves
    <3>5. (\E u \in Threads : Writing(u) /\ pos[u] = p)
             => \E u \in Threads : Writing(u)' /\ pos'[u] = p
      BY <1>1, <1>3, <1>4
    <3>6. (\E u \in Workers : Reading(u) /\ pos[u] = p)
             => \E u \in Workers : Reading(u)' /\ pos'[u] = p
      BY <1>1, <1>3, <1>4 DEF Threads
    <3>7. n <= p => n + 1 <= p
      BY <1>0, <3>2
    <3>8. Serves(i, p)'
      BY <1>n, <1>1, <1>5, <3>1, <3>4, <3>5, <3>6, <3>7 DEF Serves
    <3> QED
      BY <3>1, <3>8
  <2> QED
    BY <2>1, <2>2
<1>7. \A u \in Threads : PositionHolds(u)'
  <2> SUFFICES ASSUME NEW u \in Threads
               PROVE  PositionHolds(u)'
    OBVIOUS
  <2>1. CASE u = t
    BY <1>n, <1>c, <1>0, <1>1, <1>2, <1>5, <2>1 DEF PositionHolds, Writing, Reading, Cell
  <2>2. CASE u # t
    <3>1. pos[u] \in Nat /\ pos[u] <= n => pos[u] <= n + 1
      BY <1>0
    <3>2. pc'[u] = pc[u] /\ pos'[u] = pos[u] /\ PositionHolds(u) /\ pos[u] \in Nat
      BY <2>2, Numbers DEF QueueInv, Alone
    <3> QED
      BY <1>n, <1>1, <1>5, <3>1, <3>2 DEF PositionHolds, Writing, Reading, Cell
  <2> QED
    BY <2>1, <2>2
<1>8. ClaimsDiffer'
  <2>1. \A u \in Threads : Writing(u) => pos[u] # n
    BY <1>n, <1>0, Numbers DEF QueueInv, PositionHolds, Waiting
  <2> QED
    BY <1>n, <1>1, <1>3, <1>4, <2>1 DEF QueueInv, ClaimsDiffer
<1>9. (dequeuePos <= enqueuePos)'
  BY <1>0, <1>1
<1> QED
  BY <1>6, <1>7, <1>8, <1>9 DEF QueueInv

LEMMA PublishKeepsQueue ==
    ASSUME Typed, QueueInv, NEW t \in Threads, Alone(t), Publish(t)
    PROVE  QueueInv'
<1>n. PICK n : n = pos[t]
  OBVIOUS
<1>c. PICK c : c = CellAt(n)
  OBVIOUS
<1>0. /\ n \in Nat /\ dequeuePos \in Nat /\ enqueuePos \in Nat /\ Cap \in Nat /\ Cap >= 2
      /\ c \in 0..Cap-1 /\ c = Cell(t)
  BY <1>n, <1>c, Numbers, CellOfPosition DEF QueueInv, Indices, Cell
<1>1. /\ pc[t] = "publish" /\ pc'[t] \in {"loop", "done"}
      /\ enqueuePos' = enqueuePos /\ dequeuePos' = dequeuePos
      /\ sequence' = [sequence EXCEPT ![c] = n + 1]
  BY <1>n, <1>c, <1>0, HomeType DEF Publish, Returns, Goes, Typed
<1>2. /\ sequence[c] = n /\ n \in Waiting /\ n < dequeuePos + Cap /\ enqueuePos <= n + Cap
  BY <1>n, <1>c, <1>0, <1>1, WriterServed DEF Writing
<1>3. \A u \in Threads : u # t =>
          (Writing(u)' <=> Writing(u)) /\ (Reading(u)' <=> Reading(u)) /\ pos'[u] = pos[u]
  BY DEF Alone, Writing, Reading
<1>4. Writing(t) /\ ~Reading(t) /\ ~Writing(t)' /\ ~Reading(t)'
  BY <1>1 DEF Writing, Reading
<1>5. /\ sequence'[c] = n + 1 /\ \A i \in 0..Cap-1 : i # c => sequence'[i] = sequence[i]
      /\ Waiting' = Waiting
  BY <1>0, <1>1 DEF Typed, Waiting
<1>6. CellsServe'
  <2> SUFFICES ASSUME NEW i \in 0..Cap-1
               PROVE  \E p \in 0..(dequeuePos + Cap - 1) : Serves(i, p)'
    BY <1>1 DEF CellsServe
  <2>1. CASE i = c
    <3>1. Serves(c, n)'
      BY <1>c, <1>1, <1>2, <1>5 DEF Serves
    <3>2. n \in 0..(dequeuePos + Cap - 1)
      BY <1>0, <1>2
    <3> QED
      BY <2>1, <3>1, <3>2
  <2>2. CASE i # c
    <3>1. PICK p \in 0..(dequeuePos + Cap - 1) : Serves(i, p)
      BY DEF QueueInv, CellsServe
    <3>2. CellAt(p) = i /\ p # n
      BY <1>c, <2>2, <3>1 DEF Serves
    <3>5. (\E u \in Threads : Writing(u) /\ pos[u] = p)
             => \E u \in Threads : Writing(u)' /\ pos'[u] = p
      BY <1>n, <1>c, <1>0, <1>3, <3>2
    <3>6. (\E u \in Workers : Reading(u) /\ pos[u] = p)
             => \E u \in Workers : Reading(u)' /\ pos'[u] = p
      BY <1>3, <1>4 DEF Threads
    <3>8. Serves(i, p)'
      BY <1>1, <1>5, <2>2, <3>1, <3>5, <3>6 DEF Serves
    <3> QED
      BY <3>1, <3>8
  <2> QED
    BY <2>1, <2>2
<1>7. \A u \in Threads : PositionHolds(u)'
  <2> SUFFICES ASSUME NEW u \in Threads
               PROVE  PositionHolds(u)'
    OBVIOUS
  <2>1. CASE u = t
    BY <1>1, <2>1 DEF PositionHolds, Writing, Reading
  <2>2. CASE u # t
    <3>1. /\ pc'[u] = pc[u] /\ pos'[u] = pos[u] /\ PositionHolds(u) /\ pos[u] \in Nat
          /\ Cell(u) \in 0..Cap-1 /\ sequence[Cell(u)] \in Nat /\ Cell(u) = CellAt(pos[u])
      BY <2>2, Numbers DEF QueueInv, Alone, Indices, Cell
    <3>2. sequence'[Cell(u)] \in Nat /\ sequence'[Cell(u)] >= sequence[Cell(u)]
      <4>1. CASE Cell(u) = c
        BY <1>0, <1>2, <1>5, <4>1
      <4>2. CASE Cell(u) # c
        BY <1>5, <3>1, <4>2
      <4> QED
        BY <4>1, <4>2
    <3>3. Writing(u) => Cell(u) # c
      BY <1>n, <1>2, <1>4, <2>2, <3>1 DEF QueueInv, ClaimsDiffer, PositionHolds
    <3>4. Reading(u) => Cell(u) # c
      <4> SUFFICES ASSUME Reading(u), Cell(u) = c
                   PROVE  FALSE
        OBVIOUS
      <4>1. n = pos[u] + 1
        BY <1>2, <3>1 DEF PositionHolds
      <4> QED
        BY <1>c, <3>1, <4>1, Adjacent
    <3>5. Cell(u)' = Cell(u)
      BY <3>1 DEF Cell
    <3>6. /\ pos[u] \in Nat /\ sequence[Cell(u)] >= pos[u] => sequence'[Cell(u)] >= pos[u]
          /\ sequence[Cell(u)] >= pos[u] + 1 => sequence'[Cell(u)] >= pos[u] + 1
      BY <3>1, <3>2
    <3>7. Writing(u) \/ Reading(u) => sequence'[Cell(u)] = sequence[Cell(u)]
      BY <1>5, <3>1, <3>3, <3>4
    <3> QED
      BY <1>1, <1>3, <1>5, <2>2, <3>1, <3>5, <3>6, <3>7 DEF PositionHolds
  <2> QED
    BY <2>1, <2>2
<1>8. ClaimsDiffer'
  BY <1>3, <1>4 DEF QueueInv, ClaimsDiffer
<1>9. (dequeuePos <= enqueuePos)'
  BY <1>1 DEF QueueInv
<1> QED
  BY <1>6, <1>7, <1>8, <1>9 DEF QueueInv

LEMMA GrabKeepsQueue ==
    ASSUME Typed, StepsAreTheirs, QueueInv, NEW t \in Threads, Alone(t), GrabCell(t)
    PROVE  QueueInv'
<1>n. PICK n : n = dequeuePos
  OBVIOUS
<1>c. PICK c : c = CellAt(n)
  OBVIOUS
<1>0. /\ n \in Nat /\ enqueuePos \in Nat /\ Cap \in Nat /\ Cap >= 2 /\ n <= enqueuePos
      /\ c \in 0..Cap-1
  BY <1>n, <1>c, Numbers, CellOfPosition DEF QueueInv, Indices
<1>1. /\ pc[t] = "grab" /\ pc'[t] = "read" /\ pos[t] = n /\ pos'[t] = n /\ Cell(t) = c
      /\ dequeuePos' = n + 1 /\ enqueuePos' = enqueuePos /\ sequence' = sequence /\ pos' = pos
      /\ t \in Workers
  BY <1>n, <1>c DEF GrabCell, Goes, Typed, Cell, StepsAreTheirs, DequeueSteps
<1>2. sequence[c] = n + 1 /\ n < enqueuePos /\ enqueuePos <= n + Cap
  BY <1>n, <1>c, <1>1, ToBeGrabbed DEF QueueInv, PositionHolds
<1>3. \A u \in Threads : u # t =>
          (Writing(u)' <=> Writing(u)) /\ (Reading(u)' <=> Reading(u))
  BY DEF Alone, Writing, Reading
<1>4. ~Writing(t) /\ ~Reading(t) /\ ~Writing(t)' /\ Reading(t)'
  BY <1>1 DEF Writing, Reading
<1>5. Waiting' = Waiting \ {n}
  BY <1>n, <1>0, <1>1 DEF Waiting
<1>6. CellsServe'
  <2> SUFFICES ASSUME NEW i \in 0..Cap-1
               PROVE  \E p \in 0..(n + 1 + Cap - 1) : Serves(i, p)'
    BY <1>1 DEF CellsServe
  <2>1. CASE i = c
    <3>1. n < n + 1
      BY <1>0
    <3>2. Serves(c, n)'
      BY <1>c, <1>0, <1>1, <1>2, <1>4, <3>1 DEF Serves
    <3>3. n \in 0..(n + 1 + Cap - 1)
      BY <1>0, <1>2
    <3> QED
      BY <2>1, <3>2, <3>3
  <2>2. CASE i # c
    <3>1. PICK p \in 0..(n + Cap - 1) : Serves(i, p)
      BY <1>n DEF QueueInv, CellsServe
    <3>2. p \in Nat /\ CellAt(p) = i /\ p # n /\ p \in 0..(n + 1 + Cap - 1)
      BY <1>0, <1>c, <2>2, <3>1 DEF Serves
    <3>5. (\E u \in Threads : Writing(u) /\ pos[u] = p)
             => \E u \in Threads : Writing(u)' /\ pos'[u] = p
      BY <1>1, <1>3, <1>4
    <3>6. (\E u \in Workers : Reading(u) /\ pos[u] = p)
             => \E u \in Workers : Reading(u)' /\ pos'[u] = p
      BY <1>1, <1>3, <1>4 DEF Threads
    <3>7. p < n => p < n + 1
      BY <1>0, <3>2
    <3>8. Serves(i, p)'
      BY <1>n, <1>1, <1>5, <3>1, <3>2, <3>5, <3>6, <3>7 DEF Serves
    <3> QED
      BY <3>2, <3>8
  <2> QED
    BY <2>1, <2>2
<1>7. \A u \in Threads : PositionHolds(u)'
  <2> SUFFICES ASSUME NEW u \in Threads
               PROVE  PositionHolds(u)'
    OBVIOUS
  <2>1. CASE u = t
    BY <1>n, <1>c, <1>0, <1>1, <1>2, <1>5, <2>1 DEF PositionHolds, Writing, Reading, Cell
  <2>2. CASE u # t
    <3>1. pos[u] \in Nat => (pos[u] <= n => pos[u] <= n + 1) /\ (pos[u] < n => pos[u] < n + 1)
      BY <1>0
    <3>2. pc'[u] = pc[u] /\ pos'[u] = pos[u] /\ PositionHolds(u) /\ pos[u] \in Nat
      BY <2>2, Numbers DEF QueueInv, Alone
    <3>3. Cell(u)' = Cell(u) /\ Cell(u) = CellAt(pos[u])
      BY <3>2 DEF Cell
    <3>4. Writing(u) => pos[u] # n
      <4> SUFFICES ASSUME Writing(u), pos[u] = n
                   PROVE  FALSE
        OBVIOUS
      <4>1. n = n + 1
        BY <1>c, <1>2, <3>2, <3>3 DEF PositionHolds
      <4> QED
        BY <1>0, <4>1
    <3> QED
      BY <1>n, <1>1, <1>3, <1>5, <2>2, <3>1, <3>2, <3>3, <3>4 DEF PositionHolds
  <2> QED
    BY <2>1, <2>2
<1>8. ClaimsDiffer'
  <2>1. \A u \in Threads : Reading(u) => pos[u] # n
    BY <1>n, <1>0, Numbers DEF QueueInv, PositionHolds
  <2> QED
    BY <1>n, <1>1, <1>3, <1>4, <2>1 DEF QueueInv, ClaimsDiffer
<1>9. (dequeuePos <= enqueuePos)'
  BY <1>0, <1>1, <1>2
<1> QED
  BY <1>6, <1>7, <1>8, <1>9 DEF QueueInv

LEMMA FreeKeepsQueue ==
    ASSUME Typed, QueueInv, NEW t \in Threads, Alone(t), FreeCell(t)
    PROVE  QueueInv'
<1>n. PICK n : n = pos[t]
  OBVIOUS
<1>c. PICK c : c = CellAt(n)
  OBVIOUS
<1>0. /\ n \in Nat /\ dequeuePos \in Nat /\ enqueuePos \in Nat /\ Cap \in Nat /\ Cap >= 2
      /\ c \in 0..Cap-1 /\ c = Cell(t)
  BY <1>n, <1>c, Numbers, CellOfPosition DEF QueueInv, Indices, Cell
<1>1. /\ pc[t] = "free" /\ pc'[t] = "run"
      /\ enqueuePos' = enqueuePos /\ dequeuePos' = dequeuePos
      /\ sequence' = [sequence EXCEPT ![c] = n + Cap]
  BY <1>n, <1>c, <1>0 DEF FreeCell, FreeCellAs, Goes, Typed
<1>2. sequence[c] = n + 1 /\ n < dequeuePos /\ enqueuePos <= n + Cap
  BY <1>n, <1>c, <1>0, <1>1, ReaderServed DEF Reading
<1>3. \A u \in Threads : u # t =>
          (Writing(u)' <=> Writing(u)) /\ (Reading(u)' <=> Reading(u)) /\ pos'[u] = pos[u]
  BY DEF Alone, Writing, Reading
<1>4. ~Writing(t) /\ Reading(t) /\ ~Writing(t)' /\ ~Reading(t)'
  BY <1>1 DEF Writing, Reading
<1>5. /\ sequence'[c] = n + Cap /\ \A i \in 0..Cap-1 : i # c => sequence'[i] = sequence[i]
      /\ Waiting' = Waiting
  BY <1>0, <1>1 DEF Typed, Waiting
<1>6. CellsServe'
  <2> SUFFICES ASSUME NEW i \in 0..Cap-1
               PROVE  \E p \in 0..(dequeuePos + Cap - 1) : Serves(i, p)'
    BY <1>1 DEF CellsServe
  <2>1. CASE i = c
    <3>0. PICK q : q = n + Cap
      OBVIOUS
    <3>1. q \in 0..(dequeuePos + Cap - 1) /\ enqueuePos <= q + Cap
      BY <1>0, <1>2, <3>0
    <3>2. CellAt(q) = c
      BY <1>0, <1>c, <3>0, NextLap
    <3>3. Serves(c, q)'
      BY <1>1, <1>2, <1>5, <3>0, <3>1, <3>2 DEF Serves
    <3> QED
      BY <2>1, <3>1, <3>3
  <2>2. CASE i # c
    <3>1. PICK p \in 0..(dequeuePos + Cap - 1) : Serves(i, p)
      BY DEF QueueInv, CellsServe
    <3>2. CellAt(p) = i /\ p # n
      BY <1>c, <2>2, <3>1 DEF Serves
    <3>5. (\E u \in Threads : Writing(u) /\ pos[u] = p)
             => \E u \in Threads : Writing(u)' /\ pos'[u] = p
      BY <1>3, <1>4
    <3>6. (\E u \in Workers : Reading(u) /\ pos[u] = p)
             => \E u \in Workers : Reading(u)' /\ pos'[u] = p
      BY <1>n, <1>3, <3>2 DEF Threads
    <3>8. Serves(i, p)'
      BY <1>1, <1>5, <2>2, <3>1, <3>5, <3>6 DEF Serves
    <3> QED
      BY <3>1, <3>8
  <2> QED
    BY <2>1, <2>2
<1>7. \A u \in Threads : PositionHolds(u)'
  <2> SUFFICES ASSUME NEW u \in Threads
               PROVE  PositionHolds(u)'
    OBVIOUS
  <2>1. CASE u = t
    BY <1>1, <2>1 DEF PositionHolds, Writing, Reading
  <2>2. CASE u # t
    <3>1. /\ pc'[u] = pc[u] /\ pos'[u] = pos[u] /\ PositionHolds(u) /\ pos[u] \in Nat
          /\ Cell(u) \in 0..Cap-1 /\ sequence[Cell(u)] \in Nat /\ Cell(u) = CellAt(pos[u])
      BY <2>2, Numbers DEF QueueInv, Alone, Indices, Cell
    <3>2. sequence'[Cell(u)] \in Nat /\ sequence'[Cell(u)] >= sequence[Cell(u)]
      <4>1. CASE Cell(u) = c
        BY <1>0, <1>2, <1>5, <4>1
      <4>2. CASE Cell(u) # c
        BY <1>5, <3>1, <4>2
      <4> QED
        BY <4>1, <4>2
    <3>3. Reading(u) => Cell(u) # c
      <4> SUFFICES ASSUME Reading(u), Cell(u) = c
                   PROVE  FALSE
        OBVIOUS
      <4>1. n = pos[u]
        BY <1>0, <1>2, <3>1 DEF PositionHolds
      <4> QED
        BY <1>n, <1>4, <2>2, <4>1 DEF QueueInv, ClaimsDiffer
    <3>4. Writing(u) => Cell(u) # c
      <4> SUFFICES ASSUME Writing(u), Cell(u) = c
                   PROVE  FALSE
        OBVIOUS
      <4>1. pos[u] = n + 1
        BY <1>2, <3>1 DEF PositionHolds
      <4> QED
        BY <1>0, <1>c, <3>1, <4>1, Adjacent
    <3>5. Cell(u)' = Cell(u)
      BY <3>1 DEF Cell
    <3>6. /\ pos[u] \in Nat /\ sequence[Cell(u)] >= pos[u] => sequence'[Cell(u)] >= pos[u]
          /\ sequence[Cell(u)] >= pos[u] + 1 => sequence'[Cell(u)] >= pos[u] + 1
      BY <3>1, <3>2
    <3>7. Writing(u) \/ Reading(u) => sequence'[Cell(u)] = sequence[Cell(u)]
      BY <1>5, <3>1, <3>3, <3>4
    <3> QED
      BY <1>1, <1>3, <1>5, <2>2, <3>1, <3>5, <3>6, <3>7 DEF PositionHolds
  <2> QED
    BY <2>1, <2>2
<1>8. ClaimsDiffer'
  BY <1>3, <1>4 DEF QueueInv, ClaimsDiffer
<1>9. (dequeuePos <= enqueuePos)'
  BY <1>1 DEF QueueInv
<1> QED
  BY <1>6, <1>7, <1>8, <1>9 DEF QueueInv

LEMMA QueueStep ==
    ASSUME Typed, StepsAreTheirs, QueueInv, NEW t \in Threads, ThreadStep(t)
    PROVE  QueueInv'
<1>1. Alone(t)
  BY StepsAlone
<1>2. CASE QuietMove(t)
  BY <1>1, <1>2, QuietMoves, QuietStep
<1> QED
  BY <1>1, <1>2, ClaimKeepsQueue, PublishKeepsQueue, GrabKeepsQueue, FreeKeepsQueue
     DEF ThreadStep, QuietMove, Claims

-----------------------------------------------------------------------------
(* The tasks on their way.                                                 *)

Writer(u, p) == pc[u] = "write" /\ pos[u] = p

LEMMA TaskOfWriter ==
    ASSUME ClaimsDiffer, NEW p, NEW t \in Threads, Writer(t, p)
    PROVE  TaskAt(p) = job[t]
<1> DEFINE W == {u \in Threads : pc[u] = "write" /\ pos[u] = p}
<1>1. W = {t}
  BY DEF ClaimsDiffer, Writing, Writer
<1>2. (CHOOSE u \in W : TRUE) = t
  BY <1>1
<1> QED
  BY <1>1, <1>2 DEF TaskAt

LEMMA TaskInCell ==
    ASSUME NEW p, \A u \in Threads : ~Writer(u, p)
    PROVE  TaskAt(p) = data[CellAt(p)]
BY DEF TaskAt, Writer

\* The task at a position stays while its writer and its cell do.
LEMMA TaskStays ==
    ASSUME ClaimsDiffer, ClaimsDiffer', NEW p,
           data'[CellAt(p)] = data[CellAt(p)],
           \A u \in Threads : /\ Writer(u, p)' <=> Writer(u, p)
                              /\ Writer(u, p) => job'[u] = job[u]
    PROVE  TaskAt(p)' = TaskAt(p)
<1>1. CASE \E u \in Threads : Writer(u, p)
  <2>1. PICK u \in Threads : Writer(u, p)
    BY <1>1
  <2>2. Writer(u, p)' /\ job'[u] = job[u]
    BY <2>1
  <2>3. TaskAt(p) = job[u]
    BY <2>1, TaskOfWriter
  <2> DEFINE W == {v \in Threads : pc[v] = "write" /\ pos[v] = p}
  <2>4. W' = {u}
    BY <2>2 DEF ClaimsDiffer, Writing, Writer
  <2>5. TaskAt(p)' = job'[u]
    <3>1. (CHOOSE v \in W' : TRUE) = u
      BY <2>4
    <3> QED
      BY <2>4, <3>1 DEF TaskAt
  <2> QED
    BY <2>2, <2>3, <2>5
<1>2. CASE \A u \in Threads : ~Writer(u, p)
  <2>1. TaskAt(p) = data[CellAt(p)]
    BY <1>2, TaskInCell
  <2>2. \A u \in Threads : ~(pc'[u] = "write" /\ pos'[u] = p)
    BY <1>2 DEF Writer
  <2>3. TaskAt(p)' = data'[CellAt(p)]
    BY <2>2 DEF TaskAt
  <2> QED
    BY <2>1, <2>3
<1> QED
  BY <1>1, <1>2

\* What a slot holds lies in a cell of its own.
LEMMA WaitingBound ==
    ASSUME Typed, QueueInv
    PROVE  enqueuePos <= dequeuePos + Cap
<1>n. PICK n : n = dequeuePos
  OBVIOUS
<1>0. n \in Nat /\ enqueuePos \in Nat /\ Cap \in Nat /\ n <= enqueuePos
  BY <1>n, Numbers DEF QueueInv
<1>1. PICK p \in Nat : /\ p < n + Cap /\ Serves(CellAt(n), p)
                       /\ (p = n \/ n + Cap <= p \/ p + Cap <= n)
  BY <1>n, <1>0, ServedAt
<1>2. enqueuePos <= p + Cap
  BY <1>1 DEF Serves
<1> QED
  BY <1>n, <1>0, <1>1, <1>2

LEMMA SlotBounds ==
    ASSUME Typed, QueueInv, NEW p \in Slots
    PROVE  p \in Nat /\ p < enqueuePos /\ enqueuePos <= p + Cap
<1>0. dequeuePos \in Nat /\ enqueuePos \in Nat /\ Cap \in Nat /\ dequeuePos <= enqueuePos
  BY Numbers DEF QueueInv
<1>1. CASE p \in Waiting
  BY <1>0, <1>1, WaitingBound DEF Waiting
<1>2. CASE p \in {pos[t] : t \in {w \in Workers : pc[w] = "read"}}
  <2>1. PICK t \in Threads : p = pos[t] /\ Reading(t)
    BY <1>2 DEF Threads, Reading
  <2>2. p \in Nat /\ p < dequeuePos /\ enqueuePos <= p + Cap
    BY <2>1, ReaderServed, Numbers
  <2> QED
    BY <1>0, <2>2
<1> QED
  BY <1>1, <1>2 DEF Slots

LEMMA SlotsApart ==
    ASSUME Typed, QueueInv, NEW p \in Slots, NEW q \in Slots, CellAt(p) = CellAt(q)
    PROVE  p = q
<1>1. /\ p \in Nat /\ p < enqueuePos /\ enqueuePos <= p + Cap
      /\ q \in Nat /\ q < enqueuePos /\ enqueuePos <= q + Cap
      /\ enqueuePos \in Nat /\ Cap \in Nat
  BY SlotBounds, Numbers
<1>2. p < q + Cap /\ q < p + Cap
  BY <1>1
<1> QED
  BY <1>1, <1>2, LapsApart

\* No step of a thread changes the task in a slot that stays one.
LEMMA TaskKept ==
    ASSUME Typed, QueueInv, QueueInv', NEW t \in Threads, ThreadStep(t), NEW p \in Slots
    PROVE  TaskAt(p)' = TaskAt(p)
<1>0. /\ Alone(t) /\ pc \in [Threads -> Steps] /\ p \in Nat /\ p < enqueuePos
      /\ enqueuePos \in Nat /\ Home(t) \in {"loop", "done"}
  BY StepsAlone, SlotBounds, Numbers, HomeType DEF Typed, Steps
<1>1. CASE WriteCell(t)
  <2>n. PICK n : n = pos[t]
    OBVIOUS
  <2>c. PICK c : c = CellAt(n)
    OBVIOUS
  <2>1. /\ pc[t] = "write" /\ pc'[t] = "publish" /\ pos' = pos /\ job' = job /\ Writing(t)
        /\ c \in Indices /\ data' = [data EXCEPT ![c] = job[t]]
    BY <1>1, <2>n, <2>c, Numbers DEF WriteCell, Goes, Typed, Cell, Writing
  <2>2. data'[c] = job[t] /\ \A i \in Indices : i # c => data'[i] = data[i]
    BY <2>1 DEF Typed, Indices
  <2>3. CASE p = n
    <3>1. TaskAt(n) = job[t]
      BY <2>n, <2>1, TaskOfWriter DEF QueueInv, Writer
    <3>2. \A u \in Threads : ~(pc'[u] = "write" /\ pos'[u] = n)
      BY <1>0, <2>n, <2>1 DEF Alone, QueueInv, ClaimsDiffer, Writing
    <3>3. TaskAt(n)' = data'[c]
      BY <2>c, <3>2 DEF TaskAt
    <3> QED
      BY <2>2, <2>3, <3>1, <3>3
  <2>4. CASE p # n
    <3>1. n \in Slots
      BY <2>n, <2>1, WriterServed DEF Slots
    <3>2. CellAt(p) # c /\ CellAt(p) \in Indices
      BY <1>0, <2>c, <2>4, <3>1, SlotsApart, CellOfPosition
    <3>3. \A u \in Threads : Writer(u, p)' <=> Writer(u, p)
      BY <1>0, <2>n, <2>1, <2>4 DEF Writer, Alone
    <3> QED
      BY <2>1, <2>2, <3>2, <3>3, TaskStays DEF QueueInv
  <2> QED
    BY <2>3, <2>4
<1>2. CASE ~WriteCell(t)
  <2>1. data' = data
    BY <1>2 DEF ThreadStep, LoadEnqueuePos, Probe, Publish, LoadDequeuePos, Look, LookThen,
       ReadCell, ClaimCellFails, GrabCellFails, Claims, ClaimCell, GrabCell, Loop, RunTask,
       FreeCell, FreeCellAs, queueVars
  <2>2. CASE ClaimCell(t)
    <3>1. pos'[t] = enqueuePos /\ pos[t] = enqueuePos /\ pc[t] = "claim"
      BY <2>2 DEF ClaimCell, Goes
    <3>2. \A u \in Threads : /\ Writer(u, p)' <=> Writer(u, p)
                             /\ Writer(u, p) => job'[u] = job[u]
      BY <1>0, <3>1 DEF Writer, Alone
    <3> QED
      BY <2>1, <3>2, TaskStays DEF QueueInv
  <2>3. CASE ~ClaimCell(t)
    <3>1. pc[t] # "write" /\ pc'[t] # "write"
      <4>1. CASE LoadEnqueuePos(t) \/ LoadDequeuePos(t) \/ ClaimCellFails(t) \/ GrabCellFails(t)
                 \/ GrabCell(t) \/ ReadCell(t)
        BY <1>0, <4>1 DEF LoadEnqueuePos, LoadDequeuePos, ClaimCellFails, GrabCellFails,
           GrabCell, ReadCell, Goes
      <4>2. CASE Probe(t) \/ Publish(t)
        BY <1>0, <4>2 DEF Probe, Publish, Returns, Goes
      <4>3. CASE Look(t)
        BY <1>0, <4>3 DEF Look, LookThen, Returns, Goes
      <4>4. CASE FreeCell(t) \/ Loop(t) \/ RunTask(t)
        BY <1>0, <4>4 DEF FreeCell, FreeCellAs, Loop, RunTask, Returns, Goes
      <4> QED
        BY <1>2, <2>3, <4>1, <4>2, <4>3, <4>4 DEF ThreadStep, Claims
    <3>2. \A u \in Threads : /\ Writer(u, p)' <=> Writer(u, p)
                             /\ Writer(u, p) => job'[u] = job[u]
      BY <1>0, <3>1 DEF Writer, Alone
    <3> QED
      BY <2>1, <3>2, TaskStays DEF QueueInv
  <2> QED
    BY <2>2, <2>3
<1> QED
  BY <1>1, <1>2

\* Fewer carriers of the same tasks.
LEMMA FewerCarry ==
    ASSUME TaskInv, Hands' \subseteq Hands, Slots' \subseteq Slots, runs' = runs,
           \A t \in Hands' : job'[t] = job[t],
           \A p \in Slots' : TaskAt(p)' = TaskAt(p)
    PROVE  TaskInv'
<1>1. \A x : Carried(x)' => Carried(x)
  BY DEF Carried
<1>2. (\A p \in Slots : TaskAt(p) \in Tasks)'
  BY DEF TaskInv
<1>3. (\A t, u \in Hands : t = u \/ job[t] # job[u])'
  BY DEF TaskInv
<1>4. (\A p, q \in Slots : p = q \/ TaskAt(p) # TaskAt(q))'
  BY DEF TaskInv
<1>5. (\A t \in Hands, p \in Slots : job[t] # TaskAt(p))'
  BY DEF TaskInv
<1>6. (\A x \in Tasks : Carried(x) => runs[x] = 0)'
  BY <1>1 DEF TaskInv
<1>7. (\A x \in Callers : \A y \in Spawns[x] : Carried(y) \/ runs[y] > 0 => runs[x] > 0)'
  BY <1>1 DEF TaskInv
<1> QED
  BY <1>2, <1>3, <1>4, <1>5, <1>6, <1>7 DEF TaskInv

\* A step that moves nothing between hands and slots.
LEMMA TasksQuiet ==
    ASSUME Typed, QueueInv, QueueInv', TaskInv, NEW t \in Threads, ThreadStep(t), Alone(t),
           pc[t] \notin {"write", "read"}, pc'[t] \notin {"write", "read"},
           UNCHANGED <<data, enqueuePos, dequeuePos, runs>>,
           t \in Hands' => t \in Hands /\ job'[t] = job[t]
    PROVE  TaskInv'
<1>1. Hands' \subseteq Hands /\ \A u \in Hands' : job'[u] = job[u]
  BY DEF Hands, Alone
<1>2. Slots' \subseteq Slots
  BY DEF Slots, Waiting, Alone, Threads
<1>3. \A p \in Slots' : TaskAt(p)' = TaskAt(p)
  BY <1>2, TaskKept
<1> QED
  BY <1>1, <1>2, <1>3, FewerCarry

LEMMA QuietTasks ==
    ASSUME Typed, StepsAreTheirs, QueueInv, QueueInv', TaskInv, NEW t \in Threads, Alone(t),
           \/ LoadEnqueuePos(t) \/ Probe(t) \/ ClaimCellFails(t) \/ Publish(t)
           \/ LoadDequeuePos(t) \/ Look(t) \/ GrabCellFails(t) \/ FreeCell(t) \/ Loop(t)
    PROVE  TaskInv'
<1>0. pc \in [Threads -> Steps] /\ job \in [Threads -> Tasks \cup {None}]
  BY DEF Typed, Steps
<1>h. Home(t) \in {"loop", "done"}
  BY HomeType
<1>1. UNCHANGED <<data, enqueuePos, dequeuePos, runs>>
  BY DEF LoadEnqueuePos, Probe, ClaimCellFails, Publish, LoadDequeuePos, Look, LookThen,
     GrabCellFails, FreeCell, FreeCellAs, Loop, queueVars, poolVars
<1>2. /\ pc[t] \notin {"write", "read"} /\ pc'[t] \notin {"write", "read"}
      /\ t \in Hands' => t \in Hands /\ job'[t] = job[t]
  <2>1. CASE LoadEnqueuePos(t) \/ ClaimCellFails(t) \/ LoadDequeuePos(t) \/ GrabCellFails(t)
    BY <1>0, <2>1 DEF LoadEnqueuePos, ClaimCellFails, LoadDequeuePos, GrabCellFails, Goes,
       Hands
  <2>2. CASE Probe(t) \/ Publish(t)
    BY <1>0, <1>h, <2>2 DEF Probe, Publish, Goes, Keeps, Returns, Hands
  <2>3. CASE Look(t)
    BY <1>0, <2>3 DEF Look, LookThen, Goes, Keeps, Returns, Hands
  <2>4. CASE FreeCell(t) \/ Loop(t)
    BY <1>0, <2>4 DEF FreeCell, FreeCellAs, Loop, Goes, Hands
  <2> QED
    BY <2>1, <2>2, <2>3, <2>4
<1> QED
  BY <1>1, <1>2, TasksQuiet DEF ThreadStep

LEMMA GrabKeepsTasks ==
    ASSUME Typed, StepsAreTheirs, QueueInv, QueueInv', TaskInv, NEW t \in Threads, Alone(t),
           GrabCell(t)
    PROVE  TaskInv'
<1>n. PICK n : n = dequeuePos
  OBVIOUS
<1>0. n \in Nat /\ enqueuePos \in Nat /\ n <= enqueuePos
  BY <1>n, Numbers DEF QueueInv
<1>1. /\ pc[t] = "grab" /\ pc'[t] = "read" /\ pos[t] = n /\ pos' = pos /\ job' = job
      /\ dequeuePos' = n + 1 /\ enqueuePos' = enqueuePos /\ data' = data /\ runs' = runs
      /\ t \in Workers
  BY <1>n DEF GrabCell, Goes, Typed, StepsAreTheirs, DequeueSteps, poolVars
<1>2. Waiting' \subseteq Waiting /\ n \in Waiting
  <2>1. n < enqueuePos
    BY <1>0, <1>1 DEF QueueInv
  <2> QED
    BY <1>n, <1>0, <1>1, <2>1 DEF Waiting
<1>3. Slots' \subseteq Slots
  <2>1. \A u \in Workers : pc'[u] = "read" => u = t \/ pc[u] = "read"
    BY DEF Alone, Threads
  <2> QED
    BY <1>1, <1>2, <2>1 DEF Slots
<1>4. Hands' \subseteq Hands
  BY <1>1 DEF Hands, Alone
<1>5. \A p \in Slots' : TaskAt(p)' = TaskAt(p)
  BY <1>3, TaskKept DEF ThreadStep, Claims
<1> QED
  BY <1>1, <1>3, <1>4, <1>5, FewerCarry

LEMMA WriteKeepsTasks ==
    ASSUME Typed, StepsAreTheirs, QueueInv, QueueInv', TaskInv, NEW t \in Threads, Alone(t),
           WriteCell(t)
    PROVE  TaskInv'
<1>1. /\ pc[t] = "write" /\ pc'[t] = "publish" /\ pos' = pos /\ job' = job
      /\ UNCHANGED <<enqueuePos, dequeuePos, runs>>
  BY DEF WriteCell, Goes, Typed, poolVars
<1>3. Slots' \subseteq Slots
  <2>1. \A u \in Workers : pc'[u] = "read" => pc[u] = "read"
    BY <1>1 DEF Alone, Threads
  <2> QED
    BY <1>1, <2>1 DEF Slots, Waiting
<1>4. Hands' \subseteq Hands
  BY <1>1 DEF Hands, Alone
<1>5. \A p \in Slots : TaskAt(p)' = TaskAt(p)
  BY TaskKept DEF ThreadStep
<1> QED
  BY <1>1, <1>3, <1>4, <1>5, FewerCarry

LEMMA ClaimKeepsTasks ==
    ASSUME Typed, StepsAreTheirs, QueueInv, QueueInv', TaskInv, NEW t \in Threads, Alone(t),
           ClaimCell(t)
    PROVE  TaskInv'
<1>n. PICK n : n = enqueuePos
  OBVIOUS
<1>0. n \in Nat /\ dequeuePos \in Nat /\ dequeuePos <= n
  BY <1>n, Numbers DEF QueueInv
<1>1. /\ pc[t] = "claim" /\ pc'[t] = "write" /\ pos[t] = n /\ pos' = pos /\ job' = job
      /\ dequeuePos' = dequeuePos /\ enqueuePos' = n + 1 /\ data' = data /\ runs' = runs
      /\ job[t] \in Tasks
  BY <1>n DEF ClaimCell, Goes, Typed, StepsAreTheirs, EnqueueSteps, poolVars
<1>2. n \notin Slots
  BY <1>n, <1>0, SlotBounds
<1>3. Slots' = Slots \cup {n}
  <2>1. Waiting' = Waiting \cup {n}
    BY <1>n, <1>0, <1>1 DEF Waiting
  <2>2. {w \in Workers : pc'[w] = "read"} = {w \in Workers : pc[w] = "read"}
    BY <1>1 DEF Alone, Threads
  <2> QED
    BY <1>1, <2>1, <2>2 DEF Slots
<1>4. Hands' = Hands \ {t} /\ t \in Hands
  BY <1>1 DEF Hands, Alone
<1>5. TaskAt(n)' = job[t]
  <2>1. \A u \in Threads : pc'[u] = "write" /\ pos'[u] = n <=> u = t
    BY <1>n, <1>0, <1>1, Numbers DEF Alone, QueueInv, PositionHolds, Waiting, Writing
  <2> DEFINE W == {u \in Threads : pc'[u] = "write" /\ pos'[u] = n}
  <2>2. W = {t} /\ (CHOOSE u \in W : TRUE) = t
    BY <2>1
  <2> QED
    BY <1>1, <2>2 DEF TaskAt
<1>6. \A p \in Slots : TaskAt(p)' = TaskAt(p)
  BY TaskKept DEF ThreadStep, Claims
<1>7. \A x : Carried(x)' => Carried(x)
  BY <1>1, <1>3, <1>4, <1>5, <1>6 DEF Carried
<1>8. (\A p \in Slots : TaskAt(p) \in Tasks)'
  BY <1>1, <1>3, <1>5, <1>6 DEF TaskInv
<1>9. (\A u, v \in Hands : u = v \/ job[u] # job[v])'
  BY <1>1, <1>4 DEF TaskInv
<1>10. (\A p, q \in Slots : p = q \/ TaskAt(p) # TaskAt(q))'
  BY <1>3, <1>4, <1>5, <1>6 DEF TaskInv
<1>11. (\A u \in Hands, p \in Slots : job[u] # TaskAt(p))'
  BY <1>1, <1>3, <1>4, <1>5, <1>6 DEF TaskInv
<1>12. (\A x \in Tasks : Carried(x) => runs[x] = 0)'
  BY <1>1, <1>7 DEF TaskInv
<1>13. (\A x \in Callers : \A y \in Spawns[x] : Carried(y) \/ runs[y] > 0 => runs[x] > 0)'
  BY <1>1, <1>7 DEF TaskInv
<1> QED
  BY <1>8, <1>9, <1>10, <1>11, <1>12, <1>13 DEF TaskInv

\* A reader finds the task of its position in its cell.
LEMMA ReaderFinds ==
    ASSUME Typed, QueueInv, NEW t \in Threads, Reading(t)
    PROVE  TaskAt(pos[t]) = data[Cell(t)] /\ pos[t] \notin Waiting
<1>1. pos[t] \in Nat /\ pos[t] < dequeuePos /\ dequeuePos \in Nat /\ enqueuePos \in Nat
  BY Numbers DEF QueueInv, PositionHolds
<1>2. pos[t] \notin Waiting
  BY <1>1 DEF Waiting
<1>3. \A u \in Threads : ~Writer(u, pos[t])
  BY <1>2 DEF QueueInv, PositionHolds, Writer, Writing
<1> QED
  BY <1>2, <1>3, TaskInCell DEF Cell

LEMMA ReadKeepsTasks ==
    ASSUME Typed, StepsAreTheirs, QueueInv, QueueInv', TaskInv, NEW t \in Threads, Alone(t),
           ReadCell(t)
    PROVE  TaskInv' /\ job'[t] \in Tasks
<1>n. PICK n : n = pos[t]
  OBVIOUS
<1>1. /\ pc[t] = "read" /\ pc'[t] = "free" /\ pos' = pos /\ Reading(t)
      /\ job' = [job EXCEPT ![t] = data[Cell(t)]]
      /\ dequeuePos' = dequeuePos /\ enqueuePos' = enqueuePos /\ data' = data /\ runs' = runs
      /\ t \in Workers
  BY DEF ReadCell, Goes, Typed, StepsAreTheirs, DequeueSteps, queueVars, poolVars, Reading
<1>2. n \in Slots /\ n \notin Waiting /\ TaskAt(n) = data[Cell(t)]
  BY <1>n, <1>1, ReaderFinds DEF Slots
<1>3. Slots' = Slots \ {n}
  <2>1. \A u \in Workers : u # t /\ pc[u] = "read" => pos[u] # n
    BY <1>n, <1>1 DEF QueueInv, ClaimsDiffer, Reading, Threads
  <2>2. \A u \in Workers : pc'[u] = "read" <=> u # t /\ pc[u] = "read"
    BY <1>1 DEF Alone, Threads
  <2> QED
    BY <1>n, <1>1, <1>2, <2>1, <2>2 DEF Slots, Waiting
<1>4. Hands' = Hands \cup {t} /\ t \notin Hands
  BY <1>1 DEF Hands, Alone
<1>5. job'[t] = TaskAt(n) /\ \A u \in Threads : u # t => job'[u] = job[u]
  BY <1>1, <1>2 DEF Typed
<1>6. \A p \in Slots : TaskAt(p)' = TaskAt(p)
  BY TaskKept DEF ThreadStep
<1>s. \A u \in Hands : u \in Threads
  BY DEF Hands
<1>7. \A x : Carried(x)' => Carried(x)
  BY <1>2, <1>3, <1>4, <1>5, <1>6, <1>s DEF Carried
<1>8. (\A p \in Slots : TaskAt(p) \in Tasks)'
  BY <1>3, <1>6 DEF TaskInv
<1>9. (\A u, v \in Hands : u = v \/ job[u] # job[v])'
  BY <1>2, <1>4, <1>5, <1>s DEF TaskInv
<1>10. (\A p, q \in Slots : p = q \/ TaskAt(p) # TaskAt(q))'
  BY <1>3, <1>6 DEF TaskInv
<1>11. (\A u \in Hands, p \in Slots : job[u] # TaskAt(p))'
  BY <1>2, <1>3, <1>4, <1>5, <1>6, <1>s DEF TaskInv
<1>12. (\A x \in Tasks : Carried(x) => runs[x] = 0)'
  BY <1>1, <1>7 DEF TaskInv
<1>13. (\A x \in Callers : \A y \in Spawns[x] : Carried(y) \/ runs[y] > 0 => runs[x] > 0)'
  BY <1>1, <1>7 DEF TaskInv
<1>14. job'[t] \in Tasks
  BY <1>2, <1>5 DEF TaskInv
<1> QED
  BY <1>8, <1>9, <1>10, <1>11, <1>12, <1>13, <1>14 DEF TaskInv

LEMMA RunKeepsTasks ==
    ASSUME Typed, StepsAreTheirs, QueueInv, QueueInv', TaskInv, NEW t \in Threads, Alone(t),
           RunTask(t)
    PROVE  TaskInv'
<1>x. PICK x : x = job[t]
  OBVIOUS
<1>0. x \in Tasks /\ pc[t] = "run" /\ t \in Hands
  BY <1>x DEF RunTask, Goes, Returns, StepsAreTheirs, Hands
<1>1. /\ UNCHANGED <<data, enqueuePos, dequeuePos>>
      /\ pc'[t] \in {"loop", "enter"}
      /\ \A z \in Tasks : runs'[z] = IF z = x THEN runs[x] + 1 ELSE runs[z]
  BY <1>x DEF RunTask, Goes, Returns, Typed, queueVars
<1>r. /\ \A z \in Tasks : runs[z] \in Nat
      /\ Carried(x) /\ runs[x] = 0 /\ runs'[x] = 1
  BY <1>x, <1>0, <1>1 DEF Typed, TaskInv, Carried
<1>2. Slots' = Slots
  <2>1. \A u \in Workers : /\ pc'[u] = "read" <=> pc[u] = "read"
                           /\ pc[u] = "read" => pos'[u] = pos[u]
    BY <1>0, <1>1 DEF Alone, Threads
  <2> QED
    BY <1>1, <2>1 DEF Slots, Waiting
<1>3. \A p \in Slots : TaskAt(p)' = TaskAt(p)
  BY TaskKept DEF ThreadStep
<1>4. \A u \in Hands : u \in Threads /\ (u # t => job'[u] = job[u] /\ job[u] # x)
  BY <1>x, <1>0 DEF Hands, Alone, TaskInv
<1>5. \A p \in Slots : TaskAt(p) # x
  BY <1>x, <1>0 DEF TaskInv
<1>6. (\A p \in Slots : TaskAt(p) \in Tasks)'
  BY <1>2, <1>3 DEF TaskInv
<1>7. (\A p, q \in Slots : p = q \/ TaskAt(p) # TaskAt(q))'
  BY <1>2, <1>3 DEF TaskInv
<1>8. CASE SpawnedBy(x) = {}
  <2>1. Hands' = Hands \ {t}
    <3>1. pc'[t] = "loop"
      BY <1>x, <1>8 DEF RunTask, Returns, Goes, Typed
    <3> QED
      BY <3>1 DEF Hands, Alone
  <2>2. \A z : Carried(z)' => Carried(z) /\ z # x
    BY <1>2, <1>3, <1>4, <1>5, <2>1 DEF Carried
  <2>3. (\A u, v \in Hands : u = v \/ job[u] # job[v])'
    BY <1>4, <2>1 DEF TaskInv
  <2>4. (\A u \in Hands, p \in Slots : job[u] # TaskAt(p))'
    BY <1>2, <1>3, <1>4, <2>1 DEF TaskInv
  <2>5. (\A z \in Tasks : Carried(z) => runs[z] = 0)'
    BY <1>1, <2>2 DEF TaskInv
  <2>6. (\A z \in Callers : \A y \in Spawns[z] : Carried(y) \/ runs[y] > 0 => runs[z] > 0)'
    <3> SUFFICES ASSUME NEW z \in Callers, NEW y \in Spawns[z], Carried(y)' \/ runs'[y] > 0
                 PROVE  runs'[z] > 0
      BY DEF TaskInv
    <3>0. z \in Tasks /\ y \in Tasks
      BY PoolAssumption DEF Tasks
    <3>1. Carried(y) \/ runs[y] > 0
      BY <1>1, <1>r, <2>2, <3>0
    <3>2. runs[z] > 0
      BY <3>1 DEF TaskInv
    <3> QED
      BY <1>1, <1>r, <3>0, <3>2
  <2> QED
    BY <1>6, <1>7, <2>3, <2>4, <2>5, <2>6 DEF TaskInv
<1>9. ASSUME NEW y \in SpawnedBy(x), Goes(t, "run", "enter"), job' = [job EXCEPT ![t] = y]
      PROVE  TaskInv'
  <2>0. x \in Callers /\ y \in Spawns[x] /\ y \in Tasks /\ y \in Spawned
    BY <1>0, SpawnedType
  <2>1. job'[t] = y /\ y # x
    BY <1>9, <2>0, PoolAssumption DEF Typed
  <2>2. Hands' = Hands
    <3>1. pc'[t] = "enter"
      BY <1>9 DEF Goes, Typed
    <3> QED
      BY <1>0, <3>1 DEF Hands, Alone
  <2>3. ~Carried(y) /\ runs[y] = 0
    BY <1>r, <2>0 DEF TaskInv
  <2>4. \A u \in Hands : job[u] # y
    BY <2>3 DEF Carried
  <2>5. \A p \in Slots : TaskAt(p) # y
    BY <2>3 DEF Carried
  <2>6. \A z : Carried(z)' => z = y \/ (Carried(z) /\ z # x)
    BY <1>2, <1>3, <1>4, <1>5, <2>1, <2>2 DEF Carried
  <2>7. (\A u, v \in Hands : u = v \/ job[u] # job[v])'
    BY <1>4, <2>1, <2>2, <2>4 DEF TaskInv
  <2>8. (\A u \in Hands, p \in Slots : job[u] # TaskAt(p))'
    BY <1>2, <1>3, <1>4, <2>1, <2>2, <2>5 DEF TaskInv
  <2>9. (\A z \in Tasks : Carried(z) => runs[z] = 0)'
    BY <1>1, <2>0, <2>1, <2>3, <2>6 DEF TaskInv
  <2>10. (\A z \in Callers : \A w \in Spawns[z] : Carried(w) \/ runs[w] > 0 => runs[z] > 0)'
    <3> SUFFICES ASSUME NEW z \in Callers, NEW w \in Spawns[z], Carried(w)' \/ runs'[w] > 0
                 PROVE  runs'[z] > 0
      BY DEF TaskInv
    <3>0. z \in Tasks /\ w \in Tasks
      BY PoolAssumption DEF Tasks
    <3>1. CASE w = y
      <4>1. z = x
        BY <2>0, <3>1, PoolAssumption
      <4> QED
        BY <1>r, <4>1
    <3>2. CASE w # y
      <4>1. Carried(w) \/ runs[w] > 0
        BY <1>1, <1>r, <2>6, <3>0, <3>2
      <4>2. runs[z] > 0
        BY <4>1 DEF TaskInv
      <4> QED
        BY <1>1, <1>r, <3>0, <4>2
    <3> QED
      BY <3>1, <3>2
  <2> QED
    BY <1>6, <1>7, <2>7, <2>8, <2>9, <2>10 DEF TaskInv
<1> QED
  BY <1>x, <1>8, <1>9 DEF RunTask

LEMMA TaskStep ==
    ASSUME Typed, StepsAreTheirs, QueueInv, QueueInv', TaskInv, NEW t \in Threads,
           ThreadStep(t)
    PROVE  TaskInv'
<1>1. Alone(t)
  BY StepsAlone
<1> QED
  BY <1>1, QuietTasks, GrabKeepsTasks, WriteKeepsTasks, ClaimKeepsTasks, ReadKeepsTasks,
     RunKeepsTasks DEF ThreadStep, Claims

LEMMA ReadsTask ==
    ASSUME Typed, StepsAreTheirs, QueueInv, TaskInv, NEW t \in Threads, pc[t] = "read"
    PROVE  data[Cell(t)] \in Tasks
<1>1. Reading(t) /\ t \in Workers
  BY DEF Reading, StepsAreTheirs, DequeueSteps
<1>2. pos[t] \in Slots
  BY <1>1 DEF Slots
<1> QED
  BY <1>1, <1>2, ReaderFinds DEF TaskInv

-----------------------------------------------------------------------------
(* The end of the pool.                                                    *)

LEMMA DoneStays ==
    ASSUME NEW t \in Threads, ThreadStep(t)
    PROVE  pc[t] # "done"
BY DEF ThreadStep, LoadEnqueuePos, Probe, WriteCell, Publish, LoadDequeuePos, Look, LookThen,
   ReadCell, FreeCell, FreeCellAs, ClaimCellFails, GrabCellFails, Claims, ClaimCell,
   GrabCell, Loop, RunTask, Goes, Returns

\* A worker ends only out of an empty queue, having seen that the pool stops.
LEMMA EndsByLooking ==
    ASSUME Typed, NEW t \in Workers, ThreadStep(t), pc'[t] = "done"
    PROVE  /\ t \in draining /\ pc[t] = "look" /\ sequence[Cell(t)] < pos[t] + 1
           /\ UNCHANGED <<enqueuePos, dequeuePos, draining>>
<1>0. pc \in [Threads -> Steps] /\ t \in Threads /\ Home(t) = "loop"
  BY DEF Typed, Steps, Threads, Home
<1>1. CASE LoadEnqueuePos(t) \/ LoadDequeuePos(t) \/ ClaimCellFails(t) \/ GrabCellFails(t)
           \/ WriteCell(t) \/ Claims(t) \/ ReadCell(t)
  BY <1>0, <1>1 DEF LoadEnqueuePos, LoadDequeuePos, ClaimCellFails, GrabCellFails, WriteCell,
     Claims, ClaimCell, GrabCell, ReadCell, Goes
<1>2. CASE Probe(t) \/ Publish(t)
  BY <1>0, <1>2 DEF Probe, Publish, Returns, Goes
<1>3. CASE FreeCell(t) \/ Loop(t)
  BY <1>0, <1>3 DEF FreeCell, FreeCellAs, Loop, Goes
<1>4. CASE RunTask(t)
  BY <1>0, <1>4 DEF RunTask, Returns, Goes
<1>5. CASE Look(t)
  <2>1. /\ sequence[Cell(t)] < pos[t] + 1
        /\ Returns(t, "look", IF t \in draining THEN "done" ELSE "loop")
    BY <1>0, <1>5 DEF Look, LookThen, Goes
  <2> QED
    BY <1>0, <1>5, <2>1 DEF Look, LookThen, Goes, Returns, queueVars, poolVars
<1> QED
  BY <1>1, <1>2, <1>3, <1>4, <1>5 DEF ThreadStep

\* With nobody about to write, a cell that is not full at the head means no task.
LEMMA EmptyWhenNotFull ==
    ASSUME Typed, QueueInv, NEW t \in Threads, pc[t] = "look",
           sequence[Cell(t)] < pos[t] + 1, \A u \in Threads : ~Writing(u)
    PROVE  enqueuePos = dequeuePos
<1>n. PICK n : n = pos[t]
  OBVIOUS
<1>c. PICK c : c = CellAt(n)
  OBVIOUS
<1>0. /\ n \in Nat /\ dequeuePos \in Nat /\ enqueuePos \in Nat /\ Cap \in Nat /\ Cap >= 2
      /\ dequeuePos <= enqueuePos /\ n <= dequeuePos /\ c = Cell(t)
      /\ sequence[c] \in Nat /\ sequence[c] < n + 1
  BY <1>n, <1>c, Numbers DEF QueueInv, PositionHolds, Cell
<1>1. PICK p \in Nat : /\ p < dequeuePos + Cap /\ Serves(c, p)
                       /\ (p = n \/ n + Cap <= p \/ p + Cap <= n)
  BY <1>0, <1>c, ServedAt
<1>2. /\ enqueuePos <= p + Cap
      /\ \/ sequence[c] = p /\ enqueuePos <= p
         \/ sequence[c] = p + 1 /\ dequeuePos <= p
         \/ sequence[c] = p + 1 /\ p < dequeuePos
  BY <1>0, <1>1 DEF Serves, Waiting
<1> QED
  BY <1>0, <1>1, <1>2

LEMMA EndStep ==
    ASSUME Typed, StepsAreTheirs, QueueInv, EndInv, NEW t \in Threads, ThreadStep(t)
    PROVE  EndInv'
<1>1. Alone(t) /\ pc[t] # "done"
  BY StepsAlone, DoneStays
<1>2. UNCHANGED <<running, gone>>
  BY DEF ThreadStep, LoadEnqueuePos, Probe, WriteCell, Publish, LoadDequeuePos, Look,
     LookThen, ReadCell, FreeCell, FreeCellAs, ClaimCellFails, GrabCellFails, Claims,
     ClaimCell, GrabCell, Loop, RunTask, poolVars
<1>3. draining \subseteq draining' /\ (draining' # draining => ~running)
  BY DEF ThreadStep, LoadEnqueuePos, Probe, WriteCell, Publish, LoadDequeuePos, Look,
     LookThen, ReadCell, FreeCell, FreeCellAs, ClaimCellFails, GrabCellFails, Claims,
     ClaimCell, GrabCell, Loop, RunTask, poolVars
<1>4. (running \/ \A u \in Callers : pc[u] = "done")'
  BY <1>1, <1>2 DEF EndInv, Alone, Threads
<1>5. (draining # {} => ~running)'
  BY <1>2, <1>3 DEF EndInv
<1>6. (\A u \in Workers : pc[u] = "done" => u \in draining)'
  <2> SUFFICES ASSUME NEW u \in Workers, pc'[u] = "done"
               PROVE  u \in draining'
    OBVIOUS
  <2>1. CASE u = t
    BY <1>3, <2>1, EndsByLooking
  <2>2. CASE u # t
    BY <1>1, <1>3, <2>2 DEF Alone, EndInv, Threads
  <2> QED
    BY <2>1, <2>2
<1>7. (gone => \A u \in Workers : pc[u] = "done")'
  BY <1>1, <1>2 DEF EndInv, Alone, Threads
<1>8. ((\A u \in Workers : pc[u] = "done") => enqueuePos = dequeuePos)'
  <2> SUFFICES ASSUME \A u \in Workers : pc'[u] = "done"
               PROVE  enqueuePos' = dequeuePos'
    OBVIOUS
  <2>1. t \in Workers
    <3> SUFFICES ASSUME t \notin Workers
                 PROVE  FALSE
      OBVIOUS
    <3>1. PICK u \in Workers : TRUE
      BY PoolAssumption
    <3>2. pc[u] = "done"
      BY <1>1, <3>1 DEF Alone, Threads
    <3>3. t \in Callers /\ ~running
      BY <3>2 DEF EndInv, Threads
    <3> QED
      BY <1>1, <3>3 DEF EndInv
  <2>2. /\ t \in draining /\ pc[t] = "look" /\ sequence[Cell(t)] < pos[t] + 1
        /\ UNCHANGED <<enqueuePos, dequeuePos>>
    BY <2>1, EndsByLooking
  <2>3. \A u \in Callers : pc[u] = "done"
    BY <2>2 DEF EndInv
  <2>4. \A u \in Workers : u # t => pc[u] = "done"
    BY <1>1 DEF Alone, Threads
  <2>5. \A u \in Threads : ~Writing(u)
    BY <2>2, <2>3, <2>4 DEF Writing, Threads
  <2> QED
    BY <2>2, <2>5, EmptyWhenNotFull
<1> QED
  BY <1>4, <1>5, <1>6, <1>7, <1>8 DEF EndInv

\* What the destructor does moves no thread and no task.
LEMMA StillStep ==
    ASSUME StepsAreTheirs, QueueInv, TaskInv, UNCHANGED <<pc, job, pos, queueVars, runs>>
    PROVE  StepsAreTheirs' /\ QueueInv' /\ TaskInv'
<1>0. UNCHANGED <<sequence, data, enqueuePos, dequeuePos>>
  BY DEF queueVars
<1>1. StepsAreTheirs'
  BY DEF StepsAreTheirs
<1>2. Waiting' = Waiting
  BY <1>0 DEF Waiting
<1>3. QueueInv'
  <2>1. CellsServe'
    <3>1. \A i \in 0..Cap-1, p \in 0..(dequeuePos + Cap - 1) : Serves(i, p) => Serves(i, p)'
      BY <1>0, <1>2 DEF Serves, Writing, Reading
    <3> QED
      BY <1>0, <3>1 DEF QueueInv, CellsServe
  <2>2. \A t \in Threads : PositionHolds(t)'
    BY <1>0, <1>2 DEF QueueInv, PositionHolds, Writing, Reading, Cell
  <2>3. ClaimsDiffer'
    BY DEF QueueInv, ClaimsDiffer, Writing, Reading
  <2> QED
    BY <1>0, <2>1, <2>2, <2>3 DEF QueueInv
<1>4. TaskInv'
  <2>1. \A p : TaskAt(p)' = TaskAt(p)
    <3> SUFFICES ASSUME NEW p
                 PROVE  TaskAt(p)' = TaskAt(p)
      OBVIOUS
    <3> QED
      BY <1>0, <1>3, TaskStays DEF Writer, QueueInv
  <2>2. Slots' \subseteq Slots
    BY <1>2 DEF Slots
  <2>3. Hands' \subseteq Hands
    BY DEF Hands
  <2> QED
    BY <2>1, <2>2, <2>3, FewerCarry
<1> QED
  BY <1>1, <1>3, <1>4

-----------------------------------------------------------------------------
(* The invariant.                                                          *)

LEMMA InitInv == Init => IInv
<1> SUFFICES ASSUME Init
             PROVE  IInv
  OBVIOUS
<1>0. Cap \in Nat /\ Cap >= 2
  BY Sizes
<1>1. Typed
  <2>1. "loop" \in EnqueueSteps \cup DequeueSteps \cup {"loop", "run", "done"}
        /\ "enter" \in EnqueueSteps \cup DequeueSteps \cup {"loop", "run", "done"}
    BY DEF EnqueueSteps
  <2>2. pc \in [Threads -> EnqueueSteps \cup DequeueSteps \cup {"loop", "run", "done"}]
    BY <2>1 DEF Init
  <2>3. job \in [Threads -> Tasks \cup {None}]
    BY DEF Init, Threads, Tasks
  <2>4. sequence \in [0..Cap-1 -> Nat] /\ data \in [0..Cap-1 -> Tasks \cup {None}]
    BY <1>0 DEF Init
  <2>5. pos \in [Threads -> Nat] /\ runs \in [Tasks -> Nat]
    BY DEF Init
  <2> QED
    BY <2>2, <2>3, <2>4, <2>5 DEF Init, Typed
<1>2. \A t \in Threads : /\ pc[t] \in {"loop", "enter"} /\ (pc[t] = "loop" <=> t \in Workers)
                         /\ t \notin Workers => job[t] = t /\ t \in Tasks /\ t \in Callers
  BY DEF Init, Threads, Tasks
<1>3. StepsAreTheirs
  BY <1>2 DEF StepsAreTheirs, EnqueueSteps, DequeueSteps
<1>4. Waiting = {}
  BY DEF Init, Waiting
<1>5. QueueInv
  <2>1. CellsServe
    <3> SUFFICES ASSUME NEW i \in 0..Cap-1
                 PROVE  i \in 0..(dequeuePos + Cap - 1) /\ Serves(i, i)
      BY DEF CellsServe
    <3>1. CellAt(i) = i
      BY <1>0 DEF CellAt
    <3>2. enqueuePos = 0 /\ dequeuePos = 0 /\ sequence[i] = i
      BY DEF Init
    <3>3. enqueuePos <= i + Cap /\ enqueuePos <= i
      BY <1>0, <3>2
    <3>4. i \in 0..(dequeuePos + Cap - 1)
      BY <1>0, <3>2
    <3> QED
      BY <3>1, <3>2, <3>3, <3>4 DEF Serves
  <2>2. \A t \in Threads : PositionHolds(t)
    BY <1>2 DEF PositionHolds, Writing, Reading
  <2>3. ClaimsDiffer
    BY <1>2 DEF ClaimsDiffer, Writing, Reading
  <2>4. dequeuePos <= enqueuePos
    BY DEF Init
  <2> QED
    BY <2>1, <2>2, <2>3, <2>4 DEF QueueInv
<1>6. TaskInv
  <2>1. Slots = {}
    BY <1>2, <1>4 DEF Slots, Threads
  <2>2. \A t \in Hands : t \in Callers /\ job[t] = t
    BY <1>2 DEF Hands
  <2>3. \A x \in Tasks : runs[x] = 0
    BY DEF Init
  <2>4. \A x : Carried(x) => x \in Callers
    BY <2>1, <2>2 DEF Carried
  <2>5. \A x \in Callers : \A y \in Spawns[x] : ~Carried(y) /\ y \in Tasks
    BY <2>4, PoolAssumption DEF Tasks
  <2> QED
    BY <2>1, <2>2, <2>3, <2>5 DEF TaskInv
<1>7. EndInv
  BY <1>2, PoolAssumption DEF Init, EndInv, Threads
<1> QED
  BY <1>1, <1>3, <1>5, <1>6, <1>7 DEF IInv

LEMMA InvStep == IInv /\ [Next]_vars => IInv'
<1> SUFFICES ASSUME IInv, [Next]_vars
             PROVE  IInv'
  OBVIOUS
<1>0. Typed /\ StepsAreTheirs /\ QueueInv /\ TaskInv /\ EndInv
  BY DEF IInv
<1>1. ASSUME NEW t \in Threads, ThreadStep(t)
      PROVE  IInv'
  <2>1. Typed'
    BY <1>0, <1>1, TypeStep
  <2>2. StepsAreTheirs'
    BY <1>0, <1>1, ReadsTask, OwnersStep
  <2>3. QueueInv'
    BY <1>0, <1>1, QueueStep
  <2>4. TaskInv'
    BY <1>0, <1>1, <2>3, TaskStep
  <2>5. EndInv'
    BY <1>0, <1>1, EndStep
  <2> QED
    BY <2>1, <2>2, <2>3, <2>4, <2>5 DEF IInv
<1>2. ASSUME UNCHANGED <<pc, job, pos, queueVars, runs>>, Typed', EndInv'
      PROVE  IInv'
  BY <1>0, <1>2, StillStep DEF IInv
<1>3. CASE Stop
  <2>1. UNCHANGED <<pc, job, pos, queueVars, runs>>
    BY <1>3 DEF Stop
  <2>2. Typed'
    BY <1>0, <1>3 DEF Stop, Typed, queueVars
  <2>3. EndInv'
    BY <1>0, <1>3 DEF Stop, EndInv, queueVars
  <2> QED
    BY <1>2, <2>1, <2>2, <2>3
<1>4. CASE Joined
  <2>1. UNCHANGED <<pc, job, pos, queueVars, runs>>
    BY <1>4 DEF Joined
  <2>2. Typed'
    BY <1>0, <1>4 DEF Joined, Typed, queueVars
  <2>3. EndInv'
    BY <1>0, <1>4 DEF Joined, EndInv, queueVars
  <2> QED
    BY <1>2, <2>1, <2>2, <2>3
<1>5. CASE UNCHANGED vars
  <2>1. UNCHANGED <<pc, job, pos, queueVars, runs>>
    BY <1>5 DEF vars, poolVars
  <2>2. Typed'
    BY <1>0, <1>5 DEF vars, queueVars, poolVars, Typed
  <2>3. EndInv'
    BY <1>0, <1>5 DEF vars, queueVars, poolVars, EndInv
  <2> QED
    BY <1>2, <2>1, <2>2, <2>3
<1> QED
  BY <1>1, <1>3, <1>4, <1>5 DEF Next

LEMMA Invariance == Spec => []IInv
BY InitInv, InvStep, PTL DEF Spec

\* The state of thread_pool.h is well typed, only workers dequeue, a worker that has
\* moved a task out of a cell (thread_pool.h:89) never holds an empty one, and
\* dequeue_pos_ never passes enqueue_pos_.
THEOREM TypeCorrect == Spec => []TypeOK
<1>1. IInv => TypeOK
  BY DEF IInv, QueueInv, TypeOK
<1> QED
  BY <1>1, Invariance, PTL

-----------------------------------------------------------------------------
(* What a refusal means.                                                   *)

LEMMA FullAhead ==
    ASSUME Typed, QueueInv, NEW t \in Threads, pc[t] = "probe", sequence[Cell(t)] < pos[t]
    PROVE  Occupied(pos[t] - Cap)
<1>n. PICK n : n = pos[t]
  OBVIOUS
<1>c. PICK c : c = CellAt(n)
  OBVIOUS
<1>0. /\ n \in Nat /\ dequeuePos \in Nat /\ enqueuePos \in Nat /\ Cap \in Nat /\ Cap >= 2
      /\ n <= enqueuePos /\ c = Cell(t) /\ sequence[c] \in Nat /\ sequence[c] < n
  BY <1>n, <1>c, Numbers DEF QueueInv, PositionHolds, Cell
<1>1. PICK p \in Nat : /\ p < dequeuePos + Cap /\ Serves(c, p)
                       /\ (p = n \/ n + Cap <= p \/ p + Cap <= n)
  BY <1>0, <1>c, ServedAt
<1>2. /\ enqueuePos <= p + Cap
      /\ \/ sequence[c] = p /\ enqueuePos <= p
         \/ (sequence[c] = p \/ sequence[c] = p + 1) /\ p \in Waiting
         \/ sequence[c] = p + 1 /\ \E u \in Workers : Reading(u) /\ pos[u] = p
  BY <1>1 DEF Serves
<1>3. p = n - Cap /\ ~(enqueuePos <= p)
  BY <1>0, <1>1, <1>2
<1>4. p \in Waiting \/ \E u \in Workers : Reading(u) /\ pos[u] = p
  BY <1>2, <1>3
<1> QED
  BY <1>n, <1>3, <1>4 DEF Occupied, Waiting, Reading

\* MPMCQueue::enqueue returns false only when the queue is full at its position:
\* the task one lap before it is still in the queue, or a worker that took it
\* has not left its cell.
THEOREM RefusedWhenLapped == Spec => RefusedOnlyWhenLapped
<1>1. ASSUME IInv, [Next]_vars
      PROVE  [\A t \in Threads :
                 (pc[t] = "probe" /\ pc'[t] = Home(t)) => Occupied(pos[t] - Cap)]_vars
  <2>0. Typed /\ QueueInv
    BY <1>1 DEF IInv
  <2> SUFFICES ASSUME NEW t \in Threads, pc[t] = "probe", pc'[t] = Home(t)
               PROVE  Occupied(pos[t] - Cap)
    OBVIOUS
  <2>1. Home(t) \in {"loop", "done"} /\ pc \in [Threads -> Steps]
    BY <2>0, HomeType DEF Typed, Steps
  <2>2. PICK u \in Threads : ThreadStep(u)
    BY <1>1, <2>1 DEF Next, Stop, Joined, vars
  <2>3. u = t
    BY <2>0, <2>1, <2>2, StepsAlone DEF Alone
  <2>4. Probe(t) \/ ClaimCell(t)
    BY <2>2, <2>3 DEF ThreadStep, LoadEnqueuePos, WriteCell, Publish, LoadDequeuePos, Look,
       LookThen, ReadCell, FreeCell, FreeCellAs, ClaimCellFails, GrabCellFails, Claims,
       GrabCell, Loop, RunTask, Goes, Returns
  <2>5. sequence[Cell(t)] < pos[t]
    BY <2>1, <2>4 DEF Probe, ClaimCell, Goes, Keeps
  <2> QED
    BY <2>0, <2>5, FullAhead
<1> QED
  BY <1>1, Invariance, PTL DEF Spec, RefusedOnlyWhenLapped

-----------------------------------------------------------------------------
(* The promise.                                                            *)

\* The task at every position, for what is said of all of them at once.
TaskMap == [p \in Nat |-> TaskAt(p)]

LEMMA FifoTasks ==
    ASSUME Typed
    PROVE  /\ DOMAIN Fifo = 1..(enqueuePos - dequeuePos)
           /\ \A i \in 1..(enqueuePos - dequeuePos) : Fifo[i] = TaskMap[dequeuePos + i - 1]
           /\ Fifo = [i \in 1..(enqueuePos - dequeuePos) |-> Fifo[i]]
<1>1. enqueuePos \in Nat /\ dequeuePos \in Nat
  BY DEF Typed
<1>2. ASSUME NEW i \in 1..(enqueuePos - dequeuePos)
      PROVE  Fifo[i] = TaskMap[dequeuePos + i - 1]
  <2>1. dequeuePos + i - 1 \in Nat
    BY <1>1
  <2> QED
    BY <2>1 DEF Fifo, TaskMap
<1> QED
  BY <1>2 DEF Fifo

\* A list of known length whose members are tasks.
LEMMA TaskList ==
    ASSUME NEW n \in Nat, NEW f, f = [i \in 1..n |-> f[i]], \A i \in 1..n : f[i] \in Tasks
    PROVE  f \in Seq(Tasks) /\ Len(f) = n
<1>1. f \in [1..n -> Tasks]
  BY Zenon
<1>2. f \in Seq(Tasks)
  BY <1>1, SeqDef
<1>3. DOMAIN f = 1..Len(f) /\ Len(f) \in Nat
  BY <1>2, LenProperties
<1>4. 1..Len(f) = 1..n
  BY <1>1, <1>3
<1> QED
  BY <1>2, <1>3, <1>4

FifoOK ==
    /\ Fifo \in Seq(Tasks) /\ Len(Fifo) = enqueuePos - dequeuePos
    /\ \A i \in 1..(enqueuePos - dequeuePos) : Fifo[i] = TaskMap[dequeuePos + i - 1]

LEMMA FifoFacts == IInv => FifoOK
<1> SUFFICES ASSUME IInv
             PROVE  FifoOK
  OBVIOUS
<1>1. Typed /\ QueueInv /\ TaskInv
  BY DEF IInv
<1>d. PICK d \in Nat, e \in Nat : d = dequeuePos /\ e = enqueuePos
  BY <1>1 DEF Typed
<1>2. e - d \in Nat
  BY <1>1, <1>d DEF QueueInv
<1>3. /\ \A i \in 1..(e - d) : Fifo[i] = TaskMap[d + i - 1]
      /\ Fifo = [i \in 1..(e - d) |-> Fifo[i]]
  BY <1>1, <1>d, FifoTasks
<1>4. \A i \in 1..(e - d) : Fifo[i] \in Tasks
  <2> SUFFICES ASSUME NEW i \in 1..(e - d)
               PROVE  Fifo[i] \in Tasks
    OBVIOUS
  <2>1. PICK p : p = d + i - 1
    OBVIOUS
  <2>2. p \in Nat /\ p \in d..(e - 1)
    BY <1>d, <2>1
  <2>3. TaskMap[p] = TaskAt(p)
    BY <2>2 DEF TaskMap
  <2>4. p \in Slots
    BY <1>d, <2>2 DEF Slots, Waiting
  <2> QED
    BY <1>1, <1>3, <2>1, <2>3, <2>4 DEF TaskInv
<1>5. Fifo \in Seq(Tasks) /\ Len(Fifo) = e - d
  BY <1>2, <1>3, <1>4, TaskList
<1> QED
  BY <1>d, <1>3, <1>5 DEF FifoOK

LEMMA FifoFactsNext == IInv' => FifoOK'
BY FifoFacts, PTL

\* Who holds a task that a worker has taken.
Holds(u, x) ==
    \/ pc[u] = "read" /\ TaskMap[pos[u]] = x
    \/ pc[u] \in {"free", "run"} /\ job[u] = x

TakenOK == \A x : x \in Taken <=> \E u \in Workers : Holds(u, x)

LEMMA TakenFacts == IInv => TakenOK
<1> SUFFICES ASSUME IInv
             PROVE  TakenOK
  OBVIOUS
<1>1. \A u \in Workers : TaskMap[pos[u]] = TaskAt(pos[u])
  <2>1. \A u \in Workers : pos[u] \in Nat
    BY DEF IInv, Typed, Threads
  <2> QED
    BY <2>1 DEF TaskMap
<1> QED
  BY <1>1 DEF TakenOK, Taken, Holds

LEMMA TakenFactsNext == IInv' => TakenOK'
BY TakenFacts, PTL

LEMMA MapKept ==
    ASSUME IInv, IInv', NEW t \in Threads, ThreadStep(t), NEW p \in Slots
    PROVE  p \in Nat /\ TaskMap'[p] = TaskMap[p] /\ TaskMap[p] = TaskAt(p)
<1>1. Typed /\ QueueInv /\ QueueInv'
  BY DEF IInv
<1>2. p \in Nat /\ TaskAt(p)' = TaskAt(p)
  BY <1>1, SlotBounds, TaskKept
<1> QED
  BY <1>2 DEF TaskMap

LEMMA OthersHold ==
    ASSUME IInv, IInv', NEW t \in Threads, ThreadStep(t), NEW u \in Workers, u # t, NEW x
    PROVE  Holds(u, x)' <=> Holds(u, x)
<1>1. pc'[u] = pc[u] /\ job'[u] = job[u] /\ pos'[u] = pos[u]
  BY StepsAlone DEF IInv, Alone, Threads
<1>2. pc[u] = "read" => TaskMap'[pos[u]] = TaskMap[pos[u]]
  BY MapKept DEF Slots
<1> QED
  BY <1>1, <1>2 DEF Holds

\* The state of the promise after a step of the pool.
Still == UNCHANGED <<Fifo, Taken, Ran, gone>>

LEMMA FifoKept ==
    ASSUME IInv, IInv', NEW t \in Threads, ThreadStep(t), UNCHANGED <<enqueuePos, dequeuePos>>
    PROVE  Fifo' = Fifo
<1>d. PICK d \in Nat, e \in Nat : d = dequeuePos /\ e = enqueuePos
  BY DEF IInv, Typed
<1>1. /\ Fifo \in Seq(Tasks) /\ Len(Fifo) = e - d
      /\ \A i \in 1..(e - d) : Fifo[i] = TaskMap[d + i - 1]
  BY <1>d, FifoFacts DEF FifoOK
<1>2. /\ Fifo' \in Seq(Tasks) /\ Len(Fifo') = e - d
      /\ \A i \in 1..(e - d) : Fifo'[i] = TaskMap'[d + i - 1]
  BY <1>d, FifoFactsNext DEF FifoOK
<1>3. \A i \in 1..(e - d) : d + i - 1 \in Slots
  BY <1>d DEF Slots, Waiting
<1>4. \A i \in 1..(e - d) : Fifo'[i] = Fifo[i]
  BY <1>1, <1>2, <1>3, MapKept
<1> QED
  BY <1>1, <1>2, <1>4, SeqEqual

LEMMA TakenKept ==
    ASSUME IInv, IInv', NEW t \in Threads, ThreadStep(t),
           t \in Workers => \A x : Holds(t, x)' <=> Holds(t, x)
    PROVE  Taken' = Taken
<1>1. \A x : x \in Taken' <=> x \in Taken
  <2> SUFFICES ASSUME NEW x
               PROVE  x \in Taken' <=> x \in Taken
    OBVIOUS
  <2>1. x \in Taken <=> \E u \in Workers : Holds(u, x)
    BY TakenFacts DEF TakenOK
  <2>2. x \in Taken' <=> \E u \in Workers : Holds(u, x)'
    BY TakenFactsNext DEF TakenOK
  <2>3. \A u \in Workers : Holds(u, x)' <=> Holds(u, x)
    BY OthersHold
  <2> QED
    BY <2>1, <2>2, <2>3
<1> QED
  BY <1>1

\* The steps that the promise does not see.
Unseen(t) ==
    \/ LoadEnqueuePos(t) \/ Probe(t) \/ ClaimCellFails(t) \/ WriteCell(t) \/ Publish(t)
    \/ LoadDequeuePos(t) \/ Look(t) \/ GrabCellFails(t) \/ ReadCell(t) \/ FreeCell(t)
    \/ Loop(t)

LEMMA UnseenStep ==
    ASSUME IInv, IInv', NEW t \in Threads, Unseen(t)
    PROVE  Still
<1>0. /\ ThreadStep(t) /\ Typed /\ QueueInv /\ pc \in [Threads -> Steps]
      /\ job \in [Threads -> Tasks \cup {None}] /\ Home(t) \in {"loop", "done"}
  BY HomeType DEF Unseen, ThreadStep, IInv, Typed, Steps
<1>1. UNCHANGED <<enqueuePos, dequeuePos, runs, gone>>
  BY DEF Unseen, LoadEnqueuePos, Probe, ClaimCellFails, WriteCell, Publish, LoadDequeuePos,
     Look, LookThen, GrabCellFails, ReadCell, FreeCell, FreeCellAs, Loop, queueVars, poolVars
<1>2. Fifo' = Fifo
  BY <1>0, <1>1, FifoKept
<1>3. ASSUME t \in Workers, NEW x
      PROVE  Holds(t, x)' <=> Holds(t, x)
  <2>1. CASE ReadCell(t)
    <3>1. /\ pc[t] = "read" /\ pc'[t] = "free" /\ job'[t] = data[Cell(t)] /\ pos[t] \in Slots
      BY <1>0, <1>3, <2>1 DEF ReadCell, Goes, Slots
    <3>2. TaskMap[pos[t]] = TaskAt(pos[t]) /\ TaskAt(pos[t]) = data[Cell(t)]
      BY <1>0, <3>1, MapKept, ReaderFinds DEF Reading
    <3> QED
      BY <3>1, <3>2 DEF Holds
  <2>2. CASE FreeCell(t)
    BY <1>0, <2>2 DEF FreeCell, FreeCellAs, Goes, Holds
  <2>3. CASE ~ReadCell(t) /\ ~FreeCell(t)
    <3>1. pc[t] \notin {"read", "free", "run"} /\ pc'[t] \notin {"read", "free", "run"}
      <4>1. CASE LoadEnqueuePos(t) \/ LoadDequeuePos(t) \/ ClaimCellFails(t)
                 \/ GrabCellFails(t) \/ WriteCell(t) \/ Loop(t)
        BY <1>0, <4>1 DEF LoadEnqueuePos, LoadDequeuePos, ClaimCellFails, GrabCellFails,
           WriteCell, Loop, Goes
      <4>2. CASE Probe(t) \/ Publish(t)
        BY <1>0, <4>2 DEF Probe, Publish, Returns, Goes
      <4>3. CASE Look(t)
        BY <1>0, <4>3 DEF Look, LookThen, Returns, Goes
      <4> QED
        BY <2>3, <4>1, <4>2, <4>3 DEF Unseen
    <3> QED
      BY <3>1 DEF Holds
  <2> QED
    BY <2>1, <2>2, <2>3
<1>4. Taken' = Taken
  BY <1>0, <1>3, TakenKept
<1> QED
  BY <1>1, <1>2, <1>4 DEF Still, Ran

\* Who takes a step is not done, so the pool is not gone.
LEMMA NotGone ==
    ASSUME IInv, NEW t \in Threads, ThreadStep(t)
    PROVE  gone = FALSE
<1>1. pc[t] # "done"
  BY DoneStays
<1>2. PICK w \in Workers : TRUE
  BY PoolAssumption
<1>3. gone => pc[w] = "done" /\ pc[t] = "done"
  BY <1>1, <1>2 DEF IInv, EndInv, Threads
<1> QED
  BY <1>1, <1>3 DEF IInv, Typed

\* A claim of a position accepts a task.
LEMMA ClaimAccepts ==
    ASSUME IInv, IInv', NEW t \in Threads, ClaimCell(t)
    PROVE  Promise!Accept(job[t]) /\ job[t] \in Tasks
<1>0. ThreadStep(t) /\ Typed /\ StepsAreTheirs /\ QueueInv /\ QueueInv' /\ TaskInv
  BY DEF ThreadStep, Claims, IInv
<1>x. PICK x : x = job[t]
  OBVIOUS
<1>d. PICK d \in Nat, e \in Nat : d = dequeuePos /\ e = enqueuePos /\ d <= e
  BY <1>0 DEF Typed, QueueInv
<1>1. /\ pc[t] = "claim" /\ pc'[t] = "write" /\ pos'[t] = e /\ pos' = pos /\ job' = job
      /\ dequeuePos' = d /\ enqueuePos' = e + 1 /\ runs' = runs /\ gone' = gone
      /\ x \in Tasks /\ t \in Hands
  BY <1>0, <1>d, <1>x DEF ClaimCell, Goes, Typed, StepsAreTheirs, EnqueueSteps, poolVars,
     Hands
<1>2. /\ Fifo \in Seq(Tasks) /\ Len(Fifo) = e - d /\ DOMAIN Fifo = 1..(e - d)
      /\ \A i \in 1..(e - d) : Fifo[i] = TaskMap[d + i - 1]
  BY <1>0, <1>d, FifoFacts, FifoTasks DEF FifoOK
<1>3. /\ Fifo' \in Seq(Tasks) /\ Len(Fifo') = e + 1 - d
      /\ \A i \in 1..(e + 1 - d) : Fifo'[i] = TaskMap'[d + i - 1]
  BY <1>d, <1>1, FifoFactsNext DEF FifoOK
<1>4. \A i \in 1..(e - d) : d + i - 1 \in Slots
  BY <1>d DEF Slots, Waiting
<1>5. TaskMap'[e] = x
  <2>1. Writer(t, e)'
    BY <1>1 DEF Writer
  <2>2. \A u \in Threads : pc'[u] = "write" /\ pos'[u] = e <=> u = t
    BY <1>0, <2>1 DEF QueueInv, ClaimsDiffer, Writing, Writer
  <2> DEFINE W == {u \in Threads : pc'[u] = "write" /\ pos'[u] = e}
  <2>3. W = {t} /\ (CHOOSE u \in W : TRUE) = t
    BY <2>2
  <2>4. TaskAt(e)' = job'[t]
    BY <2>3 DEF TaskAt
  <2> QED
    BY <1>d, <1>1, <1>x, <2>4 DEF TaskMap
<1>6. Fifo' = Append(Fifo, x)
  <2>1. /\ Append(Fifo, x) \in Seq(Tasks) /\ Len(Append(Fifo, x)) = e - d + 1
        /\ \A i \in 1..(e - d) : Append(Fifo, x)[i] = Fifo[i]
        /\ Append(Fifo, x)[e - d + 1] = x
    BY <1>1, <1>2, AppendProperties
  <2>2. ASSUME NEW i \in 1..(e + 1 - d)
        PROVE  Fifo'[i] = Append(Fifo, x)[i]
    <3>1. CASE i \in 1..(e - d)
      BY <1>0, <1>2, <1>3, <1>4, <2>1, <3>1, MapKept
    <3>2. CASE i \notin 1..(e - d)
      <4>1. i = e - d + 1 /\ d + i - 1 = e
        BY <1>d, <3>2
      <4> QED
        BY <1>3, <1>5, <2>1, <4>1
    <3> QED
      BY <3>1, <3>2
  <2>3. e - d + 1 = e + 1 - d
    BY <1>d
  <2> QED
    BY <1>3, <2>1, <2>2, <2>3, SeqEqual
<1>7. Taken' = Taken
  BY <1>0, <1>1, TakenKept DEF Holds
<1>8. x \notin Taken
  <2>1. \A u \in Workers : ~Holds(u, x)
    <3> SUFFICES ASSUME NEW u \in Workers, Holds(u, x)
                 PROVE  FALSE
      OBVIOUS
    <3>1. CASE pc[u] = "read" /\ TaskMap[pos[u]] = x
      <4>1. pos[u] \in Slots
        BY <3>1 DEF Slots
      <4> QED
        BY <1>0, <1>1, <1>x, <3>1, <4>1, MapKept DEF TaskInv
    <3>2. CASE pc[u] \in {"free", "run"} /\ job[u] = x
      <4>1. u \in Hands /\ u # t
        BY <1>1, <3>2 DEF Hands, Threads
      <4> QED
        BY <1>0, <1>1, <1>x, <3>2, <4>1 DEF TaskInv
    <3> QED
      BY <3>1, <3>2 DEF Holds
  <2> QED
    BY <2>1, TakenFacts DEF TakenOK
<1>9. x \notin Ran
  <2>1. Carried(x)
    BY <1>1, <1>x DEF Carried
  <2>2. runs[x] = 0
    BY <1>0, <1>1, <2>1 DEF TaskInv
  <2> QED
    BY <2>2 DEF Ran
<1>10. \A i \in DOMAIN Fifo : Fifo[i] # x
  <2> SUFFICES ASSUME NEW i \in 1..(e - d)
               PROVE  Fifo[i] # x
    BY <1>2
  <2>1. PICK p \in Slots : p = d + i - 1
    BY <1>4
  <2>2. Fifo[i] = TaskAt(p)
    BY <1>0, <1>2, <2>1, MapKept
  <2> QED
    BY <1>0, <1>1, <1>x, <2>2 DEF TaskInv
<1>11. UNCHANGED <<Taken, Ran, gone>> /\ ~gone
  BY <1>0, <1>1, <1>7, NotGone DEF Ran
<1> QED
  BY <1>1, <1>6, <1>8, <1>9, <1>10, <1>11, <1>x DEF Promise!Accept, Promise!Fresh

\* A claim of a position to read starts the oldest task.
LEMMA GrabTakes ==
    ASSUME IInv, IInv', NEW t \in Threads, GrabCell(t)
    PROVE  Promise!Take
<1>0. ThreadStep(t) /\ Typed /\ StepsAreTheirs /\ QueueInv /\ QueueInv' /\ TaskInv
  BY DEF ThreadStep, Claims, IInv
<1>d. PICK d \in Nat, e \in Nat : d = dequeuePos /\ e = enqueuePos
  BY <1>0 DEF Typed
<1>1. /\ pc[t] = "grab" /\ pc'[t] = "read" /\ pos[t] = d /\ pos' = pos /\ job' = job
      /\ dequeuePos' = d + 1 /\ enqueuePos' = e /\ runs' = runs /\ gone' = gone
      /\ t \in Workers
  BY <1>0, <1>d DEF GrabCell, Goes, Typed, StepsAreTheirs, DequeueSteps, poolVars
<1>2. d < e
  <2>1. (dequeuePos <= enqueuePos)'
    BY <1>0 DEF QueueInv
  <2> QED
    BY <1>d, <1>1, <2>1
<1>3. /\ Fifo \in Seq(Tasks) /\ Len(Fifo) = e - d
      /\ \A i \in 1..(e - d) : Fifo[i] = TaskMap[d + i - 1]
  BY <1>d, FifoFacts DEF FifoOK
<1>4. /\ Fifo' \in Seq(Tasks) /\ Len(Fifo') = e - (d + 1)
      /\ \A i \in 1..(e - (d + 1)) : Fifo'[i] = TaskMap'[(d + 1) + i - 1]
  BY <1>d, <1>1, FifoFactsNext DEF FifoOK
<1>5. \A i \in 1..(e - d) : d + i - 1 \in Slots
  BY <1>d DEF Slots, Waiting
<1>6. Fifo # <<>>
  BY <1>2, <1>3, <1>d, EmptySeq
<1>7. Head(Fifo) = TaskMap[d]
  <2>1. 1 \in 1..(e - d) /\ d + 1 - 1 = d
    BY <1>2, <1>d
  <2>2. Fifo[1] = TaskMap[d]
    BY <1>3, <2>1
  <2> QED
    BY <2>2
<1>8. Fifo' = Tail(Fifo)
  <2>1. /\ Tail(Fifo) \in Seq(Tasks) /\ Len(Tail(Fifo)) = e - d - 1
        /\ \A i \in 1..(e - d - 1) : Tail(Fifo)[i] = Fifo[i + 1]
    BY <1>3, <1>6, HeadTailProperties
  <2>2. e - (d + 1) = e - d - 1
    BY <1>d
  <2>3. ASSUME NEW i \in 1..(e - d - 1)
        PROVE  Fifo'[i] = Tail(Fifo)[i]
    <3>1. i + 1 \in 1..(e - d) /\ (d + 1) + i - 1 = d + (i + 1) - 1
      BY <1>d
    <3>2. Fifo[i + 1] = TaskMap[d + (i + 1) - 1] /\ d + (i + 1) - 1 \in Slots
      BY <1>3, <1>5, <3>1
    <3>3. TaskMap'[d + (i + 1) - 1] = TaskMap[d + (i + 1) - 1]
      BY <1>0, <3>2, MapKept
    <3>4. Fifo'[i] = TaskMap'[d + (i + 1) - 1]
      BY <1>4, <2>2, <3>1
    <3> QED
      BY <2>1, <3>2, <3>3, <3>4
  <2> QED
    BY <1>4, <2>1, <2>2, <2>3, SeqEqual
<1>9. d \in Slots /\ TaskMap'[d] = TaskMap[d]
  <2>1. d \in Slots
    BY <1>d, <1>2 DEF Slots, Waiting
  <2> QED
    BY <1>0, <2>1, MapKept
<1>10. Taken' = Taken \cup {Head(Fifo)}
  <2>1. ASSUME NEW x
        PROVE  x \in Taken' <=> x \in Taken \/ x = TaskMap[d]
    <3>1. x \in Taken <=> \E u \in Workers : Holds(u, x)
      BY TakenFacts DEF TakenOK
    <3>2. x \in Taken' <=> \E u \in Workers : Holds(u, x)'
      BY TakenFactsNext DEF TakenOK
    <3>3. \A u \in Workers : u # t => (Holds(u, x)' <=> Holds(u, x))
      BY <1>0, OthersHold
    <3>4. ~Holds(t, x) /\ (Holds(t, x)' <=> x = TaskMap[d])
      BY <1>1, <1>9 DEF Holds
    <3> QED
      BY <1>1, <3>1, <3>2, <3>3, <3>4
  <2> QED
    BY <1>7, <2>1
<1>11. UNCHANGED <<Ran, gone>>
  BY <1>1 DEF Ran
<1> QED
  BY <1>6, <1>8, <1>10, <1>11 DEF Promise!Take

\* A worker runs a task that it has taken, and holds it no longer.
LEMMA RunRuns ==
    ASSUME IInv, IInv', NEW t \in Threads, RunTask(t)
    PROVE  Promise!Run(job[t]) /\ job[t] \in Tasks
<1>0. ThreadStep(t) /\ Typed /\ StepsAreTheirs /\ QueueInv /\ QueueInv' /\ TaskInv
  BY DEF ThreadStep, IInv
<1>x. PICK x : x = job[t]
  OBVIOUS
<1>1. /\ pc[t] = "run" /\ pc'[t] \in {"loop", "enter"} /\ x \in Tasks /\ t \in Workers
      /\ t \in Hands /\ UNCHANGED <<enqueuePos, dequeuePos, gone>>
      /\ \A z \in Tasks : runs'[z] = IF z = x THEN runs[x] + 1 ELSE runs[z]
      /\ runs[x] \in Nat
  BY <1>0, <1>x DEF RunTask, Goes, Returns, Typed, StepsAreTheirs, Hands, queueVars
<1>2. Fifo' = Fifo
  BY <1>0, <1>1, FifoKept
<1>3. Ran' = Ran \cup {x}
  BY <1>1 DEF Ran
<1>4. x \in Taken
  BY <1>1, <1>x, TakenFacts DEF TakenOK, Holds
<1>5. Taken' = Taken \ {x}
  <2>1. ASSUME NEW z
        PROVE  z \in Taken' <=> z \in Taken /\ z # x
    <3>1. z \in Taken <=> \E u \in Workers : Holds(u, z)
      BY TakenFacts DEF TakenOK
    <3>2. z \in Taken' <=> \E u \in Workers : Holds(u, z)'
      BY TakenFactsNext DEF TakenOK
    <3>3. \A u \in Workers : u # t => (Holds(u, z)' <=> Holds(u, z))
      BY <1>0, OthersHold
    <3>4. ~Holds(t, z)' /\ (Holds(t, z) <=> z = x)
      BY <1>1, <1>x DEF Holds
    <3>5. \A u \in Workers : u # t => ~Holds(u, x)
      <4> SUFFICES ASSUME NEW u \in Workers, u # t, Holds(u, x)
                   PROVE  FALSE
        OBVIOUS
      <4>1. CASE pc[u] = "read" /\ TaskMap[pos[u]] = x
        <5>1. pos[u] \in Slots
          BY <4>1 DEF Slots
        <5> QED
          BY <1>0, <1>1, <1>x, <4>1, <5>1, MapKept DEF TaskInv
      <4>2. CASE pc[u] \in {"free", "run"} /\ job[u] = x
        <5>1. u \in Hands
          BY <4>2 DEF Hands, Threads
        <5> QED
          BY <1>0, <1>1, <1>x, <4>2, <5>1 DEF TaskInv
      <4> QED
        BY <4>1, <4>2 DEF Holds
    <3> QED
      BY <1>1, <3>1, <3>2, <3>3, <3>4, <3>5
  <2> QED
    BY <2>1
<1> QED
  BY <1>1, <1>2, <1>3, <1>4, <1>5, <1>x DEF Promise!Run

\* The pool is gone when no task waits and no worker has one.
LEMMA JoinedLeaves ==
    ASSUME IInv, IInv', Joined
    PROVE  Promise!Leave
<1>1. /\ \A u \in Workers : pc[u] = "done"
      /\ UNCHANGED <<pc, job, pos, data, enqueuePos, dequeuePos, runs>> /\ gone' = TRUE
  BY DEF Joined, queueVars
<1>2. enqueuePos = dequeuePos
  BY <1>1 DEF IInv, EndInv
<1>3. Taken = {} /\ Taken' = {}
  BY <1>1 DEF Taken
<1>4. Fifo = <<>> /\ Fifo' = <<>>
  <2>1. Fifo \in Seq(Tasks) /\ Len(Fifo) = 0
    BY <1>2, FifoFacts DEF FifoOK, IInv, Typed
  <2>2. Fifo' \in Seq(Tasks) /\ Len(Fifo') = 0
    BY <1>1, <1>2, FifoFactsNext DEF FifoOK, IInv, Typed
  <2> QED
    BY <2>1, <2>2, EmptySeq
<1>5. Ran' = Ran
  BY <1>1 DEF Ran
<1> QED
  BY <1>1, <1>3, <1>4, <1>5 DEF Promise!Leave

LEMMA PromiseStep ==
    ASSUME IInv, IInv', [Next]_vars
    PROVE  [Promise!Next]_(Promise!vars)
<1>1. ASSUME NEW t \in Threads, ThreadStep(t)
      PROVE  Promise!Next \/ Still
  <2>1. CASE Unseen(t)
    BY <2>1, UnseenStep
  <2>2. CASE ClaimCell(t)
    BY <2>2, ClaimAccepts DEF Promise!Next
  <2>3. CASE GrabCell(t)
    BY <2>3, GrabTakes DEF Promise!Next
  <2>4. CASE RunTask(t)
    BY <2>4, RunRuns DEF Promise!Next
  <2> QED
    BY <1>1, <2>1, <2>2, <2>3, <2>4 DEF ThreadStep, Claims, Unseen
<1>2. CASE Joined
  BY <1>2, JoinedLeaves DEF Promise!Next
<1>3. CASE UNCHANGED <<pc, job, pos, queueVars, runs, gone>>
  <2>1. UNCHANGED <<data, enqueuePos, dequeuePos>>
    BY <1>3 DEF queueVars
  <2>2. \A p : TaskAt(p)' = TaskAt(p)
    <3> SUFFICES ASSUME NEW p
                 PROVE  TaskAt(p)' = TaskAt(p)
      OBVIOUS
    <3> QED
      BY <1>3, <2>1, TaskStays DEF Writer, IInv, QueueInv
  <2>3. TaskMap' = TaskMap
    BY <2>2 DEF TaskMap
  <2>4. Taken' = Taken
    <3>1. \A u \in Workers : \A x : Holds(u, x)' <=> Holds(u, x)
      BY <1>3, <2>3 DEF Holds
    <3> QED
      BY <3>1, TakenFacts, TakenFactsNext DEF TakenOK
  <2>5. Fifo' = Fifo
    <3>d. PICK d \in Nat, e \in Nat : d = dequeuePos /\ e = enqueuePos
      BY DEF IInv, Typed
    <3>1. /\ Fifo \in Seq(Tasks) /\ Len(Fifo) = e - d
          /\ \A i \in 1..(e - d) : Fifo[i] = TaskMap[d + i - 1]
      BY <3>d, FifoFacts DEF FifoOK
    <3>2. /\ Fifo' \in Seq(Tasks) /\ Len(Fifo') = e - d
          /\ \A i \in 1..(e - d) : Fifo'[i] = TaskMap'[d + i - 1]
      BY <2>1, <3>d, FifoFactsNext DEF FifoOK
    <3> QED
      BY <2>3, <3>1, <3>2, SeqEqual
  <2> QED
    BY <1>3, <2>4, <2>5 DEF Promise!vars, Ran
<1>4. CASE Stop \/ UNCHANGED vars
  BY <1>3, <1>4 DEF Stop, vars, poolVars
<1> QED
  BY <1>1, <1>2, <1>4 DEF Next, Still, Promise!vars

LEMMA PromiseInit == Init => Promise!Init
<1> SUFFICES ASSUME Init
             PROVE  Promise!Init
  OBVIOUS
<1>1. IInv
  BY InitInv
<1>2. Fifo = <<>>
  BY <1>1, FifoFacts, EmptySeq DEF FifoOK, Init
<1>3. Taken = {}
  <2>1. \A u \in Workers : pc[u] = "loop"
    BY DEF Init, Threads
  <2> QED
    BY <2>1 DEF Taken
<1>4. Ran = {} /\ gone = FALSE
  BY DEF Init, Ran
<1> QED
  BY <1>2, <1>3, <1>4 DEF Promise!Init

\* The safety part of KeepsPromise: MPMCQueue is a queue, so whatever the threads
\* of the pool do, tasks are started in the order in which enqueue claimed their
\* positions, each accepted once, started once and run once, and the destructor
\* returns only when no accepted task is left.
THEOREM PromiseIsSafe == Spec => Promise!Init /\ [][Promise!Next]_(Promise!vars)
<1>1. Init => Promise!Init
  BY PromiseInit
<1>2. IInv /\ IInv' /\ [Next]_vars => [Promise!Next]_(Promise!vars)
  BY PromiseStep
<1> QED
  BY <1>1, <1>2, Invariance, PTL DEF Spec
=============================================================================
