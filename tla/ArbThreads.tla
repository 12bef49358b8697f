------------------------------ MODULE ArbThreads ------------------------------
(***************************************************************************)
(* The two locks and the threads of src/core/arb_coordinator.h: mutex_,    *)
(* under which every section works on the pairs, and threads_mutex_, under *)
(* which threads are added to worker_threads_ and joined by reset() and    *)
(* the destructor.                                                         *)
(*                                                                         *)
(* What the sections do to a pair is in ArbCoordinator.  Here a pair is as *)
(* much as decides which threads are started; where a section may end a    *)
(* pair or begin an unwind, both are possible.  A section of a lock that   *)
(* waits for nothing is one step.  So is a start of a thread: it waits for *)
(* threads_mutex_, adds the thread and lets the lock go.                   *)
(***************************************************************************)
EXTENDS Naturals, Sequences, FiniteSets

CONSTANTS
    Signals,         \* <<group, leg>>: the signals that come in, each by a call of its own
    Routed,          \* legs whose exchange has a gateway
    Resets           \* how often reset() is called at most

Groups == {s[1] : s \in Signals}

Legs == {"cex", "dex"}

ASSUME ThreadsAssumption ==
    Signals \subseteq Groups \X Legs /\ Routed \subseteq Legs /\ Resets \in Nat

Timer(s) == <<s[1], "timer", s[2]>>

Ack(g, leg) == <<g, "ack", leg>>

Monitor(g) == <<g, "monitor">>

Unwind(starter) == <<starter[1], "unwind", starter>>

\* The gateway's thread that reports what became of a leg.
Report(g, leg) == <<g, "report", leg>>

Unwinders ==
    {Ack(g, "dex") : g \in Groups} \cup {Monitor(g) : g \in Groups}
        \cup {Report(g, "dex") : g \in Groups}

Workers ==
    {Timer(s) : s \in Signals} \cup {Ack(g, leg) : g \in Groups, leg \in Legs}
        \cup {Monitor(g) : g \in Groups} \cup {Unwind(u) : u \in Unwinders}

Reports == {Report(g, leg) : g \in Groups, leg \in Legs}

Threads == Signals \cup Workers \cup Reports

VARIABLES
    pc,              \* Threads -> "idle", "ready", "storing", "dispatching", "starting" or "done"
    starts,          \* Threads -> the workers it is about to start
    mutex,           \* the thread that holds mutex_ while it waits, {} if none does
    owner,           \* what the thread that resets or destroys the coordinator does
    workers,         \* worker_threads_
    pair,            \* Groups -> "none", "assembling", "dispatched" or "ended"
    legs,            \* Groups -> legs the pair has
    resets           \* number of resets begun

vars == <<pc, starts, mutex, owner, workers, pair, legs, resets>>

TypeOK ==
    /\ pc \in [Threads -> {"idle", "ready", "storing", "dispatching", "starting", "done"}]
    /\ starts \in [Threads -> Seq(Workers)]
    /\ mutex \in {{}} \cup {{t} : t \in Threads}
    /\ owner \in {"idle", "joining", "joined", "clearing", "destroying", "gone"}
    /\ workers \subseteq Workers
    /\ pair \in [Groups -> {"none", "assembling", "dispatched", "ended"}]
    /\ legs \in [Groups -> SUBSET Legs]
    /\ resets \in 0..Resets

Init ==
    /\ pc = [t \in Threads |-> IF t \in Signals THEN "ready" ELSE "idle"]
    /\ starts = [t \in Threads |-> <<>>]
    /\ mutex = {} /\ owner = "idle" /\ workers = {}
    /\ pair = [g \in Groups |-> "none"]
    /\ legs = [g \in Groups |-> {}]
    /\ resets = 0

Goes(t, from, to) == pc[t] = from /\ pc' = [pc EXCEPT ![t] = to]

-----------------------------------------------------------------------------
(* add_leg and dispatch_pair.                                              *)

\* The leg is stored with mutex_ held to the end of the section.
StoresLeg(s, from) ==
    LET both == legs[s[1]] \cup {s[2]} = Legs
    IN  /\ Goes(s, from, IF both THEN "dispatching" ELSE "done")
        /\ legs' = [legs EXCEPT ![s[1]] = @ \cup {s[2]}]

AddLeg(s) ==
    /\ mutex = {} /\ pair[s[1]] # "none"
    /\ StoresLeg(s, "ready")
    /\ UNCHANGED <<starts, mutex, owner, workers, pair, resets>>

\* The first leg makes the pair and starts its timer under mutex_.
AddFirstLeg(s) ==
    /\ mutex = {} /\ pair[s[1]] = "none"
    /\ Goes(s, "ready", "storing")
    /\ mutex' = {s}
    /\ pair' = [pair EXCEPT ![s[1]] = "assembling"]
    /\ starts' = [starts EXCEPT ![s] = <<Timer(s)>>]
    /\ UNCHANGED <<owner, workers, legs, resets>>

StoreFirstLeg(s) ==
    /\ starts[s] = <<>>
    /\ StoresLeg(s, "storing")
    /\ mutex' = {}
    /\ UNCHANGED <<starts, owner, workers, pair, resets>>

\* send_order is called just before the thread that waits for its future is started.
SentFor(q) == {r \in Reports : q # <<>> /\ Head(q) = Ack(r[1], r[3])}

Acks(g, leg) == IF leg \in Routed THEN <<Ack(g, leg)>> ELSE <<>>

Dispatch(s) ==
    LET g == s[1]
        new == Acks(g, "cex") \o Acks(g, "dex") \o <<Monitor(g)>>
    IN  /\ pc[s] = "dispatching"
        /\ mutex = {} /\ pair[g] = "assembling"
        /\ pair' = [pair EXCEPT ![g] = "dispatched"]
        /\ starts' = [starts EXCEPT ![s] = new]
        /\ pc' = [t \in Threads |-> IF t = s THEN "starting"
                                   ELSE IF t \in SentFor(new) THEN "ready" ELSE pc[t]]
        /\ UNCHANGED <<mutex, owner, workers, legs, resets>>

DispatchEndsAs(s, e) ==
    /\ mutex = {}
    /\ Goes(s, "dispatching", "done")
    /\ pair' = [pair EXCEPT ![s[1]] = IF @ = "assembling" THEN e ELSE @]
    /\ UNCHANGED <<starts, mutex, owner, workers, legs, resets>>

\* Mutant of DispatchEnds: the pair stays as it was made.
DispatchEndsCreated(s) == DispatchEndsAs(s, "created")

\* The margin is refused, or the pair is not, or no longer, there to be dispatched.
DispatchEnds(s) == DispatchEndsAs(s, "ended")

-----------------------------------------------------------------------------
(* The threads.                                                            *)

Joining == owner \in {"joining", "destroying"}

\* The thread that holds threads_mutex_ joins with it held.
ThreadsLocked == Joining \/ owner = "joined"

StartsWorker(t) ==
    LET w == Head(starts[t])
        rest == Tail(starts[t])
        ends == rest = <<>> /\ pc[t] = "starting"
    IN  /\ starts[t] # <<>>
        /\ workers' = workers \cup {w}
        /\ starts' = [starts EXCEPT ![t] = rest]
        /\ pc' = [x \in Threads |-> IF x = t /\ ends THEN "done"
                                   ELSE IF x \in {w} \cup SentFor(rest) THEN "ready" ELSE pc[x]]
        /\ mutex' = IF ends THEN mutex \ {t} ELSE mutex
        /\ UNCHANGED <<owner, pair, legs, resets>>

\* Mutant of StartWorker: threads_mutex_ is not taken.
StartWorkerUnlocked(t) == StartsWorker(t)

StartWorker(t) == ~ThreadsLocked /\ StartsWorker(t)

\* The section of a worker, or of a gateway's report, that starts nothing.
Work(t) ==
    /\ t \in Workers \cup Reports
    /\ mutex = {}
    /\ Goes(t, "ready", "done")
    /\ \E e \in {pair[t[1]]} \cup IF pair[t[1]] = "none" THEN {} ELSE {"ended"} :
           pair' = [pair EXCEPT ![t[1]] = e]
    /\ UNCHANGED <<starts, mutex, owner, workers, legs, resets>>

\* A DEX leg refused or reverted after the CEX leg's fill, or late: start_unwind
\* waits for threads_mutex_ with mutex_ held.
BeginUnwind(t) ==
    /\ t \in Unwinders
    /\ mutex = {}
    /\ pair[t[1]] = "dispatched" \/ (pair[t[1]] = "ended" /\ t # Monitor(t[1]))
    /\ Goes(t, "ready", "starting")
    /\ mutex' = {t}
    /\ starts' = [starts EXCEPT ![t] = <<Unwind(t)>>]
    /\ pair' = [pair EXCEPT ![t[1]] = "ended"]
    /\ UNCHANGED <<owner, workers, legs, resets>>

-----------------------------------------------------------------------------
(* reset and the destructor.                                               *)

OwnerGoes(from, to) ==
    /\ owner = from /\ owner' = to
    /\ UNCHANGED <<pc, starts, legs>>

\* Mutant of Reset: it takes both locks.
ResetUnderMutex ==
    /\ resets < Resets /\ mutex = {}
    /\ OwnerGoes("idle", "joining")
    /\ resets' = resets + 1
    /\ mutex' = {CHOOSE s \in Signals : TRUE}
    /\ UNCHANGED <<workers, pair>>

Reset ==
    /\ resets < Resets
    /\ OwnerGoes("idle", "joining")
    /\ resets' = resets + 1
    /\ UNCHANGED <<mutex, workers, pair>>

AllJoined == \A w \in workers : pc[w] = "done"

JoinAll ==
    /\ AllJoined
    /\ OwnerGoes("joining", "joined")
    /\ UNCHANGED <<mutex, workers, pair, resets>>

ClearThreads ==
    /\ OwnerGoes("joined", "clearing")
    /\ workers' = {}
    /\ UNCHANGED <<mutex, pair, resets>>

ClearPairs ==
    /\ mutex = {}
    /\ owner = "clearing" /\ owner' = "idle"
    /\ pair' = [g \in Groups |-> "none"]
    /\ legs' = [g \in Groups |-> {}]
    /\ UNCHANGED <<pc, starts, mutex, workers, resets>>

\* The coordinator is destroyed when nobody calls it any more.
Destroy ==
    /\ \A t \in Signals \cup Reports : pc[t] \in {"idle", "done"}
    /\ OwnerGoes("idle", "destroying")
    /\ UNCHANGED <<mutex, workers, pair, resets>>

Destroyed ==
    /\ AllJoined
    /\ OwnerGoes("destroying", "gone")
    /\ UNCHANGED <<mutex, workers, pair, resets>>

-----------------------------------------------------------------------------

CallStep(s) == AddLeg(s) \/ AddFirstLeg(s) \/ StoreFirstLeg(s) \/ Dispatch(s) \/ DispatchEnds(s)

\* A thread that is about to start another does that first.
SectionStep(t) == starts[t] = <<>> /\ (Work(t) \/ BeginUnwind(t))

OwnerEnds == JoinAll \/ ClearThreads \/ ClearPairs \/ Destroyed

Next ==
    \/ \E s \in Signals : CallStep(s)
    \/ \E t \in Threads : SectionStep(t) \/ StartWorker(t)
    \/ Reset \/ Destroy \/ OwnerEnds

Spec == Init /\ [][Next]_vars

Progress ==
    \/ \E s \in Signals : CallStep(s) /\ pc[s] # "ready"
    \/ \E w \in Workers : SectionStep(w)
    \/ \E t \in Threads : StartWorker(t)
    \/ OwnerEnds

\* Threads are scheduled and every order is answered; no thread goes round in a
\* loop, so that whoever can go on does in the end.  Nobody has to call, to reset
\* or to report.
FairSpec == Spec /\ WF_vars(Progress)

-----------------------------------------------------------------------------
(* What is checked or proved.                                              *)

\* The owner waits, with threads_mutex_ held, for a worker that has not ended; a
\* thread waits, with mutex_ held, for threads_mutex_; and the worker is that
\* thread or waits for mutex_.
Deadlock == Joining /\ ~AllJoined /\ \E t \in Threads : mutex = {t} /\ starts[t] # <<>>

\* The order of the two locks is inverted, and once that has bitten nothing helps.
DeadlockIsForEver == [][Deadlock => Deadlock']_vars

\* It bites in no other way: a reset or destructor that joins comes to the end of it.
JoinReturns == Joining ~> (~Joining \/ Deadlock)

\* Every thread in progress is in worker_threads_, to be joined before it is
\* destroyed: reset() drops no thread that somebody starts while it joins.
WorkersAreJoinable ==
    \A w \in Workers : pc[w] \in {"ready", "starting"} => w \in workers /\ owner # "gone"

=============================================================================
