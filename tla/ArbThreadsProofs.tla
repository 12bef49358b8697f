--------------------------- MODULE ArbThreadsProofs ---------------------------
(***************************************************************************)
(* Theorems about the coordinator's locks and threads, for every set of    *)
(* signals, gateways and number of resets.                                 *)
(***************************************************************************)
EXTENDS ArbThreads, TLAPS

Ended(t) == pc[t] \in {"idle", "done"}

\* A thread that is about to start workers is in progress.
StartersAreBusy ==
    \A t \in Threads : starts[t] # <<>> =>
        pc[t] \in {"storing", "starting"} \/ (t \notin Signals /\ pc[t] = "ready")

\* A worker in progress is in the list, and there is none when the list is dropped.
ListIsComplete ==
    /\ \A w \in Workers : ~Ended(w) => w \in workers
    /\ owner \in {"joined", "gone"} => \A w \in Workers : Ended(w)

\* Nobody calls a coordinator that is being destroyed.
NoLateCalls == owner \in {"destroying", "gone"} => \A t \in Signals \cup Reports : Ended(t)

\* The call that makes a pair holds mutex_ until the leg is stored.
StoringHoldsMutex == \A s \in Signals : pc[s] = "storing" => mutex = {s}

IInv == TypeOK /\ StartersAreBusy /\ ListIsComplete /\ NoLateCalls /\ StoringHoldsMutex

-----------------------------------------------------------------------------
(* The names of threads.                                                   *)

LEMMA SignalNames ==
    ASSUME NEW s \in Signals
    PROVE  s[1] \in Groups /\ s[2] \in Legs /\ s \in Threads
BY ThreadsAssumption DEF Groups, Threads

LEMMA WorkerNames ==
    ASSUME NEW w \in Workers
    PROVE  /\ w[1] \in Groups /\ w[2] \in {"timer", "ack", "monitor", "unwind"}
           /\ w \in Threads
<1>1. CASE w \in {Timer(s) : s \in Signals}
  BY <1>1, SignalNames DEF Timer, Threads
<1>2. CASE w \in {Ack(g, leg) : g \in Groups, leg \in Legs} \cup {Monitor(g) : g \in Groups}
  BY <1>2 DEF Ack, Monitor, Threads
<1>3. CASE w \in {Unwind(u) : u \in Unwinders}
  <2>1. PICK u \in Unwinders : w = Unwind(u)
    BY <1>3
  <2>2. u[1] \in Groups
    BY DEF Unwinders, Ack, Monitor, Report
  <2> QED
    BY <2>1, <2>2 DEF Unwind, Threads
<1> QED
  BY <1>1, <1>2, <1>3 DEF Workers

LEMMA ReportNames ==
    ASSUME NEW r \in Reports
    PROVE  r[1] \in Groups /\ r[2] = "report" /\ r \in Threads
BY DEF Reports, Report, Threads

LEMMA KindsAreDisjoint ==
    /\ Signals \cap Workers = {} /\ Signals \cap Reports = {} /\ Workers \cap Reports = {}
    /\ Threads = Signals \cup Workers \cup Reports
BY SignalNames, WorkerNames, ReportNames DEF Legs, Threads

LEMMA StartedAreWorkers ==
    ASSUME NEW g \in Groups
    PROVE  /\ Acks(g, "cex") \o Acks(g, "dex") \o <<Monitor(g)>> \in Seq(Workers)
           /\ \A s \in Signals : Timer(s) \in Workers
<1>1. Ack(g, "cex") \in Workers /\ Ack(g, "dex") \in Workers /\ Monitor(g) \in Workers
  BY DEF Workers, Legs
<1>2. Acks(g, "cex") \in Seq(Workers) /\ Acks(g, "dex") \in Seq(Workers)
      /\ <<Monitor(g)>> \in Seq(Workers)
  BY <1>1 DEF Acks
<1> QED
  BY <1>2 DEF Workers

LEMMA UnwindNames ==
    ASSUME NEW u \in Unwinders
    PROVE  Unwind(u) \in Workers /\ u \in Threads /\ u[1] \in Groups
<1>1. u \in Workers \cup Reports
  BY DEF Unwinders, Workers, Reports, Legs
<1> QED
  BY <1>1, WorkerNames, ReportNames DEF Workers

-----------------------------------------------------------------------------
(* Types.                                                                  *)

LEMMA InitInv == Init => IInv
<1> SUFFICES ASSUME Init PROVE IInv
  OBVIOUS
<1>1. TypeOK
  BY ThreadsAssumption DEF Init, TypeOK
<1>2. StartersAreBusy /\ ListIsComplete /\ NoLateCalls /\ StoringHoldsMutex
  BY KindsAreDisjoint
     DEF Init, StartersAreBusy, ListIsComplete, NoLateCalls, StoringHoldsMutex, Ended
<1> QED
  BY <1>1, <1>2 DEF IInv

LEMMA CallType ==
    ASSUME TypeOK, NEW s \in Signals, CallStep(s)
    PROVE  TypeOK'
<1> USE SignalNames DEF TypeOK
<1>1. CASE AddLeg(s)
  BY <1>1 DEF AddLeg, StoresLeg, Goes
<1>2. CASE AddFirstLeg(s)
  <2>1. <<Timer(s)>> \in Seq(Workers)
    BY StartedAreWorkers
  <2> QED
    BY <1>2, <2>1 DEF AddFirstLeg, Goes
<1>3. CASE StoreFirstLeg(s)
  BY <1>3 DEF StoreFirstLeg, StoresLeg, Goes
<1>4. CASE Dispatch(s)
  BY <1>4, StartedAreWorkers DEF Dispatch
<1>5. CASE DispatchEnds(s)
  BY <1>5 DEF DispatchEnds, DispatchEndsAs, Goes
<1> QED
  BY <1>1, <1>2, <1>3, <1>4, <1>5 DEF CallStep

LEMMA ThreadType ==
    ASSUME TypeOK, NEW t \in Threads, SectionStep(t) \/ StartWorker(t)
    PROVE  TypeOK'
<1> USE DEF TypeOK
<1>1. CASE Work(t)
  <2>1. t[1] \in Groups
    BY <1>1, WorkerNames, ReportNames DEF Work
  <2>2. PICK e \in {pair[t[1]]} \cup IF pair[t[1]] = "none" THEN {} ELSE {"ended"} :
            pair' = [pair EXCEPT ![t[1]] = e]
    BY <1>1 DEF Work
  <2>3. pair' \in [Groups -> {"none", "assembling", "dispatched", "ended"}]
    BY <2>1, <2>2
  <2> QED
    BY <1>1, <2>3 DEF Work, Goes
<1>2. CASE BeginUnwind(t)
  <2>1. t[1] \in Groups /\ <<Unwind(t)>> \in Seq(Workers)
    BY <1>2, UnwindNames DEF BeginUnwind
  <2> QED
    BY <1>2, <2>1 DEF BeginUnwind, Goes
<1>3. CASE StartWorker(t)
  <2>1. Head(starts[t]) \in Workers /\ Tail(starts[t]) \in Seq(Workers)
    BY <1>3 DEF StartWorker, StartsWorker
  <2>2. workers' \subseteq Workers /\ starts' \in [Threads -> Seq(Workers)]
    BY <1>3, <2>1 DEF StartWorker, StartsWorker
  <2>3. pc' \in [Threads -> {"idle", "ready", "storing", "dispatching", "starting", "done"}]
    BY <1>3 DEF StartWorker, StartsWorker
  <2>4. mutex' \in {mutex, mutex \ {t}}
    BY <1>3 DEF StartWorker, StartsWorker
  <2>5. mutex' \in {{}} \cup {{x} : x \in Threads}
    BY <2>4
  <2> QED
    BY <1>3, <2>2, <2>3, <2>5 DEF StartWorker, StartsWorker
<1> QED
  BY <1>1, <1>2, <1>3 DEF SectionStep

LEMMA OwnerType ==
    ASSUME TypeOK, Reset \/ Destroy \/ OwnerEnds
    PROVE  TypeOK'
BY ThreadsAssumption DEF TypeOK, Reset, Destroy, OwnerEnds, JoinAll, ClearThreads, ClearPairs, Destroyed,
   OwnerGoes

-----------------------------------------------------------------------------
(* Each step keeps the rest of the invariant.                              *)

Rest == StartersAreBusy /\ ListIsComplete /\ NoLateCalls /\ StoringHoldsMutex

LEMMA CallRest ==
    ASSUME IInv, NEW s \in Signals, CallStep(s)
    PROVE  Rest'
<1> USE SignalNames, KindsAreDisjoint
    DEF IInv, TypeOK, Rest, StartersAreBusy, ListIsComplete, NoLateCalls, StoringHoldsMutex, Ended
<1>1. CASE AddLeg(s)
  BY <1>1 DEF AddLeg, StoresLeg, Goes
<1>2. CASE AddFirstLeg(s)
  BY <1>2 DEF AddFirstLeg, Goes
<1>3. CASE StoreFirstLeg(s)
  BY <1>3 DEF StoreFirstLeg, StoresLeg, Goes
<1>4. CASE Dispatch(s)
  BY <1>4 DEF Dispatch, SentFor
<1>5. CASE DispatchEnds(s)
  BY <1>5 DEF DispatchEnds, DispatchEndsAs, Goes
<1> QED
  BY <1>1, <1>2, <1>3, <1>4, <1>5 DEF CallStep

LEMMA SectionRest ==
    ASSUME IInv, NEW t \in Threads, SectionStep(t)
    PROVE  Rest'
<1> USE KindsAreDisjoint
    DEF IInv, TypeOK, Rest, StartersAreBusy, ListIsComplete, NoLateCalls, StoringHoldsMutex, Ended
<1>0. starts[t] = <<>>
  BY DEF SectionStep
<1>1. CASE Work(t)
  BY <1>0, <1>1 DEF Work, Goes
<1>2. CASE BeginUnwind(t)
  <2>1. t \in Workers \cup Reports
    BY <1>2 DEF BeginUnwind, Unwinders, Workers, Reports, Legs
  <2> QED
    BY <1>2, <2>1 DEF BeginUnwind, Goes
<1> QED
  BY <1>1, <1>2 DEF SectionStep

LEMMA StartRest ==
    ASSUME IInv, NEW t \in Threads, StartWorker(t)
    PROVE  Rest'
<1> USE KindsAreDisjoint
    DEF IInv, TypeOK, Rest, StartersAreBusy, ListIsComplete, NoLateCalls, StoringHoldsMutex, Ended
<1> DEFINE w == Head(starts[t])
           rest == Tail(starts[t])
           ends == rest = <<>> /\ pc[t] = "starting"
<1>1. /\ starts[t] # <<>> /\ ~Joining /\ owner # "joined"
      /\ workers' = workers \cup {w} /\ owner' = owner
      /\ starts' = [starts EXCEPT ![t] = rest]
      /\ pc' = [x \in Threads |-> IF x = t /\ ends THEN "done"
                                 ELSE IF x \in {w} \cup SentFor(rest) THEN "ready" ELSE pc[x]]
      /\ mutex' = IF ends THEN mutex \ {t} ELSE mutex
  BY DEF StartWorker, StartsWorker, ThreadsLocked
<1>2. w \in Workers /\ SentFor(rest) \subseteq Reports
  BY <1>1 DEF SentFor
<1>3. pc[t] \in {"storing", "starting", "ready"}
  BY <1>1
<1>4. owner \notin {"destroying", "gone", "joined"}
  BY <1>1, <1>3 DEF Joining
<1>5. StartersAreBusy'
  BY <1>1, <1>2, <1>3, SMTT(20)
<1>6. ListIsComplete' /\ NoLateCalls'
  BY <1>1, <1>2, <1>4
<1>7. StoringHoldsMutex'
  BY <1>1, <1>2, <1>3
<1> QED
  BY <1>5, <1>6, <1>7

LEMMA OwnerRest ==
    ASSUME IInv, Reset \/ Destroy \/ OwnerEnds
    PROVE  Rest'
BY DEF IInv, TypeOK, Rest, StartersAreBusy, ListIsComplete, NoLateCalls, StoringHoldsMutex, Ended,
   Reset, Destroy, OwnerEnds, JoinAll, ClearThreads, ClearPairs, Destroyed, OwnerGoes, AllJoined

LEMMA StepInv == IInv /\ [Next]_vars => IInv'
<1> SUFFICES ASSUME IInv, [Next]_vars PROVE TypeOK' /\ Rest'
  BY DEF IInv, Rest
<1>1. CASE \E s \in Signals : CallStep(s)
  BY <1>1, CallType, CallRest DEF IInv
<1>2. CASE \E t \in Threads : SectionStep(t)
  BY <1>2, ThreadType, SectionRest DEF IInv
<1>3. CASE \E t \in Threads : StartWorker(t)
  BY <1>3, ThreadType, StartRest DEF IInv
<1>4. CASE Reset \/ Destroy \/ OwnerEnds
  BY <1>4, OwnerType, OwnerRest DEF IInv
<1>5. CASE UNCHANGED vars
  BY <1>5 DEF vars, IInv, TypeOK, Rest, StartersAreBusy, ListIsComplete, NoLateCalls,
     StoringHoldsMutex, Ended
<1> QED
  BY <1>1, <1>2, <1>3, <1>4, <1>5 DEF Next

THEOREM Invariance == Spec => []IInv
BY InitInv, StepInv, PTL DEF Spec

\* Every variable of the threads keeps its type.
THEOREM TypeCorrect == Spec => []TypeOK
<1>1. IInv => TypeOK
  BY DEF IInv
<1> QED
  BY <1>1, Invariance, PTL

\* No worker in progress is ever outside the list that reset() and the destructor
\* join, and none outlives the coordinator.
THEOREM AllJoinable == Spec => []WorkersAreJoinable
<1>1. IInv => WorkersAreJoinable
  BY DEF IInv, ListIsComplete, Ended, WorkersAreJoinable
<1> QED
  BY <1>1, Invariance, PTL

\* Once the inversion of the two locks has bitten, no thread can undo it.
THEOREM DeadlockStays == Spec => DeadlockIsForEver
<1>1. IInv /\ [Next]_vars => [Deadlock => Deadlock']_vars
  <2> SUFFICES ASSUME IInv, Next, Deadlock PROVE Deadlock'
    OBVIOUS
  <2>1. PICK t \in Threads : mutex = {t} /\ starts[t] # <<>>
    BY DEF Deadlock
  <2>2. Joining /\ ~AllJoined /\ mutex # {}
    BY <2>1 DEF Deadlock
  <2>3. CASE \E s \in Signals : CallStep(s)
    <3>1. PICK s \in Signals : StoreFirstLeg(s)
      BY <2>2, <2>3 DEF CallStep, AddLeg, AddFirstLeg, Dispatch, DispatchEnds, DispatchEndsAs
    <3>2. mutex = {s} /\ starts[s] = <<>>
      BY <3>1 DEF StoreFirstLeg, StoresLeg, Goes, IInv, StoringHoldsMutex
    <3> QED
      BY <2>1, <3>2
  <2>4. ~ \E x \in Threads : SectionStep(x) \/ StartWorker(x)
    BY <2>2 DEF SectionStep, Work, BeginUnwind, StartWorker, ThreadsLocked
  <2>5. ~ (Reset \/ Destroy \/ OwnerEnds)
    BY <2>2 DEF Reset, Destroy, OwnerEnds, JoinAll, ClearThreads, ClearPairs, Destroyed,
       OwnerGoes, Joining
  <2> QED
    BY <2>3, <2>4, <2>5 DEF Next
<1> QED
  BY <1>1, Invariance, PTL DEF Spec, DeadlockIsForEver
=============================================================================
