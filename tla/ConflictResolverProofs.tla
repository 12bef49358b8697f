------------------------ MODULE ConflictResolverProofs ------------------------
(***************************************************************************)
(* Theorems about the resolver, for every set of orders and signals, any   *)
(* choice of slow and failing cancels and every strategy.                  *)
(***************************************************************************)
EXTENDS ConflictResolver, TLAPS

InCheck == {"checking", "waiting", "leaving"}

\* The lock is held by the one check in progress, which alone has work left.
LockIsHeld ==
    /\ \A s \in Signals : pc[s] \in InCheck <=> lock = {s}
    /\ lock = {} => todo = {} /\ current = {}
    /\ \A s \in Signals : pc[s] = "checking" => current = {}
    /\ \A s \in Signals : pc[s] = "leaving" => current \subseteq timedOut

\* Nobody waits for a cancel but the check in progress.
AskedIsCurrent ==
    /\ \A o \in Orders : cancel[o] = "asked" => current = {o}
    /\ cancelled \subseteq {o \in Orders : cancel[o] # "none"}

\* The conflicts that a check goes through stay conflicts until it gets to them,
\* which it does once.
ConflictsStay ==
    /\ \A o \in todo \cup current :
           o \in tracked /\ status[o] \in Active /\ market[o] # "reported"
    /\ todo \cap current = {}

\* None is left out.
NoneIsSkipped ==
    \A s \in Signals : pc[s] \in {"checking", "waiting"} => Cancellable(s) \subseteq todo \cup current

\* A cancelled order whose entry is active was given up, or is about to be marked.
MarkedOrGivenUp ==
    \A o \in Orders : o \in tracked /\ status[o] \in Active /\ o \in cancelled =>
        \/ o \in timedOut
        \/ current = {o} /\ cancel[o] = "success" /\ \E s \in Signals : pc[s] = "waiting"

IInv ==
    /\ TypeOK /\ LockIsHeld /\ AskedIsCurrent /\ ConflictsStay
    /\ NoneIsSkipped /\ MarkedOrGivenUp /\ FillIsKept

-----------------------------------------------------------------------------

LEMMA Initially == Init => IInv
BY ResolverAssumption
   DEF Init, IInv, TypeOK, LockIsHeld, AskedIsCurrent, ConflictsStay, NoneIsSkipped,
       MarkedOrGivenUp, FillIsKept, InCheck, Active, Terminal

\* Entries come, end and go only while no check is in progress.
LEMMA RegisterStep ==
    ASSUME IInv, NEW o \in Orders, RegisterOrder(o)
    PROVE  IInv'
BY ResolverAssumption
   DEF RegisterOrder, Registers, checkVars, gatewayVars, IInv, TypeOK, LockIsHeld,
       AskedIsCurrent, ConflictsStay, NoneIsSkipped, MarkedOrGivenUp, FillIsKept, InCheck,
       Active, Terminal

LEMMA UpdateStep ==
    ASSUME IInv, NEW o \in Orders, UpdateStatus(o)
    PROVE  IInv'
BY ResolverAssumption
   DEF UpdateStatus, FillsEntry, checkVars, gatewayVars, IInv, TypeOK, LockIsHeld,
       AskedIsCurrent, ConflictsStay, NoneIsSkipped, MarkedOrGivenUp, FillIsKept, InCheck,
       Active, Terminal

LEMMA DropStep ==
    ASSUME IInv, NEW entries \in SUBSET tracked, KeepOnly(entries)
    PROVE  IInv'
BY ResolverAssumption
   DEF KeepOnly, checkVars, gatewayVars, IInv, TypeOK, LockIsHeld,
       AskedIsCurrent, ConflictsStay, NoneIsSkipped, MarkedOrGivenUp, FillIsKept, InCheck,
       Active, Terminal

-----------------------------------------------------------------------------
(* check.                                                                  *)

LEMMA VerdictStep ==
    ASSUME IInv, NEW s \in Signals, CheckPasses(s) \/ CheckRejectsNew(s)
    PROVE  IInv'
BY ResolverAssumption
   DEF CheckPasses, CheckRejectsNew, Finds, Goes, gatewayVars, IInv, TypeOK, LockIsHeld,
       AskedIsCurrent, ConflictsStay, NoneIsSkipped, MarkedOrGivenUp, FillIsKept, InCheck,
       Active, Terminal, Cancellable, Conflicts

LEMMA CheckCancelsStep ==
    ASSUME IInv, NEW s \in Signals, CheckCancels(s)
    PROVE  IInv'
BY ResolverAssumption
   DEF CheckCancels, Finds, Goes, gatewayVars, IInv, TypeOK, LockIsHeld,
       AskedIsCurrent, ConflictsStay, NoneIsSkipped, MarkedOrGivenUp, FillIsKept, InCheck,
       Active, Terminal, Cancellable, Conflicts

LEMMA AskStep ==
    ASSUME IInv, NEW s \in Signals, AskCancel(s)
    PROVE  IInv'
BY ResolverAssumption
   DEF AskCancel, Goes, gatewayVars, IInv, TypeOK, LockIsHeld,
       AskedIsCurrent, ConflictsStay, NoneIsSkipped, MarkedOrGivenUp, FillIsKept, InCheck,
       Active, Terminal, Cancellable, Conflicts

LEMMA ConfirmStep ==
    ASSUME IInv, NEW s \in Signals, CancelConfirmed(s)
    PROVE  IInv'
<1>1. PICK o \in Orders : Confirms(s, o, "CANCELLED", todo)
  BY DEF CancelConfirmed
<1>2. /\ pc[s] = "waiting" /\ lock = {s} /\ lock' = lock /\ current = {o} /\ current' = {}
      /\ todo' = todo /\ status' = [status EXCEPT ![o] = "CANCELLED"]
      /\ pc' = [pc EXCEPT ![s] = "checking"] /\ cancel[o] = "success"
      /\ UNCHANGED <<strategy, tracked, cancel, cancelled, market, timedOut>>
  BY <1>1 DEF Confirms, Awaited, Goes, gatewayVars, IInv, LockIsHeld, InCheck
<1>3. TypeOK' /\ LockIsHeld' /\ AskedIsCurrent'
  BY <1>2 DEF IInv, TypeOK, LockIsHeld, AskedIsCurrent, InCheck, Terminal
<1>4. FillIsKept'
  BY <1>2 DEF IInv, TypeOK, ConflictsStay, FillIsKept
<1>5. \A p \in Orders : status'[p] \in Active => p # o /\ status[p] \in Active
  BY <1>2 DEF IInv, TypeOK, Active
<1>6. MarkedOrGivenUp'
  BY <1>2, <1>5 DEF IInv, TypeOK, MarkedOrGivenUp
<1>7. ConflictsStay'
  BY <1>2 DEF IInv, TypeOK, ConflictsStay
<1>8. NoneIsSkipped'
  <2> SUFFICES ASSUME NEW t \in Signals, pc'[t] \in {"checking", "waiting"},
                      NEW p \in Cancellable(t)'
               PROVE  p \in todo'
    BY DEF NoneIsSkipped
  <2>1. p # o /\ p \in Cancellable(t)
    BY <1>2, <1>5, ResolverAssumption DEF Cancellable, Conflicts
  <2>2. pc[t] \in {"checking", "waiting"}
    BY <1>2 DEF IInv, TypeOK
  <2> QED
    BY <1>2, <2>1, <2>2 DEF IInv, NoneIsSkipped
<1> QED
  BY <1>3, <1>4, <1>6, <1>7, <1>8 DEF IInv

LEMMA GiveUpStep ==
    ASSUME IInv, NEW s \in Signals, CancelTimesOut(s)
    PROVE  IInv'
BY ResolverAssumption
   DEF CancelTimesOut, Awaited, Goes, gatewayVars, IInv, TypeOK, LockIsHeld,
       AskedIsCurrent, ConflictsStay, NoneIsSkipped, MarkedOrGivenUp, FillIsKept, InCheck,
       Active, Terminal, Cancellable, Conflicts

LEMMA LeaveStep ==
    ASSUME IInv, NEW s \in Signals, CancelFails(s) \/ TimedOutReturns(s) \/ AllCancelled(s)
    PROVE  IInv'
BY ResolverAssumption
   DEF CancelFails, TimedOutReturns, AllCancelled, Leaves, Awaited, Goes, gatewayVars, IInv,
       TypeOK, LockIsHeld, AskedIsCurrent, ConflictsStay, NoneIsSkipped, MarkedOrGivenUp,
       FillIsKept, InCheck, Active, Terminal, Cancellable, Conflicts

-----------------------------------------------------------------------------
(* The gateways.                                                           *)

LEMMA AnswerStep ==
    ASSUME IInv, NEW o \in Orders, GatewayAnswers(o)
    PROVE  IInv'
BY ResolverAssumption
   DEF GatewayAnswers, GatewayCancels, GatewayCancelFails, checkVars, gatewayVars, IInv,
       TypeOK, LockIsHeld, AskedIsCurrent, ConflictsStay, NoneIsSkipped, MarkedOrGivenUp,
       FillIsKept, InCheck, Active, Terminal, Cancellable, Conflicts

LEMMA FillThreadStep ==
    ASSUME IInv, NEW o \in Orders, FillThreadRuns(o)
    PROVE  IInv'
BY ResolverAssumption
   DEF FillThreadRuns, checkVars, IInv, TypeOK, LockIsHeld, AskedIsCurrent, ConflictsStay,
       NoneIsSkipped, MarkedOrGivenUp, FillIsKept, InCheck, Active, Terminal, Cancellable,
       Conflicts

-----------------------------------------------------------------------------

LEMMA StepKeepsInv == IInv /\ [Next]_vars => IInv'
<1> SUFFICES ASSUME IInv, [Next]_vars PROVE IInv'
  OBVIOUS
<1>1. CASE UNCHANGED vars
  BY <1>1
     DEF vars, checkVars, gatewayVars, IInv, TypeOK, LockIsHeld, AskedIsCurrent, ConflictsStay,
         NoneIsSkipped, MarkedOrGivenUp, FillIsKept, Cancellable, Conflicts
<1>2. ASSUME NEW s \in Signals, CheckBegins(s) PROVE IInv'
  BY <1>2, VerdictStep, CheckCancelsStep DEF CheckBegins
<1>3. ASSUME NEW s \in Signals, CheckStep(s) PROVE IInv'
  BY <1>3, AskStep, ConfirmStep, GiveUpStep, LeaveStep DEF CheckStep
<1>4. ASSUME NEW o \in Orders, GatewayAnswers(o) \/ FillThreadRuns(o) PROVE IInv'
  BY <1>4, AnswerStep, FillThreadStep
<1>5. ASSUME NEW o \in Orders, RegisterOrder(o) \/ UpdateStatus(o) PROVE IInv'
  BY <1>5, RegisterStep, UpdateStep
<1>6. CASE Cleanup \/ ResetResolver
  BY <1>6, DropStep DEF Cleanup, ResetResolver
<1> QED
  BY <1>1, <1>2, <1>3, <1>4, <1>5, <1>6 DEF Next

THEOREM Invariance == Spec => []IInv
<1>1. Init => IInv
  BY Initially
<1>2. IInv /\ [Next]_vars => IInv'
  BY StepKeepsInv
<1> QED
  BY <1>1, <1>2, PTL DEF Spec

\* The resolver's state is well typed.
THEOREM TypeCorrect == Spec => []TypeOK
<1>1. IInv => TypeOK
  BY DEF IInv
<1> QED
  BY <1>1, Invariance, PTL

\* A reported fill survives a check that set out to cancel the order.
THEOREM FillsAreKept == Spec => []FillIsKept
<1>1. IInv => FillIsKept
  BY DEF IInv
<1> QED
  BY <1>1, Invariance, PTL

\* An entry of a cancelled order stays active only after a time-out.
THEOREM StaleByTimeout == Spec => []StaleOnlyByTimeout
<1>1. IInv => StaleOnlyByTimeout
  BY DEF IInv, LockIsHeld, MarkedOrGivenUp, StaleOnlyByTimeout
<1> QED
  BY <1>1, Invariance, PTL

\* When a signal passes, nothing against it can be cancelled any more, and no cancel
\* is under way.
LEMMA PassingStep ==
    ASSUME IInv, [Next]_vars, NEW s \in Signals, pc[s] # "passed", pc'[s] = "passed"
    PROVE  Cancellable(s)' = {} /\ \A o \in Orders : cancel[o] # "asked"
<1>1. CheckPasses(s) \/ AllCancelled(s)
  BY ResolverAssumption
     DEF Next, vars, checkVars, gatewayVars, CheckBegins, CheckStep, GatewayAnswers, Goes, Finds,
         Leaves, Confirms, Awaited, CheckPasses, CheckRejectsNew, CheckCancels, AskCancel,
         CancelConfirmed, CancelFails, CancelTimesOut, TimedOutReturns, AllCancelled,
         GatewayCancels, GatewayCancelFails, FillThreadRuns, RegisterOrder, Registers,
         UpdateStatus, FillsEntry, Cleanup, ResetResolver, KeepOnly, IInv, TypeOK
<1>2. current = {} /\ Cancellable(s) = {}
  <2>1. CASE CheckPasses(s)
    BY <2>1 DEF CheckPasses, Finds, Cancellable, IInv, LockIsHeld
  <2>2. CASE AllCancelled(s)
    BY <2>2 DEF AllCancelled, Leaves, Goes, IInv, LockIsHeld, NoneIsSkipped
  <2> QED
    BY <1>1, <2>1, <2>2
<1>3. Cancellable(s)' = Cancellable(s)
  BY <1>1 DEF CheckPasses, Finds, AllCancelled, Leaves, Cancellable, Conflicts
<1> QED
  BY <1>2, <1>3 DEF IInv, AskedIsCurrent

THEOREM PassesWhenClear == Spec => PassedIsClear
<1>1. IInv /\ [Next]_vars =>
          [\A s \in Signals :
               pc[s] # "passed" /\ pc'[s] = "passed" =>
                   Cancellable(s)' = {} /\ \A o \in Orders : cancel[o] # "asked"]_vars
  BY PassingStep
<1> QED
  BY <1>1, Invariance, PTL DEF Spec, PassedIsClear

===============================================================================
