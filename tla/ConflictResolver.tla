--------------------------- MODULE ConflictResolver ---------------------------
(***************************************************************************)
(* The resolver of src/core/conflict_resolver.h as a class of its own:     *)
(* orders may be registered with their exchange id, as the tests of the    *)
(* repository do it and OrderManager does not, so that check does cancel.  *)
(*                                                                         *)
(* check holds the one spin lock from its first look at the entries to its *)
(* return, all the waits for cancels included, and so is a sequence of     *)
(* steps with lock = {s}; the other sections are single steps.  The        *)
(* gateways cancel and fill on threads of their own, as                    *)
(* src/gateway/mock_cex_gateway.h and mock_dex_gateway.h do.  Entries are  *)
(* a set: in which order check goes through the conflicts is left open.    *)
(***************************************************************************)
EXTENDS Naturals, FiniteSets

CONSTANTS
    Orders,          \* orders that may be registered, each at most once
    Signals,         \* signals that are checked, each once
    Symbol,          \* Orders \cup Signals -> the symbol
    Buy,             \* orders and signals to buy
    WithId,          \* orders registered with an exchange id
    Routed,          \* orders whose exchange has a gateway
    Slow,            \* orders whose cancel may take more than 500 ms
    Failing,         \* orders whose cancel may fail
    Strategies       \* strategies the resolver may be made with

ASSUME ResolverAssumption ==
    /\ Buy \subseteq Orders \cup Signals /\ Orders \cap Signals = {}
    /\ WithId \subseteq Orders /\ Routed \subseteq Orders
    /\ Slow \subseteq Orders /\ Failing \subseteq Orders
    /\ Strategies \subseteq {"CANCEL_AND_REPLACE", "REJECT_NEW", "QUEUE"}

VARIABLES
    strategy,
    tracked,         \* the orders with an entry
    status,          \* Orders -> status of the entry
    lock,            \* the signal whose check holds the spin lock, {} if none does
    pc,              \* Signals -> where check is with the signal
    todo,            \* the conflicts that check has yet to cancel
    current,         \* the one whose cancel it has asked for, {} if none
    cancel,          \* Orders -> what has become of the cancel asked for last
    cancelled,       \* orders in the gateways' cancelled_orders_
    market,          \* Orders -> what has become of the order at its gateway
    timedOut         \* history: orders whose cancel a check gave up waiting for

checkVars == <<lock, pc, todo, current>>

gatewayVars == <<cancelled, market>>

vars == <<strategy, tracked, status, checkVars, cancel, gatewayVars, timedOut>>

Active == {"SENT", "TX_PENDING", "ACKNOWLEDGED", "TX_CONFIRMED"}

Terminal == {"FILLED", "CANCELLED"}

TypeOK ==
    /\ strategy \in Strategies
    /\ tracked \subseteq Orders
    /\ status \in [Orders -> Active \cup Terminal]
    /\ lock \in {{}} \cup {{s} : s \in Signals}
    /\ pc \in [Signals -> {"new", "checking", "waiting", "leaving", "passed", "refused"}]
    /\ todo \subseteq Orders
    /\ current \in {{}} \cup {{o} : o \in Orders}
    /\ cancel \in [Orders -> {"none", "asked", "success", "failure"}]
    /\ cancelled \subseteq Orders /\ timedOut \subseteq Orders
    /\ market \in [Orders -> {"working", "filled", "reported", "silent"}]

Init ==
    /\ strategy \in Strategies
    /\ tracked = {}
    /\ status = [o \in Orders |-> "SENT"]
    /\ lock = {} /\ pc = [s \in Signals |-> "new"] /\ todo = {} /\ current = {}
    /\ cancel = [o \in Orders |-> "none"]
    /\ cancelled = {} /\ timedOut = {}
    /\ market = [o \in Orders |-> "working"]

-----------------------------------------------------------------------------
(* register_order, update_status, cleanup and reset.                       *)

Registers(o, entry) ==
    /\ lock = {}
    /\ market[o] = "working" /\ cancel[o] = "none" /\ o \notin tracked
    /\ tracked' = tracked \cup {o}
    /\ status' = [status EXCEPT ![o] = entry]
    /\ UNCHANGED <<strategy, checkVars, cancel, gatewayVars, timedOut>>

\* Mutant of RegisterOrder: the order is registered before it is marked SENT.
RegisterCreated(o) == Registers(o, "CREATED")

RegisterOrder(o) == Registers(o, "SENT")

FillsEntry(o) ==
    /\ market[o] = "filled"
    /\ market' = [market EXCEPT ![o] = "reported"]
    /\ status' = IF o \in tracked THEN [status EXCEPT ![o] = "FILLED"] ELSE status
    /\ UNCHANGED <<strategy, tracked, checkVars, cancel, cancelled, timedOut>>

\* Mutant of UpdateStatus: it does not take the lock.
UpdateStatusUnlocked(o) == FillsEntry(o)

\* The owner of the resolver passes a reported fill on.
UpdateStatus(o) == lock = {} /\ FillsEntry(o)

KeepOnly(entries) ==
    /\ lock = {} /\ entries # tracked
    /\ tracked' = entries
    /\ UNCHANGED <<strategy, status, checkVars, cancel, gatewayVars, timedOut>>

Cleanup == KeepOnly({o \in tracked : status[o] \notin Terminal})

ResetResolver == KeepOnly({})

-----------------------------------------------------------------------------
(* check.                                                                  *)

Conflicts(s) ==
    {o \in tracked : /\ Symbol[o] = Symbol[s]
                     /\ (o \in Buy) # (s \in Buy)
                     /\ status[o] \in Active}

\* The loop goes past a conflict without an exchange id or a gateway.
Cancellable(s) == Conflicts(s) \cap WithId \cap Routed

Goes(s, from, to) == pc[s] = from /\ pc' = [pc EXCEPT ![s] = to]

Finds(s, verdict) ==
    /\ lock = {} /\ Goes(s, "new", verdict)
    /\ UNCHANGED <<strategy, tracked, status, current, cancel, gatewayVars, timedOut>>

CheckPasses(s) ==
    /\ Conflicts(s) = {}
    /\ Finds(s, "passed")
    /\ UNCHANGED <<lock, todo>>

CheckRejectsNew(s) ==
    /\ Conflicts(s) # {} /\ strategy = "REJECT_NEW"
    /\ Finds(s, "refused")
    /\ UNCHANGED <<lock, todo>>

\* QUEUE is not told from CANCEL_AND_REPLACE.
CheckCancels(s) ==
    /\ Conflicts(s) # {} /\ strategy # "REJECT_NEW"
    /\ Finds(s, "checking")
    /\ lock' = {s}
    /\ todo' = Cancellable(s)

AskCancel(s) ==
    /\ Goes(s, "checking", "waiting")
    /\ \E o \in todo :
           /\ todo' = todo \ {o}
           /\ current' = {o}
           /\ cancel' = [cancel EXCEPT ![o] = "asked"]
    /\ UNCHANGED <<strategy, tracked, status, lock, gatewayVars, timedOut>>

\* wait_for sees that the cancel that check waits for has ended so.
Awaited(s, o, outcome) == pc[s] = "waiting" /\ current = {o} /\ cancel[o] = outcome

Confirms(s, o, entry, rest) ==
    /\ Awaited(s, o, "success")
    /\ Goes(s, "waiting", "checking")
    /\ status' = [status EXCEPT ![o] = entry]
    /\ todo' = rest /\ current' = {}
    /\ UNCHANGED <<strategy, tracked, lock, cancel, gatewayVars, timedOut>>

\* Mutants of CancelConfirmed: the entry is forgotten; the loop does not go on.
CancelConfirmedSilently(s) == \E o \in Orders : Confirms(s, o, status[o], todo)

CancelConfirmedAgain(s) == \E o \in Orders : Confirms(s, o, "CANCELLED", todo \cup {o})

CancelConfirmed(s) == \E o \in Orders : Confirms(s, o, "CANCELLED", todo)

Leaves(s, from, verdict) ==
    /\ Goes(s, from, verdict)
    /\ lock' = {} /\ todo' = {} /\ current' = {}
    /\ UNCHANGED <<strategy, tracked, status, cancel, gatewayVars, timedOut>>

\* Mutant of CancelFails: the loop goes on to the next conflict.
CancelFailsLoop(s) ==
    /\ \E o \in Orders : Awaited(s, o, "failure")
    /\ Goes(s, "waiting", "checking")
    /\ current' = {}
    /\ UNCHANGED <<strategy, tracked, status, lock, todo, cancel, gatewayVars, timedOut>>

CancelFails(s) ==
    /\ \E o \in Orders : Awaited(s, o, "failure")
    /\ Leaves(s, "waiting", "refused")

\* wait_for gives up after 500 ms.
CancelTimesOut(s) ==
    /\ \E o \in Slow : Awaited(s, o, "asked")
    /\ Goes(s, "waiting", "leaving")
    /\ timedOut' = timedOut \cup current
    /\ UNCHANGED <<strategy, tracked, status, lock, todo, current, cancel, gatewayVars>>

\* The future is std::async's: its destructor waits for the cancel, and the lock is
\* let go after that.
TimedOutReturns(s) ==
    /\ \A o \in current : cancel[o] # "asked"
    /\ Leaves(s, "leaving", "refused")

AllCancelled(s) ==
    /\ todo = {}
    /\ Leaves(s, "checking", "passed")

-----------------------------------------------------------------------------
(* The gateways.                                                           *)

GatewayCancels(o) ==
    /\ cancel[o] = "asked"
    /\ cancel' = [cancel EXCEPT ![o] = "success"]
    /\ cancelled' = cancelled \cup {o}
    /\ UNCHANGED <<strategy, tracked, status, checkVars, market, timedOut>>

GatewayCancelFails(o) ==
    /\ o \in Failing /\ cancel[o] = "asked"
    /\ cancel' = [cancel EXCEPT ![o] = "failure"]
    /\ UNCHANGED <<strategy, tracked, status, checkVars, gatewayVars, timedOut>>

\* The fill thread looks at cancelled_orders_ once, and says nothing of a cancelled
\* order.
FillThreadRuns(o) ==
    /\ market[o] = "working"
    /\ market' = [market EXCEPT ![o] = IF o \in cancelled THEN "silent" ELSE "filled"]
    /\ UNCHANGED <<strategy, tracked, status, checkVars, cancel, cancelled, timedOut>>

-----------------------------------------------------------------------------

CheckBegins(s) == CheckPasses(s) \/ CheckRejectsNew(s) \/ CheckCancels(s)

CheckStep(s) ==
    \/ AskCancel(s) \/ CancelConfirmed(s) \/ CancelFails(s)
    \/ CancelTimesOut(s) \/ TimedOutReturns(s) \/ AllCancelled(s)

GatewayAnswers(o) == GatewayCancels(o) \/ GatewayCancelFails(o)

Next ==
    \/ \E s \in Signals : CheckBegins(s) \/ CheckStep(s)
    \/ \E o \in Orders : GatewayAnswers(o) \/ FillThreadRuns(o)
                         \/ RegisterOrder(o) \/ UpdateStatus(o)
    \/ Cleanup \/ ResetResolver

Spec == Init /\ [][Next]_vars

\* The thread in check is scheduled, and a gateway answers a cancel.
FairSpec ==
    /\ Spec
    /\ \A s \in Signals : WF_vars(CheckStep(s))
    /\ \A o \in Orders : WF_vars(GatewayAnswers(o))

-----------------------------------------------------------------------------
(* What is checked.                                                        *)

\* A signal passes only when none of the orders against it could be cancelled any
\* more: each one with an id and a gateway has been cancelled, not just asked to be.
PassedIsClear ==
    [][\A s \in Signals :
           pc[s] # "passed" /\ pc'[s] = "passed" =>
               Cancellable(s)' = {} /\ \A o \in Orders : cancel[o] # "asked"]_vars

\* A reported fill is not lost to a cancel that was in progress: the check that set
\* out to cancel the order does not overwrite FILLED with CANCELLED.
FillIsKept == \A o \in Orders : market[o] = "reported" /\ o \in tracked => status[o] = "FILLED"

\* The resolver takes a cancelled order, of which nobody will report, for an active
\* one only after a time-out.  Such an entry stays and refuses signals from then on.
StaleOnlyByTimeout ==
    lock = {} => \A o \in Orders :
        o \in tracked /\ status[o] \in Active /\ o \in cancelled => o \in timedOut

\* check returns and lets the lock go, time-outs included.
CheckReturns == \A s \in Signals : lock = {s} ~> lock # {s}

=============================================================================
