--------------------------- MODULE ArbCoordinator ---------------------------
(***************************************************************************)
(* The two-leg arbitrage coordinator, src/core/arb_coordinator.h.          *)
(*                                                                         *)
(* The code keeps one ArbPair per group under mutex_ and runs every piece  *)
(* of slow work on a thread of its own: the assembly deadline, the wait    *)
(* for each leg's acknowledgement, the risk-window monitor and each unwind.*)
(* Fill callbacks arrive on the gateways' threads.  An action below is one *)
(* critical section of mutex_, or one step a thread makes outside it; the  *)
(* threads interleave freely, and a sleep or a wait for a future is an     *)
(* action that may be taken at any time once its cause is there.           *)
(*                                                                         *)
(* An order is <<group, venue, n>>, the n-th leg submitted for that venue  *)
(* of that group; its number stands for the unique order id and signal id. *)
(* "cex" and "dex" stand for the exchange type of the leg, and Gateways    *)
(* for the types that have an entry in the gateway map.                    *)
(***************************************************************************)
EXTENDS PortfolioGuard, Sequences

CONSTANTS
    Groups,          \* group ids
    MaxSubmits,      \* bound: add_leg calls per group and venue
    FillPrice,       \* Keys -> price the exchange executes the order at
    Gateways,        \* venues that have a gateway
    Refusing,        \* venues that may answer send_order with success = false
    Reverting,       \* venues that may report a reject through the fill feed
    Answering        \* venues that answer every order in the end (fairness only)

Venues == {"cex", "dex"}

Orders == Groups \X Venues \X (1 .. MaxSubmits)

ASSUME ArbAssumption ==
    /\ MaxSubmits \in Nat
    /\ Orders \subseteq Keys
    /\ FillPrice \in [Keys -> Nat]
    /\ Gateways \subseteq Venues
    /\ Refusing \subseteq Venues
    /\ Reverting \subseteq Venues
    /\ Answering \subseteq Venues

PairStatuses == {"NONE", "ASSEMBLING", "DISPATCHED", "CEX_FILLED", "DEX_FILLED",
                 "UNWINDING", "FAILED", "COMPLETED"}

LegStatuses == {"NONE", "CREATED", "SENT", "ACKNOWLEDGED", "TX_PENDING", "FILLED",
                "CANCELLED", "REJECTED", "TIMEOUT"}

Terminal == {"FILLED", "CANCELLED", "REJECTED", "TIMEOUT"}

VARIABLES
    pairStatus,      \* Groups -> status; "NONE" while the group has no ArbPair
    leg,             \* Groups -> Venues -> number of the order in the leg, 0 if none
    legStatus,       \* Groups -> Venues -> status of the order in the leg
    recorded,        \* orders whose fill was written into their leg (filled_quantity)
    submitted,       \* Groups -> Venues -> number of add_leg calls so far
    callers,         \* Groups -> threads between add_leg and dispatch_pair's lock
    sender,          \* Groups -> what the dispatching thread does next
    copied,          \* Groups -> Venues -> number of the order copied for sending
    gw,              \* Groups -> Venues -> where the sent order is at its gateway
    ack,             \* Groups -> Venues -> the send_order future of that order
    deadline,        \* Groups -> the assembly deadline thread
    monitor,         \* Groups -> the risk-window thread
    unwinds,         \* Groups -> unwind threads waiting to send / to report
    unwound,         \* Groups -> unwind orders the exchange accepted
    reversals,       \* Groups -> the orders that start_unwind made the reverse of
    ledger           \* the PortfolioGuard

pairVars == <<pairStatus, leg, legStatus, recorded>>
callVars == <<submitted, callers, sender, copied>>
exchVars == <<gw, ack>>
timerVars == <<deadline, monitor>>
unwindVars == <<unwinds, unwound, reversals>>
vars == <<pairVars, callVars, exchVars, timerVars, unwindVars, ledger>>

GatewayStates == {"idle", "sending", "working", "refused",
                  "filled", "fill_reported", "reverted", "revert_reported"}

UnwindThreads == [queued : Nat, accepted : Nat, refused : Nat]

TypeOK ==
    /\ pairStatus \in [Groups -> PairStatuses]
    /\ leg \in [Groups -> [Venues -> 0 .. MaxSubmits]]
    /\ legStatus \in [Groups -> [Venues -> LegStatuses]]
    /\ recorded \subseteq Orders
    /\ submitted \in [Groups -> [Venues -> 0 .. MaxSubmits]]
    /\ callers \in [Groups -> Nat]
    /\ sender \in [Groups -> {"idle", "cex", "dex", "monitor", "done"}]
    /\ copied \in [Groups -> [Venues -> 0 .. MaxSubmits]]
    /\ gw \in [Groups -> [Venues -> GatewayStates]]
    /\ ack \in [Groups -> [Venues -> {"none", "ok", "fail", "handled"}]]
    /\ deadline \in [Groups -> {"off", "armed", "fired"}]
    /\ monitor \in [Groups -> {"off", "armed", "fired"}]
    /\ unwinds \in [Groups -> UnwindThreads]
    /\ unwound \in [Groups -> Nat]
    /\ reversals \in [Groups -> Seq(0 .. MaxSubmits)]
    /\ ledger \in Ledgers

PerLeg(v) == [g \in Groups |-> [x \in Venues |-> v]]

Init ==
    /\ pairStatus = [g \in Groups |-> "NONE"]
    /\ leg = PerLeg(0)
    /\ legStatus = PerLeg("NONE")
    /\ recorded = {}
    /\ submitted = PerLeg(0)
    /\ callers = [g \in Groups |-> 0]
    /\ sender = [g \in Groups |-> "idle"]
    /\ copied = PerLeg(0)
    /\ gw = PerLeg("idle")
    /\ ack = PerLeg("none")
    /\ deadline = [g \in Groups |-> "off"]
    /\ monitor = [g \in Groups |-> "off"]
    /\ unwinds = [g \in Groups |-> [queued |-> 0, accepted |-> 0, refused |-> 0]]
    /\ unwound = [g \in Groups |-> 0]
    /\ reversals = [g \in Groups |-> << >>]
    /\ ledger = EmptyLedger

-----------------------------------------------------------------------------
(* Assembly: add_leg, its deadline, and dispatch.                          *)

Key(g, x) == <<g, x, leg[g][x]>>

Other(x) == IF x = "cex" THEN "dex" ELSE "cex"

HasBothLegs(g) == \A x \in Venues : leg[g][x] # 0

\* add_leg up to the unlock.  The slot of the leg is overwritten whatever the
\* status of the pair; whoever finds both slots taken goes on to dispatch_pair.
AddLeg(g, x) ==
    /\ submitted[g][x] < MaxSubmits
    /\ submitted' = [submitted EXCEPT ![g][x] = @ + 1]
    /\ leg' = [leg EXCEPT ![g][x] = submitted[g][x] + 1]
    /\ legStatus' = [legStatus EXCEPT ![g][x] = "CREATED"]
    /\ pairStatus' = [pairStatus EXCEPT ![g] = IF @ = "NONE" THEN "ASSEMBLING" ELSE @]
    /\ deadline' = [deadline EXCEPT ![g] = IF pairStatus[g] = "NONE" THEN "armed" ELSE @]
    /\ callers' = [callers EXCEPT ![g] = IF leg[g][Other(x)] # 0 THEN @ + 1 ELSE @]
    /\ UNCHANGED <<recorded, sender, copied, exchVars, monitor, unwindVars, ledger>>

RejectPresentLegs(g) ==
    legStatus' = [legStatus EXCEPT ![g] =
                     [x \in Venues |-> IF leg[g][x] # 0 THEN "REJECTED" ELSE @[x]]]

ReleaseLeg(l, g, x) == IF leg[g][x] # 0 THEN Release(l, Key(g, x)) ELSE l

\* Mutant of DeadlineFires: the test for the second leg is the wrong way round.
DeadlineFailsFullPairs(g) ==
    /\ deadline[g] = "armed"
    /\ deadline' = [deadline EXCEPT ![g] = "fired"]
    /\ IF pairStatus[g] = "ASSEMBLING" /\ HasBothLegs(g)
       THEN /\ pairStatus' = [pairStatus EXCEPT ![g] = "FAILED"]
            /\ RejectPresentLegs(g)
            /\ ledger' = ReleaseLeg(ReleaseLeg(ledger, g, "cex"), g, "dex")
       ELSE UNCHANGED <<pairStatus, legStatus, ledger>>
    /\ UNCHANGED <<leg, recorded, callVars, exchVars, monitor, unwindVars>>

DeadlineFires(g) ==
    /\ deadline[g] = "armed"
    /\ deadline' = [deadline EXCEPT ![g] = "fired"]
    /\ IF pairStatus[g] = "ASSEMBLING" /\ ~HasBothLegs(g)
       THEN /\ pairStatus' = [pairStatus EXCEPT ![g] = "FAILED"]
            /\ RejectPresentLegs(g)
            /\ ledger' = ReleaseLeg(ReleaseLeg(ledger, g, "cex"), g, "dex")
       ELSE UNCHANGED <<pairStatus, legStatus, ledger>>
    /\ UNCHANGED <<leg, recorded, callVars, exchVars, monitor, unwindVars>>

\* dispatch_pair returns at once when another thread, or the deadline, has
\* moved the pair on since add_leg released the lock.
DispatchTooLate(g) ==
    /\ callers[g] > 0
    /\ pairStatus[g] # "ASSEMBLING"
    /\ callers' = [callers EXCEPT ![g] = @ - 1]
    /\ UNCHANGED <<pairVars, submitted, sender, copied, exchVars, timerVars,
                   unwindVars, ledger>>

DispatchUnaffordable(g) ==
    /\ callers[g] > 0
    /\ pairStatus[g] = "ASSEMBLING"
    /\ ~AffordablePair(ledger, Key(g, "cex"), Key(g, "dex"))
    /\ callers' = [callers EXCEPT ![g] = @ - 1]
    /\ pairStatus' = [pairStatus EXCEPT ![g] = "FAILED"]
    /\ RejectPresentLegs(g)
    /\ UNCHANGED <<leg, recorded, submitted, sender, copied, exchVars, timerVars,
                   unwindVars, ledger>>

\* Mutant of DispatchPair: the status is not looked at again under the lock.
DispatchUnguarded(g) ==
    /\ callers[g] > 0
    /\ AffordablePair(ledger, Key(g, "cex"), Key(g, "dex"))
    /\ callers' = [callers EXCEPT ![g] = @ - 1]
    /\ ledger' = ReservePair(ledger, Key(g, "cex"), Key(g, "dex"))
    /\ pairStatus' = [pairStatus EXCEPT ![g] = "DISPATCHED"]
    /\ legStatus' = [legStatus EXCEPT ![g] = [x \in Venues |-> "SENT"]]
    /\ copied' = [copied EXCEPT ![g] = leg[g]]
    /\ sender' = [sender EXCEPT ![g] = "cex"]
    /\ UNCHANGED <<leg, recorded, submitted, exchVars, timerVars, unwindVars>>

DispatchPair(g) ==
    /\ callers[g] > 0
    /\ pairStatus[g] = "ASSEMBLING"
    /\ AffordablePair(ledger, Key(g, "cex"), Key(g, "dex"))
    /\ callers' = [callers EXCEPT ![g] = @ - 1]
    /\ ledger' = ReservePair(ledger, Key(g, "cex"), Key(g, "dex"))
    /\ pairStatus' = [pairStatus EXCEPT ![g] = "DISPATCHED"]
    /\ legStatus' = [legStatus EXCEPT ![g] = [x \in Venues |-> "SENT"]]
    /\ copied' = [copied EXCEPT ![g] = leg[g]]
    /\ sender' = [sender EXCEPT ![g] = "cex"]
    /\ UNCHANGED <<leg, recorded, submitted, exchVars, timerVars, unwindVars>>

\* The dispatching thread, with the lock released: CEX first, then DEX, then
\* the monitor.  A venue without a gateway is passed over.
SendLeg(g, x) ==
    /\ sender[g] = x
    /\ sender' = [sender EXCEPT ![g] = IF x = "cex" THEN "dex" ELSE "monitor"]
    /\ gw' = [gw EXCEPT ![g][x] = IF x \in Gateways THEN "sending" ELSE @]
    /\ UNCHANGED <<pairVars, submitted, callers, copied, ack, timerVars, unwindVars,
                   ledger>>

StartRiskWindowMonitor(g) ==
    /\ sender[g] = "monitor"
    /\ sender' = [sender EXCEPT ![g] = "done"]
    /\ monitor' = [monitor EXCEPT ![g] = "armed"]
    /\ UNCHANGED <<pairVars, submitted, callers, copied, exchVars, deadline,
                   unwindVars, ledger>>

-----------------------------------------------------------------------------
(* The gateways, as far as the coordinator sees them: a sent order is      *)
(* accepted or refused through the future, and an accepted one fills, or   *)
(* is reverted, through a callback on the gateway's own thread.  The       *)
(* coordinator never cancels an order.                                     *)

GatewayAccepts(g, x) ==
    /\ gw[g][x] = "sending"
    /\ gw' = [gw EXCEPT ![g][x] = "working"]
    /\ ack' = [ack EXCEPT ![g][x] = "ok"]
    /\ UNCHANGED <<pairVars, callVars, timerVars, unwindVars, ledger>>

GatewayRefuses(g, x) ==
    /\ x \in Refusing
    /\ gw[g][x] = "sending"
    /\ gw' = [gw EXCEPT ![g][x] = "refused"]
    /\ ack' = [ack EXCEPT ![g][x] = "fail"]
    /\ UNCHANGED <<pairVars, callVars, timerVars, unwindVars, ledger>>

GatewayFills(g, x) ==
    /\ gw[g][x] = "working"
    /\ gw' = [gw EXCEPT ![g][x] = "filled"]
    /\ UNCHANGED <<pairVars, callVars, ack, timerVars, unwindVars, ledger>>

GatewayReverts(g, x) ==
    /\ x \in Reverting
    /\ gw[g][x] = "working"
    /\ gw' = [gw EXCEPT ![g][x] = "reverted"]
    /\ UNCHANGED <<pairVars, callVars, ack, timerVars, unwindVars, ledger>>

-----------------------------------------------------------------------------
(* Answers: the acknowledgement threads and on_fill.                       *)

\* Mutant of StartUnwind: the unwind thread is never started.
StartNothing(g) == UNCHANGED <<unwinds, reversals>>

\* start_unwind: one more thread that will send the reverse of the order that is
\* in the CEX leg by now, whichever that is.
StartUnwind(g) ==
    IF "cex" \in Gateways
    THEN /\ unwinds' = [unwinds EXCEPT ![g].queued = @ + 1]
         /\ reversals' = [reversals EXCEPT ![g] = Append(@, leg[g]["cex"])]
    ELSE UNCHANGED <<unwinds, reversals>>

\* handle_leg_reject for the CEX leg.  The code passes through UNWINDING when
\* the DEX leg is FILLED, but leaves FAILED behind in the same critical section.
HandleCexReject(g) ==
    LET dexOpen == leg[g]["dex"] # 0 /\ legStatus[g]["dex"] \notin Terminal
        afterCex == Release(ledger, Key(g, "cex"))
    IN  /\ pairStatus' = [pairStatus EXCEPT ![g] = "FAILED"]
        /\ legStatus' = [legStatus EXCEPT
               ![g] = [cex |-> "REJECTED", dex |-> IF dexOpen THEN "CANCELLED" ELSE @["dex"]]]
        /\ ledger' = IF dexOpen THEN Release(afterCex, Key(g, "dex")) ELSE afterCex
        /\ UNCHANGED <<unwinds, reversals>>

\* Mutant of HandleDexReject: the CEX leg is unwound without asking its status.
HandleDexRejectBlindly(g) ==
    /\ pairStatus' = [pairStatus EXCEPT ![g] = "UNWINDING"]
    /\ legStatus' = [legStatus EXCEPT ![g]["dex"] = "REJECTED"]
    /\ ledger' = Release(ledger, Key(g, "dex"))
    /\ StartUnwind(g)

\* handle_leg_reject for the DEX leg: it asks the status of the CEX leg, not
\* that of the pair.
HandleDexReject(g) ==
    IF leg[g]["cex"] # 0 /\ legStatus[g]["cex"] = "FILLED"
    THEN /\ pairStatus' = [pairStatus EXCEPT ![g] = "UNWINDING"]
         /\ legStatus' = [legStatus EXCEPT ![g]["dex"] = "REJECTED"]
         /\ ledger' = Release(ledger, Key(g, "dex"))
         /\ StartUnwind(g)
    ELSE /\ pairStatus' = [pairStatus EXCEPT ![g] = "FAILED"]
         /\ legStatus' = [legStatus EXCEPT ![g] =
                [cex |-> IF leg[g]["cex"] # 0 THEN "CANCELLED" ELSE @["cex"],
                 dex |-> "REJECTED"]]
         /\ ledger' = Release(ReleaseLeg(ledger, g, "cex"), Key(g, "dex"))
         /\ UNCHANGED <<unwinds, reversals>>

HandleLegReject(g, x) == IF x = "cex" THEN HandleCexReject(g) ELSE HandleDexReject(g)

\* The thread that waits for send_order's future writes to whatever order is in
\* the leg by then, without looking at its status.
AckArrives(g, x) ==
    /\ ack[g][x] = "ok"
    /\ ack' = [ack EXCEPT ![g][x] = "handled"]
    /\ legStatus' = [legStatus EXCEPT
           ![g][x] = IF x = "cex" THEN "ACKNOWLEDGED" ELSE "TX_PENDING"]
    /\ UNCHANGED <<pairStatus, leg, recorded, callVars, gw, timerVars, unwindVars,
                   ledger>>

RefusalArrives(g, x) ==
    /\ ack[g][x] = "fail"
    /\ ack' = [ack EXCEPT ![g][x] = "handled"]
    /\ HandleLegReject(g, x)
    /\ UNCHANGED <<leg, recorded, callVars, gw, timerVars, unwound>>

\* on_fill looks for the pair whose leg now holds the reported order.
Matches(g, x) == leg[g][x] = copied[g][x]

\* The leg is booked with the quantity and price on_fill left in it: zero for an
\* order that took the slot after the fill.
BookLeg(l, g, x, filled) ==
    IF Key(g, x) \in filled
    THEN BookFill(l, Key(g, x), Sig[Key(g, x)].qty, FillPrice[Key(g, x)])
    ELSE BookFill(l, Key(g, x), 0, 0)

\* Mutant of FinalizePair: the leg that filled first is not booked.
FinalizeOneLeg(g, filled) ==
    /\ pairStatus' = [pairStatus EXCEPT ![g] = "COMPLETED"]
    /\ ledger' = BookLeg(ledger, g, "cex", filled)

\* ALL_FILLED becomes COMPLETED within the critical section of the second fill.
FinalizePair(g, filled) ==
    /\ pairStatus' = [pairStatus EXCEPT ![g] = "COMPLETED"]
    /\ ledger' = BookLeg(BookLeg(ledger, g, "cex", filled), g, "dex", filled)

FirstFilled(x) == IF x = "cex" THEN "CEX_FILLED" ELSE "DEX_FILLED"

FillArrives(g, x) ==
    /\ gw[g][x] = "filled"
    /\ gw' = [gw EXCEPT ![g][x] = "fill_reported"]
    /\ Matches(g, x)
    /\ legStatus' = [legStatus EXCEPT ![g][x] = "FILLED"]
    /\ recorded' = recorded \cup {Key(g, x)}
    /\ \/ /\ pairStatus[g] = "DISPATCHED"
          /\ pairStatus' = [pairStatus EXCEPT ![g] = FirstFilled(x)]
          /\ UNCHANGED ledger
       \/ /\ pairStatus[g] = FirstFilled(Other(x))
          /\ FinalizePair(g, recorded')
       \/ /\ pairStatus[g] \notin {"DISPATCHED", FirstFilled(Other(x))}
          /\ UNCHANGED <<pairStatus, ledger>>
    /\ UNCHANGED <<leg, callVars, ack, timerVars, unwindVars>>

RevertArrives(g, x) ==
    /\ gw[g][x] = "reverted"
    /\ gw' = [gw EXCEPT ![g][x] = "revert_reported"]
    /\ Matches(g, x)
    /\ HandleLegReject(g, x)
    /\ UNCHANGED <<leg, recorded, callVars, ack, timerVars, unwound>>

\* The report of an order that is no longer in its leg is dropped.
UnmatchedReport(g, x) ==
    /\ ~Matches(g, x)
    /\ \/ /\ gw[g][x] = "filled"
          /\ gw' = [gw EXCEPT ![g][x] = "fill_reported"]
       \/ /\ gw[g][x] = "reverted"
          /\ gw' = [gw EXCEPT ![g][x] = "revert_reported"]
    /\ UNCHANGED <<pairVars, callVars, ack, timerVars, unwindVars, ledger>>

-----------------------------------------------------------------------------
(* The risk window and the unwind of a filled CEX leg.                     *)

\* Mutant of RiskWindowExceeded: it asks the legs instead of the pair.
RiskWindowByLegs(g) ==
    /\ monitor[g] = "armed"
    /\ monitor' = [monitor EXCEPT ![g] = "fired"]
    /\ IF legStatus[g]["cex"] = "FILLED" /\ legStatus[g]["dex"] # "FILLED"
       THEN /\ pairStatus' = [pairStatus EXCEPT ![g] = "UNWINDING"]
            /\ legStatus' = [legStatus EXCEPT ![g]["dex"] = "TIMEOUT"]
            /\ ledger' = Release(ledger, Key(g, "dex"))
            /\ StartUnwind(g)
       ELSE UNCHANGED <<pairStatus, legStatus, ledger, unwinds, reversals>>
    /\ UNCHANGED <<leg, recorded, callVars, exchVars, deadline, unwound>>

\* Fires once, max_risk_window_ms after the dispatch, whenever the leg filled.
RiskWindowExceeded(g) ==
    /\ monitor[g] = "armed"
    /\ monitor' = [monitor EXCEPT ![g] = "fired"]
    /\ \/ /\ pairStatus[g] = "CEX_FILLED"
          /\ pairStatus' = [pairStatus EXCEPT ![g] = "UNWINDING"]
          /\ legStatus' = [legStatus EXCEPT ![g]["dex"] = "TIMEOUT"]
          /\ ledger' = Release(ledger, Key(g, "dex"))
          /\ StartUnwind(g)
       \/ /\ pairStatus[g] = "DEX_FILLED"
          /\ pairStatus' = [pairStatus EXCEPT ![g] = "FAILED"]
          /\ legStatus' = [legStatus EXCEPT ![g]["cex"] = "TIMEOUT"]
          /\ ledger' = Release(Release(ledger, Key(g, "cex")), Key(g, "dex"))
          /\ UNCHANGED <<unwinds, reversals>>
       \/ /\ pairStatus[g] \notin {"CEX_FILLED", "DEX_FILLED"}
          /\ UNCHANGED <<pairStatus, legStatus, ledger, unwinds, reversals>>
    /\ UNCHANGED <<leg, recorded, callVars, exchVars, deadline, unwound>>

\* The unwind order has an id of its own that no leg carries, so the report of
\* its fill reaches on_fill and is dropped: acceptance is all that is modelled.
UnwindAccepted(g) ==
    /\ unwinds[g].queued > 0
    /\ unwinds' = [unwinds EXCEPT ![g].queued = @ - 1, ![g].accepted = @ + 1]
    /\ unwound' = [unwound EXCEPT ![g] = @ + 1]
    /\ UNCHANGED <<pairVars, callVars, exchVars, timerVars, reversals, ledger>>

UnwindRefused(g) ==
    /\ "cex" \in Refusing
    /\ unwinds[g].queued > 0
    /\ unwinds' = [unwinds EXCEPT ![g].queued = @ - 1, ![g].refused = @ + 1]
    /\ UNCHANGED <<pairVars, callVars, exchVars, timerVars, unwound, reversals, ledger>>

\* Mutant of UnwindReports: the margin of the CEX leg is kept.
UnwindKeepsMargin(g) ==
    /\ \/ /\ unwinds[g].accepted > 0
          /\ unwinds' = [unwinds EXCEPT ![g].accepted = @ - 1]
          /\ pairStatus' = [pairStatus EXCEPT ![g] = "COMPLETED"]
       \/ /\ unwinds[g].refused > 0
          /\ unwinds' = [unwinds EXCEPT ![g].refused = @ - 1]
          /\ pairStatus' = [pairStatus EXCEPT ![g] = "FAILED"]
    /\ UNCHANGED <<leg, legStatus, recorded, callVars, exchVars, timerVars, unwound,
                   reversals, ledger>>

\* Mutant of UnwindReports: a refused reverse order completes the pair too.
UnwindAlwaysCompletes(g) ==
    /\ \/ /\ unwinds[g].accepted > 0
          /\ unwinds' = [unwinds EXCEPT ![g].accepted = @ - 1]
       \/ /\ unwinds[g].refused > 0
          /\ unwinds' = [unwinds EXCEPT ![g].refused = @ - 1]
    /\ pairStatus' = [pairStatus EXCEPT ![g] = "COMPLETED"]
    /\ ledger' = Release(ledger, Key(g, "cex"))
    /\ UNCHANGED <<leg, legStatus, recorded, callVars, exchVars, timerVars, unwound,
                   reversals>>

UnwindReports(g) ==
    /\ \/ /\ unwinds[g].accepted > 0
          /\ unwinds' = [unwinds EXCEPT ![g].accepted = @ - 1]
          /\ pairStatus' = [pairStatus EXCEPT ![g] = "COMPLETED"]
       \/ /\ unwinds[g].refused > 0
          /\ unwinds' = [unwinds EXCEPT ![g].refused = @ - 1]
          /\ pairStatus' = [pairStatus EXCEPT ![g] = "FAILED"]
    /\ ledger' = Release(ledger, Key(g, "cex"))
    /\ UNCHANGED <<leg, legStatus, recorded, callVars, exchVars, timerVars, unwound,
                   reversals>>

-----------------------------------------------------------------------------

DispatchStep(g) == DispatchTooLate(g) \/ DispatchUnaffordable(g) \/ DispatchPair(g)

AnswerStep(g, x) ==
    \/ AckArrives(g, x)
    \/ RefusalArrives(g, x)
    \/ FillArrives(g, x)
    \/ RevertArrives(g, x)
    \/ UnmatchedReport(g, x)

UnwindStep(g) == UnwindAccepted(g) \/ UnwindRefused(g) \/ UnwindReports(g)

VenueStep(g, x) ==
    \/ AddLeg(g, x)
    \/ SendLeg(g, x)
    \/ GatewayAccepts(g, x)
    \/ GatewayRefuses(g, x)
    \/ GatewayFills(g, x)
    \/ GatewayReverts(g, x)
    \/ AnswerStep(g, x)

GroupStep(g) ==
    \/ DeadlineFires(g)
    \/ DispatchStep(g)
    \/ StartRiskWindowMonitor(g)
    \/ RiskWindowExceeded(g)
    \/ UnwindStep(g)

Next == \E g \in Groups : GroupStep(g) \/ \E x \in Venues : VenueStep(g, x)

Spec == Init /\ [][Next]_vars

\* Threads are scheduled, timers expire and futures become ready; whether an
\* accepted order is ever answered is up to the venue.  Signals need not come.
Fairness ==
    \A g \in Groups :
        /\ WF_vars(DeadlineFires(g))
        /\ WF_vars(DispatchStep(g))
        /\ WF_vars(StartRiskWindowMonitor(g))
        /\ WF_vars(RiskWindowExceeded(g))
        /\ WF_vars(UnwindAccepted(g) \/ UnwindRefused(g))
        /\ WF_vars(UnwindReports(g))
        /\ \A x \in Venues :
              /\ WF_vars(SendLeg(g, x))
              /\ WF_vars(GatewayAccepts(g, x) \/ GatewayRefuses(g, x))
              /\ WF_vars(AckArrives(g, x) \/ RefusalArrives(g, x))
              /\ WF_vars(FillArrives(g, x) \/ RevertArrives(g, x) \/ UnmatchedReport(g, x))
        /\ \A x \in Answering : WF_vars(GatewayFills(g, x) \/ GatewayReverts(g, x))

FairSpec == Spec /\ Fairness

-----------------------------------------------------------------------------
(* What is checked.                                                        *)

Executed(g, x) == gw[g][x] \in {"filled", "fill_reported"}

Dispatched(g) == copied[g]["cex"] # 0

SentKey(g, x) == <<g, x, copied[g][x]>>

FillMargin(k) == Margin(k, Sig[k].qty, FillPrice[k])

Resubmitted(g) == \E x \in Venues : submitted[g][x] > 1

InFlight == {"DISPATCHED", "CEX_FILLED", "DEX_FILLED"}

\* While a pair waits for its fills, the margin of both orders that were sent is
\* still reserved: no rejection, timer or late leg gives it back early.
ReservedInFlight(g) ==
    pairStatus[g] \in InFlight =>
        \A x \in Venues : ledger.reserved[SentKey(g, x)] = RequiredMargin(SentKey(g, x))

InFlightIsReserved == \A g \in Groups : ReservedInFlight(g)

\* Reserved and used margin together never exceed the cash, when orders execute
\* no dearer than they were margined: check_and_reserve_pair's check holds up
\* under every order of dispatches, fills, rejections and unwinds.
NoOvercommit ==
    (\A k \in Keys : FillMargin(k) <= RequiredMargin(k))
        => AvailableMargin(ledger) >= 0

\* The portfolio's arbitrage position is hedged: a leg is booked only after both
\* were executed, and then both are, in full.  Overwritten groups are exempt,
\* because a leg that takes the slot of a filled one is booked in its stead.
BookedTogether ==
    \A o \in Orders : ledger.used[o] # 0 /\ ~Resubmitted(o[1]) =>
        \A x \in Venues : /\ Executed(o[1], x)
                         /\ ledger.used[SentKey(o[1], x)] = FillMargin(SentKey(o[1], x))

\* What is booked as used is what is booked as position, when no order executes at a
\* margin of zero: no fill is applied to the positions twice, none is lost between
\* the two maps.
PositionsMatchUsed ==
    (\A o \in Orders : FillMargin(o) # 0) =>
        \A s \in Symbols :
            ledger.positions[s] =
                SumFunction([k \in Keys |->
                    IF ledger.used[k] # 0 /\ Sig[k].symbol = s
                    THEN IF Sig[k].buy THEN Sig[k].qty ELSE -Sig[k].qty
                    ELSE 0])

\* A DEX reject that handle_leg_reject has seen.
DexRejected(g) ==
    \/ gw[g]["dex"] = "refused" /\ ack[g]["dex"] = "handled"
    \/ gw[g]["dex"] = "revert_reported"

Causes(g) ==
    (IF monitor[g] = "fired" THEN 1 ELSE 0) + (IF DexRejected(g) THEN 1 ELSE 0)

\* No reverse order without an executed CEX leg, and each for a reason of its own:
\* at most one for the risk window and one for the DEX reject, so never more than
\* two.  What is reversed is the order that was executed, or one submitted later
\* that has taken its slot.
ReverseJustified(g) ==
    /\ reversals[g] # << >> => Executed(g, "cex")
    /\ Len(reversals[g]) <= Causes(g)
    /\ \A i \in DOMAIN reversals[g] :
          reversals[g][i] \in copied[g]["cex"] .. submitted[g]["cex"]

ReversesJustified == \A g \in Groups : ReverseJustified(g)

\* COMPLETED is earned: both legs were executed, or a reverse order was accepted.
CompletedEarned(g) ==
    pairStatus[g] = "COMPLETED" =>
        \/ \A x \in Venues : Executed(g, x)
        \/ unwound[g] > 0

CompletedIsEarned == \A g \in Groups : CompletedEarned(g)

\* A pair completed by its two fills stays completed: neither the risk-window
\* monitor nor a late acknowledgement or leg touches it any more.
HedgedStaysCompleted ==
    [][\A g \in Groups :
          pairStatus[g] = "COMPLETED" /\ unwound[g] = 0 => pairStatus'[g] = "COMPLETED"]_vars

\* The promise of ArbPromise, read off the pair.
Fate(g) ==
    CASE pairStatus[g] \in {"NONE", "ASSEMBLING"} -> "open"
      [] pairStatus[g] = "FAILED" /\ ~Dispatched(g) -> "void"
      [] pairStatus[g] \in InFlight -> "live"
      [] pairStatus[g] = "COMPLETED" /\ unwound[g] = 0 -> "hedged"
      [] OTHER -> "broken"

Promise == INSTANCE ArbPromise WITH
    fate <- [g \in Groups |-> Fate(g)],
    executed <- {l \in Groups \X Venues : Executed(l[1], l[2])},
    reversed <- unwound

\* Every step of the coordinator is a step of the promise or leaves it alone: a
\* group the deadline or the margin check failed never reaches an exchange, even
\* when a late leg or an overtaken thread comes to dispatch_pair; no group is
\* dispatched twice; a hedged one is final; reverse orders go out only for a
\* broken one whose CEX leg was executed.
PromiseKept == Promise!Spec

\* Nothing is left to happen to the group.
Quiet(g) ==
    /\ callers[g] = 0 /\ sender[g] \in {"idle", "done"}
    /\ \A x \in Venues : /\ gw[g][x] \notin {"sending", "working", "filled", "reverted"}
                        /\ ack[g][x] \notin {"ok", "fail"}
    /\ deadline[g] # "armed" /\ monitor[g] # "armed"
    /\ unwinds[g] = [queued |-> 0, accepted |-> 0, refused |-> 0]

\* When nothing is left to happen to a pair, its margin has become used or has come
\* back, whatever failed and in whatever order, but for one case: the margin of a
\* DEX leg that was filled before the CEX order was refused is reserved for ever.
\* Pairs with a leg that came twice are exempt, as are venues without a gateway.
MarginComesBack ==
    \A g \in Groups : Quiet(g) /\ ~Resubmitted(g) =>
        \A o \in Orders : o[1] = g /\ ledger.reserved[o] # 0 =>
            /\ o[2] = "dex" /\ Executed(g, "dex")
            /\ gw[g]["cex"] \in {"refused", "revert_reported"}

Settled(g) == pairStatus[g] \in {"COMPLETED", "FAILED"}

\* A lone leg does not wait for ever, and a full pair is not forgotten between
\* the deadline and the dispatch.
AssemblyEnds ==
    \A g \in Groups : pairStatus[g] = "ASSEMBLING" ~> pairStatus[g] # "ASSEMBLING"

\* If the venues answer every order, every pair settles and remains settled, unless
\* a leg came twice: the report of the overwritten leg's order matches nothing, and
\* a pair may wait for it for ever.
PairSettles ==
    \A g \in Groups : pairStatus[g] # "NONE" ~> (Resubmitted(g) \/ []Settled(g))

-----------------------------------------------------------------------------
(* What the documents say and the code does not do; each has a run that    *)
(* shows how it comes about.                                               *)

\* claude_code_prompt_v2.md:285-287: a DEX reject while the CEX leg is filled
\* starts an unwind.  Said here for a pair whose fill has been handled.
DexRejectUnwinds ==
    [][\A g \in Groups :
          /\ pairStatus[g] = "CEX_FILLED"
          /\ legStatus'[g]["dex"] = "REJECTED"
          => pairStatus'[g] = "UNWINDING"]_vars

\* claude_code_prompt_v2.md:285-289: the DEX leg rejected or timed out while the CEX
\* leg is filled, the reverse of the CEX order is sent and the pair completed.  So
\* an executed CEX order is reversed once, and no other order is.
ReversalsOwed(g, n) == IF n = copied[g]["cex"] /\ Executed(g, "cex") THEN 1 ELSE 0

ReversedOnce ==
    \A g \in Groups : \A n \in 1 .. MaxSubmits :
        Cardinality({i \in DOMAIN reversals[g] : reversals[g][i] = n}) <= ReversalsOwed(g, n)

=============================================================================
