---------------------------- MODULE OrderManager ----------------------------
(***************************************************************************)
(* The single-leg pipeline of src/core/order_manager.h with the tracking   *)
(* of src/core/conflict_resolver.h and the margin ledger.                  *)
(*                                                                         *)
(* Every signal is processed once, by a caller of its own that may be held *)
(* up between any two critical sections; its order has the signal's key.   *)
(* An order that goes out gets a dispatch thread, which waits for          *)
(* send_order's future, and a fill thread of the gateway, which calls      *)
(* on_fill.  The sections of orders_mutex_ that call the ledger and the    *)
(* resolver under their own locks are single actions: each of those calls  *)
(* concerns this order only.                                               *)
(*                                                                         *)
(* The manager cancels nothing: check cancels a conflicting order only by  *)
(* its exchange id, and CheckCancelsNothing is why that loop has no action *)
(* here.                                                                   *)
(***************************************************************************)
EXTENDS PortfolioGuard, SignalReceiver

CONSTANTS
    Received,        \* Keys -> the signal as the receiver sees it
    Venue,           \* Keys -> "cex" or "dex", the exchange type of the order
    Routed,          \* orders whose exchange has a gateway
    FillPrice,       \* Keys -> price the exchange executes the order at
    Refusing,        \* venues that may answer send_order with success = false
    Reverting,       \* venues that may report a reject through the fill feed
    Answering        \* venues that answer every order in the end (fairness only)

Venues == {"cex", "dex"}

ASSUME ManagerAssumption ==
    /\ Received \in [Keys -> ReceivedSignals]
    /\ Venue \in [Keys -> Venues]
    /\ Routed \subseteq Keys
    /\ FillPrice \in [Keys -> Nat]
    /\ Refusing \subseteq Venues
    /\ Reverting \subseteq Venues
    /\ Answering \subseteq Venues

Statuses == {"NONE", "SENT", "ACKNOWLEDGED", "TX_PENDING", "FILLED", "REJECTED"}

Terminal == {"FILLED", "REJECTED"}

Active == {"SENT", "TX_PENDING", "ACKNOWLEDGED"}

Steps == {"new", "valid", "checked", "reserved", "stored", "registered", "unrouted",
          "returned"}

GatewayStates == {"idle", "sending", "working", "refused",
                  "filled", "fill_reported", "reverted", "revert_reported"}

VARIABLES
    call,            \* Keys -> where process_signal is with the signal
    status,          \* Keys -> status of the order in orders_, "NONE" if not there
    known,           \* orders whose exchange_order_id has been stored
    tracked,         \* Keys -> the resolver's entry, of status "NONE" if not there
    gw,              \* Keys -> where the order is at its gateway
    ack,             \* Keys -> the send_order future of the order
    ledger           \* the PortfolioGuard

vars == <<call, status, known, tracked, gw, ack, ledger>>

Entries == [status : Statuses, hasId : BOOLEAN]

TypeOK ==
    /\ call \in [Keys -> Steps]
    /\ status \in [Keys -> Statuses]
    /\ known \subseteq Keys
    /\ tracked \in [Keys -> Entries]
    /\ gw \in [Keys -> GatewayStates]
    /\ ack \in [Keys -> {"none", "ok", "fail", "handled"}]
    /\ ledger \in Ledgers

Init ==
    /\ call = [o \in Keys |-> "new"]
    /\ status = [o \in Keys |-> "NONE"]
    /\ known = {}
    /\ tracked = [o \in Keys |-> [status |-> "NONE", hasId |-> FALSE]]
    /\ gw = [o \in Keys |-> "idle"]
    /\ ack = [o \in Keys |-> "none"]
    /\ ledger = EmptyLedger

Goes(o, from, to) ==
    /\ call[o] = from
    /\ call' = [call EXCEPT ![o] = to]

-----------------------------------------------------------------------------
(* process_signal and process_single_leg.                                  *)

Admitted(o) == Valid(Received[o], Sig[o].qty, Sig[o].options)

Validate(o) ==
    /\ Admitted(o)
    /\ Goes(o, "new", "valid")
    /\ UNCHANGED <<status, known, tracked, gw, ack, ledger>>

\* No order is made of an invalid signal.
RejectInvalid(o) ==
    /\ ~Admitted(o)
    /\ Goes(o, "new", "returned")
    /\ UNCHANGED <<status, known, tracked, gw, ack, ledger>>

Conflicts(o) ==
    {p \in Keys : /\ tracked[p].status \in Active
                  /\ Sig[p].symbol = Sig[o].symbol
                  /\ Sig[p].buy # Sig[o].buy}

\* The conflicts that CANCEL_AND_REPLACE would cancel before it lets o pass.
Cancellable(o) == {p \in Conflicts(o) : tracked[p].hasId}

Check(o) ==
    /\ Goes(o, "valid", "checked")
    /\ Cancellable(o) = {}
    /\ UNCHANGED <<status, known, tracked, gw, ack, ledger>>

ReserveMargin(o) ==
    /\ Goes(o, "checked", "reserved")
    /\ Affordable(ledger, o)
    /\ ledger' = Reserve(ledger, o)
    /\ UNCHANGED <<status, known, tracked, gw, ack>>

\* Mutant of RejectUnaffordable: the order is stored with the status it was made with.
RejectUnaffordableSilently(o) ==
    /\ Goes(o, "checked", "returned")
    /\ ~Affordable(ledger, o)
    /\ status' = [status EXCEPT ![o] = "CREATED"]
    /\ UNCHANGED <<known, tracked, gw, ack, ledger>>

RejectUnaffordable(o) ==
    /\ Goes(o, "checked", "returned")
    /\ ~Affordable(ledger, o)
    /\ status' = [status EXCEPT ![o] = "REJECTED"]
    /\ UNCHANGED <<known, tracked, gw, ack, ledger>>

StoreOrder(o) ==
    /\ Goes(o, "reserved", "stored")
    /\ status' = [status EXCEPT ![o] = "SENT"]
    /\ UNCHANGED <<known, tracked, gw, ack, ledger>>

\* register_order copies the exchange id the order has by now.
RegisterOrder(o) ==
    /\ Goes(o, "stored", "registered")
    /\ tracked' = [tracked EXCEPT ![o] = [status |-> "SENT", hasId |-> o \in known]]
    /\ UNCHANGED <<status, known, gw, ack, ledger>>

\* Mutant of DispatchOrder: the order is stored with its exchange id before it is sent.
DispatchOrderKnown(o) ==
    /\ o \in Routed
    /\ Goes(o, "registered", "returned")
    /\ gw' = [gw EXCEPT ![o] = "sending"]
    /\ known' = known \cup {o}
    /\ UNCHANGED <<status, tracked, ack, ledger>>

DispatchOrder(o) ==
    /\ o \in Routed
    /\ Goes(o, "registered", "returned")
    /\ gw' = [gw EXCEPT ![o] = "sending"]
    /\ UNCHANGED <<status, known, tracked, ack, ledger>>

RejectUnrouted(o) ==
    /\ o \notin Routed
    /\ Goes(o, "registered", "unrouted")
    /\ status' = [status EXCEPT ![o] = "REJECTED"]
    /\ UNCHANGED <<known, tracked, gw, ack, ledger>>

ReleaseUnrouted(o) ==
    /\ Goes(o, "unrouted", "returned")
    /\ ledger' = Release(ledger, o)
    /\ UNCHANGED <<status, known, tracked, gw, ack>>

-----------------------------------------------------------------------------
(* The gateway: an answer to send_order, and a report of what became of an *)
(* accepted order, each on a thread of its own.                            *)

GatewayAccepts(o) ==
    /\ gw[o] = "sending"
    /\ gw' = [gw EXCEPT ![o] = "working"]
    /\ ack' = [ack EXCEPT ![o] = "ok"]
    /\ UNCHANGED <<call, status, known, tracked, ledger>>

GatewayRefuses(o) ==
    /\ Venue[o] \in Refusing
    /\ gw[o] = "sending"
    /\ gw' = [gw EXCEPT ![o] = "refused"]
    /\ ack' = [ack EXCEPT ![o] = "fail"]
    /\ UNCHANGED <<call, status, known, tracked, ledger>>

GatewayFills(o) ==
    /\ gw[o] = "working"
    /\ gw' = [gw EXCEPT ![o] = "filled"]
    /\ UNCHANGED <<call, status, known, tracked, ack, ledger>>

GatewayReverts(o) ==
    /\ Venue[o] \in Reverting
    /\ gw[o] = "working"
    /\ gw' = [gw EXCEPT ![o] = "reverted"]
    /\ UNCHANGED <<call, status, known, tracked, ack, ledger>>

-----------------------------------------------------------------------------
(* The dispatch thread and on_fill.                                        *)

\* The resolver keeps the entry of an order that has ended.
UpdateStatus(o, s) == tracked' = [tracked EXCEPT ![o].status = s]

AckArrives(o) ==
    /\ ack[o] = "ok"
    /\ ack' = [ack EXCEPT ![o] = "handled"]
    /\ known' = known \cup {o}
    /\ status' = [status EXCEPT
           ![o] = IF Venue[o] = "dex" THEN "TX_PENDING" ELSE "ACKNOWLEDGED"]
    /\ UNCHANGED <<call, tracked, gw, ledger>>

\* Mutant of RefusalArrives: the margin is not released.
RefusalArrivesKeeping(o) ==
    /\ ack[o] = "fail"
    /\ ack' = [ack EXCEPT ![o] = "handled"]
    /\ known' = known \ {o}
    /\ status' = [status EXCEPT ![o] = "REJECTED"]
    /\ UpdateStatus(o, "REJECTED")
    /\ UNCHANGED <<call, gw, ledger>>

RefusalArrives(o) ==
    /\ ack[o] = "fail"
    /\ ack' = [ack EXCEPT ![o] = "handled"]
    /\ known' = known \ {o}
    /\ status' = [status EXCEPT ![o] = "REJECTED"]
    /\ UpdateStatus(o, "REJECTED")
    /\ ledger' = Release(ledger, o)
    /\ UNCHANGED <<call, gw>>

\* on_fill finds the order by the exchange id the dispatch thread has stored.
FillArrives(o) ==
    /\ gw[o] = "filled"
    /\ gw' = [gw EXCEPT ![o] = "fill_reported"]
    /\ o \in known
    /\ status' = [status EXCEPT ![o] = "FILLED"]
    /\ UpdateStatus(o, "FILLED")
    /\ ledger' = BookFill(ledger, o, Sig[o].qty, FillPrice[o])
    /\ UNCHANGED <<call, known, ack>>

\* Mutant of RevertArrives: the margin is released and the order left as it was.
RevertArrivesReleasing(o) ==
    /\ gw[o] = "reverted"
    /\ gw' = [gw EXCEPT ![o] = "revert_reported"]
    /\ o \in known
    /\ ledger' = Release(ledger, o)
    /\ UNCHANGED <<call, status, known, tracked, ack>>

\* The resolver is not told of a reverted order.
RevertArrives(o) ==
    /\ gw[o] = "reverted"
    /\ gw' = [gw EXCEPT ![o] = "revert_reported"]
    /\ o \in known
    /\ status' = [status EXCEPT ![o] = "REJECTED"]
    /\ ledger' = Release(ledger, o)
    /\ UNCHANGED <<call, known, tracked, ack>>

\* A report that comes before the id was stored matches no order.
UnmatchedReport(o) ==
    /\ o \notin known
    /\ \/ /\ gw[o] = "filled"
          /\ gw' = [gw EXCEPT ![o] = "fill_reported"]
       \/ /\ gw[o] = "reverted"
          /\ gw' = [gw EXCEPT ![o] = "revert_reported"]
    /\ UNCHANGED <<call, status, known, tracked, ack, ledger>>

-----------------------------------------------------------------------------

CallStep(o) ==
    \/ Validate(o) \/ RejectInvalid(o)
    \/ Check(o)
    \/ ReserveMargin(o) \/ RejectUnaffordable(o)
    \/ StoreOrder(o)
    \/ RegisterOrder(o)
    \/ DispatchOrder(o) \/ RejectUnrouted(o)
    \/ ReleaseUnrouted(o)

AnswerStep(o) == GatewayAccepts(o) \/ GatewayRefuses(o)

OutcomeStep(o) == GatewayFills(o) \/ GatewayReverts(o)

FutureStep(o) == AckArrives(o) \/ RefusalArrives(o)

ReportStep(o) == FillArrives(o) \/ RevertArrives(o) \/ UnmatchedReport(o)

OrderStep(o) ==
    CallStep(o) \/ AnswerStep(o) \/ OutcomeStep(o) \/ FutureStep(o) \/ ReportStep(o)

Next == \E o \in Keys : OrderStep(o)

Spec == Init /\ [][Next]_vars

\* Threads are scheduled; whether an accepted order is answered is up to the venue.
Fairness ==
    \A o \in Keys :
        /\ WF_vars(CallStep(o) /\ call[o] # "new")
        /\ WF_vars(AnswerStep(o))
        /\ WF_vars(FutureStep(o))
        /\ WF_vars(ReportStep(o))
        /\ Venue[o] \in Answering => WF_vars(OutcomeStep(o))

FairSpec == Spec /\ Fairness

-----------------------------------------------------------------------------
(* What is checked or proved.                                              *)

FillMargin(o) == Margin(o, Sig[o].qty, FillPrice[o])

Holding(o) ==
    \/ call[o] \in {"reserved", "stored", "registered", "unrouted"}
    \/ status[o] \in Active

\* The ledger follows each order: from the reservation to the end of the order its
\* whole margin is reserved, a filled order's margin is used and no longer
\* reserved, and of a rejected one nothing is left.
LedgerFollows(o) ==
    /\ ledger.reserved[o] = IF Holding(o) THEN RequiredMargin(o) ELSE 0
    /\ ledger.used[o] = IF status[o] = "FILLED" THEN FillMargin(o) ELSE 0

LedgerFollowsOrders == \A o \in Keys : LedgerFollows(o)

\* A signal is acceptable when it is complete and less than a whole millisecond over
\* its limit: the age is cut to milliseconds before it is compared.
Acceptable(o) ==
    LET r == Received[o]
    IN  /\ Complete(r, Sig[o].qty, Sig[o].options)
        /\ r.age < 1000 * (Threshold(r) + 1)

\* A call that has returned has an order to show for an acceptable signal, and nothing
\* of an unacceptable one is ever stored, reserved, tracked or sent.
IntakeIsExact ==
    \A o \in Keys :
        IF Acceptable(o)
        THEN call[o] = "returned" => status[o] # "NONE"
        ELSE /\ status[o] = "NONE" /\ gw[o] = "idle"
             /\ ledger.reserved[o] = 0 /\ tracked[o].status = "NONE"

\* Signals that are checked one by one never commit more than the cash together,
\* when orders execute no dearer than they were margined.
Solvent ==
    (\A o \in Keys : FillMargin(o) <= RequiredMargin(o)) => AvailableMargin(ledger) >= 0

\* The position in a symbol is that of its filled orders: no fill is booked twice
\* and none by an order that did not end FILLED.
PositionsAreFills ==
    \A s \in Symbols :
        ledger.positions[s] =
            SumFunction([o \in Keys |->
                IF status[o] = "FILLED" /\ Sig[o].symbol = s
                THEN IF Sig[o].buy THEN Sig[o].qty ELSE -Sig[o].qty
                ELSE 0])

\* No order the conflict check comes upon can be cancelled: they are registered
\* before they have an exchange id, and the entry is never given one.  The check
\* lets every signal pass, which is not what it is for: see ConflictIsCancelled.
CheckCancelsNothing == \A o \in Keys : Cancellable(o) = {}

\* An order that has ended stays as it ended: unlike in the coordinator, no late
\* acknowledgement overwrites a fill, and no report meets a refused order.
TerminalIsFinal ==
    [][\A o \in Keys : status[o] \in Terminal => status'[o] = status[o]]_vars

\* An order whose acknowledgement was handled before its outcome comes to an end.
AcknowledgedOrderEnds ==
    \A o \in Keys : (o \in known /\ gw[o] = "working") ~> status[o] \in Terminal

-----------------------------------------------------------------------------
(* What the documents say and the code does not do.                        *)

\* claude_code_prompt_v2.md:213-216: a fill callback updates the order.
FillIsRecorded ==
    \A o \in Keys : gw[o] = "fill_reported" => status[o] = "FILLED"

\* claude_code_prompt_v2.md:226-229 and :414, test_conflict_resolver.cpp:62: a signal
\* against orders in flight proceeds when they are cancelled, so that once it has
\* passed the check none of them, not even of those whose exchange id the manager
\* has stored, is still working at its exchange.
ConflictIsCancelled ==
    [][\A o \in Keys :
           (call[o] = "valid" /\ call'[o] = "checked") =>
               \A p \in Conflicts(o) \cap known : gw'[p] # "working"]_vars

=============================================================================
