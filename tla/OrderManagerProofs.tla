------------------------- MODULE OrderManagerProofs -------------------------
(***************************************************************************)
(* Theorems about the single-leg pipeline, for every set of orders,        *)
(* exchanges, prices and gateways and every initial cash.                  *)
(***************************************************************************)
EXTENDS OrderManager, PortfolioGuardProofs, TLAPS

-----------------------------------------------------------------------------
(* The inductive invariant.                                                *)

\* The status follows the call until the order is out.
CallGivesStatus(o) ==
    /\ call[o] \in {"new", "valid", "checked", "reserved"} => status[o] = "NONE"
    /\ call[o] \in {"stored", "registered"} => status[o] = "SENT"
    /\ call[o] = "unrouted" => status[o] = "REJECTED"
    /\ call[o] = "returned" /\ gw[o] = "idle" =>
           status[o] = IF Admitted(o) THEN "REJECTED" ELSE "NONE"
    /\ call[o] \notin {"new", "returned"} \/ gw[o] # "idle" => Admitted(o)

\* The gateway has an order only from a call that has returned, and answers it first.
AnswerGivesGateway(o) ==
    /\ gw[o] # "idle" => call[o] = "returned" /\ status[o] # "NONE"
    /\ ack[o] = "none" <=> gw[o] \in {"idle", "sending"}
    /\ ack[o] = "fail" => gw[o] = "refused"
    /\ ack[o] = "ok" => gw[o] # "refused"

\* Until its future is handled an order that is out stays SENT and has no exchange id.
UnhandledIsSent(o) ==
    /\ gw[o] # "idle" /\ ack[o] # "handled" => status[o] = "SENT"
    /\ o \in known => ack[o] = "handled"

\* Once it is, the order is REJECTED, or in flight under its id as long as the
\* gateway has not reported.
HandledIsKnown(o) ==
    ack[o] = "handled" =>
        /\ gw[o] = "refused" => status[o] = "REJECTED" /\ o \notin known
        /\ gw[o] \in {"working", "filled", "reverted"} =>
               status[o] \in {"ACKNOWLEDGED", "TX_PENDING"} /\ o \in known

OrderInv(o) ==
    /\ CallGivesStatus(o)
    /\ AnswerGivesGateway(o)
    /\ UnhandledIsSent(o)
    /\ HandledIsKnown(o)
    /\ LedgerFollows(o)
    /\ ~tracked[o].hasId
    /\ tracked[o].status # "NONE" => Admitted(o)

IInv == TypeOK /\ \A o \in Keys : OrderInv(o)

-----------------------------------------------------------------------------
(* Orders are independent: a step about one leaves the others' part of the *)
(* invariant alone.                                                        *)

SameEntry(l, m, p) == m.reserved[p] = l.reserved[p] /\ m.used[p] = l.used[p]

Frame(p) ==
    /\ call'[p] = call[p] /\ status'[p] = status[p] /\ (p \in known' <=> p \in known)
    /\ tracked'[p] = tracked[p] /\ gw'[p] = gw[p] /\ ack'[p] = ack[p]
    /\ SameEntry(ledger, ledger', p)

\* What a step about o has to establish.
StepKeeps(o) == TypeOK' /\ OrderInv(o)' /\ \A p \in Keys \ {o} : Frame(p)

LEMMA FrameKeepsOrder ==
    ASSUME NEW p \in Keys, OrderInv(p), Frame(p)
    PROVE  OrderInv(p)'
BY DEF OrderInv, Frame, SameEntry, CallGivesStatus, AnswerGivesGateway, UnhandledIsSent,
       HandledIsKnown, LedgerFollows, Holding, FillMargin, RequiredMargin

LEMMA OrderStepKeepsInv ==
    ASSUME IInv, NEW o \in Keys, StepKeeps(o)
    PROVE  IInv'
<1>1. \A p \in Keys \ {o} : OrderInv(p)'
  BY FrameKeepsOrder DEF IInv, StepKeeps
<1> QED
  BY <1>1 DEF IInv, StepKeeps

-----------------------------------------------------------------------------
(* Steps that leave the ledger alone.                                      *)

LEMMA ValidateStep ==
    ASSUME IInv, NEW o \in Keys, Validate(o) PROVE StepKeeps(o)
<1> USE DEF IInv, OrderInv
<1>1. TypeOK'
  BY DEF Validate, Goes, TypeOK, Steps
<1>2. OrderInv(o)'
  BY DEF Validate, Goes, TypeOK, CallGivesStatus, AnswerGivesGateway, UnhandledIsSent,
         HandledIsKnown, LedgerFollows, Holding, Active, FillMargin, RequiredMargin
<1>3. \A p \in Keys \ {o} : Frame(p)
  BY DEF Validate, Goes, TypeOK, Frame, SameEntry
<1> QED
  BY <1>1, <1>2, <1>3 DEF StepKeeps

LEMMA RejectInvalidStep ==
    ASSUME IInv, NEW o \in Keys, RejectInvalid(o) PROVE StepKeeps(o)
<1> USE DEF IInv, OrderInv
<1>1. TypeOK'
  BY DEF RejectInvalid, Goes, TypeOK, Steps
<1>2. OrderInv(o)'
  BY DEF RejectInvalid, Goes, TypeOK, CallGivesStatus, AnswerGivesGateway, UnhandledIsSent,
         HandledIsKnown, LedgerFollows, Holding, Active, FillMargin, RequiredMargin
<1>3. \A p \in Keys \ {o} : Frame(p)
  BY DEF RejectInvalid, Goes, TypeOK, Frame, SameEntry
<1> QED
  BY <1>1, <1>2, <1>3 DEF StepKeeps

LEMMA CheckStep ==
    ASSUME IInv, NEW o \in Keys, Check(o) PROVE StepKeeps(o)
<1> USE DEF IInv, OrderInv
<1>1. TypeOK'
  BY DEF Check, Goes, TypeOK, Steps
<1>2. OrderInv(o)'
  BY DEF Check, Goes, TypeOK, CallGivesStatus, AnswerGivesGateway, UnhandledIsSent,
         HandledIsKnown, LedgerFollows, Holding, FillMargin, RequiredMargin
<1>3. \A p \in Keys \ {o} : Frame(p)
  BY DEF Check, Goes, TypeOK, Frame, SameEntry
<1> QED
  BY <1>1, <1>2, <1>3 DEF StepKeeps

LEMMA RejectUnaffordableStep ==
    ASSUME IInv, NEW o \in Keys, RejectUnaffordable(o) PROVE StepKeeps(o)
<1> USE DEF IInv, OrderInv
<1>1. TypeOK'
  BY DEF RejectUnaffordable, Goes, TypeOK, Steps, Statuses
<1>2. OrderInv(o)'
  BY DEF RejectUnaffordable, Goes, TypeOK, CallGivesStatus, AnswerGivesGateway,
         UnhandledIsSent,
         HandledIsKnown, LedgerFollows, Holding, Active, FillMargin, RequiredMargin
<1>3. \A p \in Keys \ {o} : Frame(p)
  BY DEF RejectUnaffordable, Goes, TypeOK, Frame, SameEntry
<1> QED
  BY <1>1, <1>2, <1>3 DEF StepKeeps

LEMMA StoreOrderStep ==
    ASSUME IInv, NEW o \in Keys, StoreOrder(o) PROVE StepKeeps(o)
<1> USE DEF IInv, OrderInv
<1>1. TypeOK'
  BY DEF StoreOrder, Goes, TypeOK, Steps, Statuses
<1>2. OrderInv(o)'
  BY DEF StoreOrder, Goes, TypeOK, CallGivesStatus, AnswerGivesGateway, UnhandledIsSent,
         HandledIsKnown, LedgerFollows, Holding, Active, FillMargin, RequiredMargin
<1>3. \A p \in Keys \ {o} : Frame(p)
  BY DEF StoreOrder, Goes, TypeOK, Frame, SameEntry
<1> QED
  BY <1>1, <1>2, <1>3 DEF StepKeeps

LEMMA RegisterOrderStep ==
    ASSUME IInv, NEW o \in Keys, RegisterOrder(o) PROVE StepKeeps(o)
<1> USE DEF IInv, OrderInv
<1>1. TypeOK'
  BY DEF RegisterOrder, Goes, TypeOK, Steps, Statuses, Entries
<1>2. OrderInv(o)'
  BY DEF RegisterOrder, Goes, TypeOK, CallGivesStatus, AnswerGivesGateway,
       UnhandledIsSent,
         HandledIsKnown, LedgerFollows, Holding, FillMargin, RequiredMargin
<1>3. \A p \in Keys \ {o} : Frame(p)
  BY DEF RegisterOrder, Goes, TypeOK, Frame, SameEntry
<1> QED
  BY <1>1, <1>2, <1>3 DEF StepKeeps

LEMMA DispatchOrderStep ==
    ASSUME IInv, NEW o \in Keys, DispatchOrder(o) PROVE StepKeeps(o)
<1> USE DEF IInv, OrderInv
<1>1. TypeOK'
  BY DEF DispatchOrder, Goes, TypeOK, Steps, GatewayStates
<1>2. OrderInv(o)'
  BY DEF DispatchOrder, Goes, TypeOK, CallGivesStatus, AnswerGivesGateway,
       UnhandledIsSent,
         HandledIsKnown, LedgerFollows, Holding, Active, FillMargin, RequiredMargin
<1>3. \A p \in Keys \ {o} : Frame(p)
  BY DEF DispatchOrder, Goes, TypeOK, Frame, SameEntry
<1> QED
  BY <1>1, <1>2, <1>3 DEF StepKeeps

LEMMA RejectUnroutedStep ==
    ASSUME IInv, NEW o \in Keys, RejectUnrouted(o) PROVE StepKeeps(o)
<1> USE DEF IInv, OrderInv
<1>1. TypeOK'
  BY DEF RejectUnrouted, Goes, TypeOK, Steps, Statuses
<1>2. OrderInv(o)'
  BY DEF RejectUnrouted, Goes, TypeOK, CallGivesStatus, AnswerGivesGateway,
       UnhandledIsSent,
         HandledIsKnown, LedgerFollows, Holding, Active, FillMargin, RequiredMargin
<1>3. \A p \in Keys \ {o} : Frame(p)
  BY DEF RejectUnrouted, Goes, TypeOK, Frame, SameEntry
<1> QED
  BY <1>1, <1>2, <1>3 DEF StepKeeps

LEMMA GatewayAcceptsStep ==
    ASSUME IInv, NEW o \in Keys, GatewayAccepts(o) PROVE StepKeeps(o)
<1> USE DEF IInv, OrderInv
<1>1. TypeOK'
  BY DEF GatewayAccepts, TypeOK, GatewayStates
<1>2. OrderInv(o)'
  BY DEF GatewayAccepts, TypeOK, CallGivesStatus, AnswerGivesGateway, UnhandledIsSent,
         HandledIsKnown, LedgerFollows, Holding, FillMargin, RequiredMargin
<1>3. \A p \in Keys \ {o} : Frame(p)
  BY DEF GatewayAccepts, TypeOK, Frame, SameEntry
<1> QED
  BY <1>1, <1>2, <1>3 DEF StepKeeps

LEMMA GatewayRefusesStep ==
    ASSUME IInv, NEW o \in Keys, GatewayRefuses(o) PROVE StepKeeps(o)
<1> USE DEF IInv, OrderInv
<1>1. TypeOK'
  BY DEF GatewayRefuses, TypeOK, GatewayStates
<1>2. OrderInv(o)'
  BY DEF GatewayRefuses, TypeOK, CallGivesStatus, AnswerGivesGateway, UnhandledIsSent,
         HandledIsKnown, LedgerFollows, Holding, FillMargin, RequiredMargin
<1>3. \A p \in Keys \ {o} : Frame(p)
  BY DEF GatewayRefuses, TypeOK, Frame, SameEntry
<1> QED
  BY <1>1, <1>2, <1>3 DEF StepKeeps

LEMMA GatewayFillsStep ==
    ASSUME IInv, NEW o \in Keys, GatewayFills(o) PROVE StepKeeps(o)
<1> USE DEF IInv, OrderInv
<1>1. TypeOK'
  BY DEF GatewayFills, TypeOK, GatewayStates
<1>2. OrderInv(o)'
  BY DEF GatewayFills, TypeOK, CallGivesStatus, AnswerGivesGateway, UnhandledIsSent,
         HandledIsKnown, LedgerFollows, Holding, FillMargin, RequiredMargin
<1>3. \A p \in Keys \ {o} : Frame(p)
  BY DEF GatewayFills, TypeOK, Frame, SameEntry
<1> QED
  BY <1>1, <1>2, <1>3 DEF StepKeeps

LEMMA GatewayRevertsStep ==
    ASSUME IInv, NEW o \in Keys, GatewayReverts(o) PROVE StepKeeps(o)
<1> USE DEF IInv, OrderInv
<1>1. TypeOK'
  BY DEF GatewayReverts, TypeOK, GatewayStates
<1>2. OrderInv(o)'
  BY DEF GatewayReverts, TypeOK, CallGivesStatus, AnswerGivesGateway, UnhandledIsSent,
         HandledIsKnown, LedgerFollows, Holding, FillMargin, RequiredMargin
<1>3. \A p \in Keys \ {o} : Frame(p)
  BY DEF GatewayReverts, TypeOK, Frame, SameEntry
<1> QED
  BY <1>1, <1>2, <1>3 DEF StepKeeps

LEMMA AckArrivesStep ==
    ASSUME IInv, NEW o \in Keys, AckArrives(o) PROVE StepKeeps(o)
<1> USE DEF IInv, OrderInv
<1>1. TypeOK'
  BY DEF AckArrives, TypeOK, Statuses
<1>2. OrderInv(o)'
  BY DEF AckArrives, TypeOK, CallGivesStatus, AnswerGivesGateway, UnhandledIsSent,
         HandledIsKnown, LedgerFollows, Holding, Active, FillMargin, RequiredMargin
<1>3. \A p \in Keys \ {o} : Frame(p)
  BY DEF AckArrives, TypeOK, Frame, SameEntry
<1> QED
  BY <1>1, <1>2, <1>3 DEF StepKeeps

LEMMA UnmatchedReportStep ==
    ASSUME IInv, NEW o \in Keys, UnmatchedReport(o) PROVE StepKeeps(o)
<1> USE DEF IInv, OrderInv
<1>1. TypeOK'
  BY DEF UnmatchedReport, TypeOK, GatewayStates
<1>2. OrderInv(o)'
  BY DEF UnmatchedReport, TypeOK, CallGivesStatus, AnswerGivesGateway, UnhandledIsSent,
         HandledIsKnown, LedgerFollows, Holding, FillMargin, RequiredMargin
<1>3. \A p \in Keys \ {o} : Frame(p)
  BY DEF UnmatchedReport, TypeOK, Frame, SameEntry
<1> QED
  BY <1>1, <1>2, <1>3 DEF StepKeeps

-----------------------------------------------------------------------------
(* Steps that reserve, release or book.                                    *)

LEMMA ReserveMarginStep ==
    ASSUME IInv, NEW o \in Keys, ReserveMargin(o) PROVE StepKeeps(o)
<1> USE DEF IInv, OrderInv
<1>1. ledger \in Ledgers
  BY DEF TypeOK
<1>2. /\ ledger' \in Ledgers
      /\ ledger'.reserved[o] = ledger.reserved[o] + RequiredMargin(o)
      /\ ledger'.used = ledger.used
      /\ \A p \in Keys : p # o => ledger'.reserved[p] = ledger.reserved[p]
  BY <1>1, ReserveType DEF ReserveMargin
<1>3. TypeOK'
  BY <1>2 DEF ReserveMargin, Goes, TypeOK, Steps
<1>4. OrderInv(o)'
  BY <1>1, <1>2, RequiredMarginType
     DEF ReserveMargin, Goes, TypeOK, Ledgers, Active,
         CallGivesStatus, AnswerGivesGateway, UnhandledIsSent,
         HandledIsKnown, LedgerFollows, Holding, FillMargin
<1>5. \A p \in Keys \ {o} : Frame(p)
  BY <1>1, <1>2 DEF ReserveMargin, Goes, TypeOK, Ledgers, Frame, SameEntry
<1> QED
  BY <1>3, <1>4, <1>5 DEF StepKeeps

LEMMA ReleaseUnroutedStep ==
    ASSUME IInv, NEW o \in Keys, ReleaseUnrouted(o) PROVE StepKeeps(o)
<1> USE DEF IInv, OrderInv
<1>1. ledger \in Ledgers
  BY DEF TypeOK
<1>2. /\ ledger' \in Ledgers
      /\ ledger'.reserved[o] = 0 /\ ledger'.used = ledger.used
      /\ \A p \in Keys : p # o => ledger'.reserved[p] = ledger.reserved[p]
  BY <1>1, ReleaseType DEF ReleaseUnrouted
<1>3. TypeOK'
  BY <1>2 DEF ReleaseUnrouted, Goes, TypeOK, Steps
<1>4. OrderInv(o)'
  BY <1>1, <1>2 DEF ReleaseUnrouted, Goes, TypeOK, Ledgers, Active,
         CallGivesStatus, AnswerGivesGateway, UnhandledIsSent,
         HandledIsKnown, LedgerFollows, Holding, FillMargin
<1>5. \A p \in Keys \ {o} : Frame(p)
  BY <1>1, <1>2 DEF ReleaseUnrouted, Goes, TypeOK, Ledgers, Frame, SameEntry
<1> QED
  BY <1>3, <1>4, <1>5 DEF StepKeeps

LEMMA RefusalArrivesStep ==
    ASSUME IInv, NEW o \in Keys, RefusalArrives(o) PROVE StepKeeps(o)
<1> USE DEF IInv, OrderInv
<1>1. ledger \in Ledgers
  BY DEF TypeOK
<1>2. /\ ledger' \in Ledgers
      /\ ledger'.reserved[o] = 0 /\ ledger'.used = ledger.used
      /\ \A p \in Keys : p # o => ledger'.reserved[p] = ledger.reserved[p]
  BY <1>1, ReleaseType DEF RefusalArrives
<1>3. TypeOK'
  BY <1>2 DEF RefusalArrives, UpdateStatus, TypeOK, Statuses, Entries
<1>4. OrderInv(o)'
  BY <1>1, <1>2 DEF RefusalArrives, UpdateStatus, TypeOK, Ledgers, Active,
         CallGivesStatus, AnswerGivesGateway, UnhandledIsSent,
         HandledIsKnown, LedgerFollows, Holding, FillMargin
<1>5. \A p \in Keys \ {o} : Frame(p)
  BY <1>1, <1>2 DEF RefusalArrives, UpdateStatus, TypeOK, Ledgers, Frame, SameEntry
<1> QED
  BY <1>3, <1>4, <1>5 DEF StepKeeps

LEMMA RevertArrivesStep ==
    ASSUME IInv, NEW o \in Keys, RevertArrives(o) PROVE StepKeeps(o)
<1> USE DEF IInv, OrderInv
<1>1. ledger \in Ledgers
  BY DEF TypeOK
<1>2. /\ ledger' \in Ledgers
      /\ ledger'.reserved[o] = 0 /\ ledger'.used = ledger.used
      /\ \A p \in Keys : p # o => ledger'.reserved[p] = ledger.reserved[p]
  BY <1>1, ReleaseType DEF RevertArrives
<1>3. TypeOK'
  BY <1>2 DEF RevertArrives, TypeOK, Statuses, GatewayStates
<1>4. OrderInv(o)'
  BY <1>1, <1>2 DEF RevertArrives, TypeOK, Ledgers, Active,
         CallGivesStatus, AnswerGivesGateway, UnhandledIsSent,
         HandledIsKnown, LedgerFollows, Holding, FillMargin
<1>5. \A p \in Keys \ {o} : Frame(p)
  BY <1>1, <1>2 DEF RevertArrives, TypeOK, Ledgers, Frame, SameEntry
<1> QED
  BY <1>3, <1>4, <1>5 DEF StepKeeps

LEMMA FillArrivesStep ==
    ASSUME IInv, NEW o \in Keys, FillArrives(o) PROVE StepKeeps(o)
<1> USE DEF IInv, OrderInv
<1>1. ledger \in Ledgers
  BY DEF TypeOK
<1>2. /\ ledger' \in Ledgers
      /\ ledger'.reserved[o] = 0
      /\ ledger'.used = [ledger.used EXCEPT ![o] = FillMargin(o)]
      /\ \A p \in Keys : p # o => ledger'.reserved[p] = ledger.reserved[p]
  <2>1. Sig[o].qty \in Nat /\ FillPrice[o] \in Nat
    BY GuardAssumption, ManagerAssumption DEF SignalFields
  <2>2. ledger' = BookFill(ledger, o, Sig[o].qty, FillPrice[o])
    BY DEF FillArrives
  <2>3. /\ ledger' \in Ledgers
        /\ \A p \in Keys : p # o => ledger'.reserved[p] = ledger.reserved[p]
    BY <1>1, <2>1, <2>2, BookFillType
  <2>4. ledger'.reserved[o] = 0 /\ ledger'.used = [ledger.used EXCEPT ![o] = FillMargin(o)]
    BY <1>1, <2>2, BookFillEntries DEF FillMargin
  <2> QED
    BY <2>3, <2>4
<1>3. TypeOK'
  BY <1>2 DEF FillArrives, UpdateStatus, TypeOK, Statuses, GatewayStates, Entries
<1>4. OrderInv(o)'
  BY <1>1, <1>2 DEF FillArrives, UpdateStatus, TypeOK, Ledgers, Active,
         CallGivesStatus, AnswerGivesGateway, UnhandledIsSent,
         HandledIsKnown, LedgerFollows, Holding, FillMargin
<1>5. \A p \in Keys \ {o} : Frame(p)
  BY <1>1, <1>2 DEF FillArrives, UpdateStatus, TypeOK, Ledgers, Frame, SameEntry
<1> QED
  BY <1>3, <1>4, <1>5 DEF StepKeeps

-----------------------------------------------------------------------------
(* The invariant and what follows from it.                                 *)

LEMMA InitInv == Init => IInv
<1> SUFFICES ASSUME Init PROVE IInv
  OBVIOUS
<1>1. TypeOK
  BY DEF Init, TypeOK, Steps, Statuses, Entries, GatewayStates, Ledgers, EmptyLedger
<1>2. ASSUME NEW o \in Keys PROVE OrderInv(o)
  BY DEF Init, OrderInv, CallGivesStatus, AnswerGivesGateway, UnhandledIsSent,
         HandledIsKnown, LedgerFollows, Holding, Active, EmptyLedger
<1> QED
  BY <1>1, <1>2 DEF IInv

LEMMA OrderStepInv ==
    ASSUME IInv, NEW o \in Keys, OrderStep(o)
    PROVE  IInv'
<1>1. CASE CallStep(o)
  BY <1>1, OrderStepKeepsInv, ValidateStep, RejectInvalidStep, CheckStep, ReserveMarginStep, RejectUnaffordableStep,
     StoreOrderStep, RegisterOrderStep, DispatchOrderStep, RejectUnroutedStep,
     ReleaseUnroutedStep DEF CallStep
<1>2. CASE AnswerStep(o) \/ OutcomeStep(o)
  BY <1>2, OrderStepKeepsInv, GatewayAcceptsStep, GatewayRefusesStep, GatewayFillsStep,
     GatewayRevertsStep DEF AnswerStep, OutcomeStep
<1>3. CASE FutureStep(o) \/ ReportStep(o)
  BY <1>3, OrderStepKeepsInv, AckArrivesStep, RefusalArrivesStep, FillArrivesStep,
     RevertArrivesStep, UnmatchedReportStep DEF FutureStep, ReportStep
<1> QED
  BY <1>1, <1>2, <1>3 DEF OrderStep

LEMMA StutterInv ==
    ASSUME IInv, UNCHANGED vars
    PROVE  IInv'
<1>1. TypeOK'
  BY DEF IInv, TypeOK, vars
<1>2. \A p \in Keys : Frame(p)
  BY DEF Frame, SameEntry, vars
<1> QED
  BY <1>1, <1>2, FrameKeepsOrder DEF IInv

\* The inductive invariant holds in every reachable state.
THEOREM Invariance == Spec => []IInv
<1>1. IInv /\ [Next]_vars => IInv'
  BY OrderStepInv, StutterInv DEF Next
<1> QED
  BY <1>1, InitInv, PTL DEF Spec

\* Every variable of the pipeline keeps its type; no release or booking takes a
\* margin entry below zero.
THEOREM TypeCorrect == Spec => []TypeOK
<1>1. IInv => TypeOK
  BY DEF IInv
<1> QED
  BY <1>1, Invariance, PTL

\* Cutting the age to milliseconds grants just under one more, to negative ages too.
LEMMA AgeBound ==
    ASSUME NEW age \in Int, NEW t \in Nat
    PROVE  AgeMs(age) <= t <=> age < 1000 * (t + 1)
<1>1. CASE age >= 0
  BY <1>1 DEF AgeMs
<1>2. CASE age < 0
  BY <1>2 DEF AgeMs
<1> QED
  BY <1>1, <1>2

LEMMA AdmittedIsAcceptable ==
    ASSUME NEW o \in Keys PROVE Admitted(o) <=> Acceptable(o)
<1>1. Received[o].age \in Int /\ Threshold(Received[o]) \in Nat
  BY ManagerAssumption, FreshnessAssumption DEF ReceivedSignals, Threshold
<1>2. AgeMs(Received[o].age) <= Threshold(Received[o])
        <=> Received[o].age < 1000 * (Threshold(Received[o]) + 1)
  BY <1>1, AgeBound
<1> QED
  BY <1>2 DEF Admitted, Valid, Fresh, Acceptable

\* Every acceptable signal gets an order, and no other leaves a trace.
THEOREM IntakeExact == Spec => []IntakeIsExact
<1>1. IInv => IntakeIsExact
  <2> SUFFICES ASSUME IInv, NEW o \in Keys
               PROVE  IF Acceptable(o)
                      THEN call[o] = "returned" => status[o] # "NONE"
                      ELSE /\ status[o] = "NONE" /\ gw[o] = "idle"
                           /\ ledger.reserved[o] = 0 /\ tracked[o].status = "NONE"
    BY DEF IntakeIsExact
  <2>1. OrderInv(o) /\ call[o] \in Steps /\ gw[o] \in GatewayStates
        /\ ack[o] \in {"none", "ok", "fail", "handled"}
    BY DEF IInv, TypeOK
  <2>2. CASE Acceptable(o)
    <3>1. Admitted(o)
      BY <2>2, AdmittedIsAcceptable
    <3> QED
      BY <2>1, <2>2, <3>1 DEF OrderInv, CallGivesStatus, AnswerGivesGateway,
         UnhandledIsSent, HandledIsKnown, GatewayStates
  <2>3. CASE ~Acceptable(o)
    <3>1. ~Admitted(o)
      BY <2>3, AdmittedIsAcceptable
    <3>2. call[o] \in {"new", "returned"} /\ gw[o] = "idle" /\ status[o] = "NONE"
      BY <2>1, <3>1 DEF OrderInv, CallGivesStatus
    <3> QED
      BY <2>1, <2>3, <3>1, <3>2 DEF OrderInv, LedgerFollows, Holding, Active
  <2> QED
    BY <2>2, <2>3
<1> QED
  BY <1>1, Invariance, PTL

\* Reserved and used margin follow every order from its reservation to its end.
THEOREM LedgerFollowed == Spec => []LedgerFollowsOrders
<1>1. IInv => LedgerFollowsOrders
  BY DEF IInv, OrderInv, LedgerFollowsOrders
<1> QED
  BY <1>1, Invariance, PTL

\* The cancel loop of the conflict check finds nothing it could cancel.
THEOREM NothingCancelled == Spec => []CheckCancelsNothing
<1>1. IInv => CheckCancelsNothing
  BY DEF IInv, OrderInv, CheckCancelsNothing, Cancellable, Conflicts
<1> QED
  BY <1>1, Invariance, PTL

LEMMA TerminalStep ==
    ASSUME IInv, Next, NEW o \in Keys, status[o] \in Terminal
    PROVE  status'[o] = status[o]
<1>1. PICK p \in Keys : OrderStep(p)
  BY DEF Next
<1>2. OrderInv(p) /\ status \in [Keys -> Statuses]
  BY DEF IInv, TypeOK
<1>3. CASE p # o
  BY <1>1, <1>2, <1>3 DEF OrderStep, CallStep, AnswerStep, OutcomeStep, FutureStep,
     ReportStep, Validate, RejectInvalid, Check, ReserveMargin, RejectUnaffordable, StoreOrder, RegisterOrder,
     DispatchOrder, RejectUnrouted, ReleaseUnrouted, GatewayAccepts, GatewayRefuses,
     GatewayFills, GatewayReverts, AckArrives, RefusalArrives, FillArrives,
     RevertArrives, UnmatchedReport
<1>4. CASE p = o
  <2>1. OrderInv(o) /\ OrderStep(o)
    BY <1>1, <1>2, <1>4
  <2>2. CASE CallStep(o)
    BY <2>1, <2>2 DEF OrderInv, CallGivesStatus, CallStep, Goes, Validate, RejectInvalid, Check, ReserveMargin,
       RejectUnaffordable, StoreOrder, RegisterOrder, DispatchOrder, RejectUnrouted,
       ReleaseUnrouted, Terminal
  <2>3. CASE AnswerStep(o) \/ OutcomeStep(o)
    BY <2>3 DEF AnswerStep, OutcomeStep, GatewayAccepts, GatewayRefuses, GatewayFills,
       GatewayReverts
  <2>4. CASE FutureStep(o)
    BY <2>1, <2>4 DEF OrderInv, AnswerGivesGateway, UnhandledIsSent, FutureStep,
       AckArrives, RefusalArrives, Terminal
  <2>5. CASE ReportStep(o)
    BY <2>1, <2>5 DEF OrderInv, UnhandledIsSent, HandledIsKnown, ReportStep,
       FillArrives, RevertArrives, UnmatchedReport, Terminal
  <2> QED
    BY <2>1, <2>2, <2>3, <2>4, <2>5 DEF OrderStep
<1> QED
  BY <1>3, <1>4

\* An order that was filled or rejected stays so.
THEOREM EndsForGood == Spec => TerminalIsFinal
<1>1. IInv /\ [Next]_vars =>
          [\A o \in Keys : status[o] \in Terminal => status'[o] = status[o]]_vars
  BY TerminalStep
<1> QED
  BY <1>1, Invariance, PTL DEF Spec, TerminalIsFinal

-----------------------------------------------------------------------------
(* The cash.                                                               *)

ExecutedNoDearer == \A o \in Keys : FillMargin(o) <= RequiredMargin(o)

\* Apart from a reservation no step commits more under any key.
LEMMA OthersCommitNoMore ==
    ASSUME IInv, ExecutedNoDearer, NEW o \in Keys, OrderStep(o), ~ReserveMargin(o),
           NEW p \in Keys
    PROVE  ledger'.reserved[p] + ledger'.used[p] <= ledger.reserved[p] + ledger.used[p]
<1>1. ledger \in Ledgers /\ OrderInv(o)
  BY DEF IInv, TypeOK
<1>2. ledger.reserved[p] \in Nat /\ ledger.used[p] \in Nat
  BY <1>1 DEF Ledgers
<1>3. CASE ledger' = ledger
  BY <1>2, <1>3
<1>4. CASE ledger' = Release(ledger, o)
  <2>1. /\ ledger'.used = ledger.used /\ ledger'.reserved[o] = 0
        /\ \A j \in Keys : j # o => ledger'.reserved[j] = ledger.reserved[j]
    BY <1>1, <1>4, ReleaseType
  <2> QED
    BY <1>2, <2>1
<1>5. CASE FillArrives(o)
  <2>1. ledger' = BookFill(ledger, o, Sig[o].qty, FillPrice[o])
    BY <1>5 DEF FillArrives
  <2>2. Sig[o].qty \in Nat /\ FillPrice[o] \in Nat
    BY GuardAssumption, ManagerAssumption DEF SignalFields
  <2>3. /\ \A j \in Keys : j # o => ledger'.reserved[j] = ledger.reserved[j]
        /\ ledger'.reserved[o] = 0
        /\ ledger'.used = [ledger.used EXCEPT ![o] = FillMargin(o)]
    <3>1. ASSUME NEW j \in Keys, j # o
          PROVE  ledger'.reserved[j] = ledger.reserved[j]
      BY <1>1, <2>1, <2>2, <3>1, BookFillType, ZenonT(40)
    <3>2. /\ ledger'.reserved[o] = 0
          /\ ledger'.used = [ledger.used EXCEPT ![o] = FillMargin(o)]
      BY <1>1, <2>1, BookFillEntries DEF FillMargin
    <3> QED
      BY <3>1, <3>2
  <2>4. status[o] \in Active
    BY <1>1, <1>5 DEF FillArrives, OrderInv, UnhandledIsSent, HandledIsKnown, Active
  <2>5. ledger.reserved[o] = RequiredMargin(o) /\ ledger.used[o] = 0
    BY <1>1, <2>4 DEF OrderInv, LedgerFollows, Holding, Active
  <2>6. FillMargin(o) \in Nat /\ FillMargin(o) <= RequiredMargin(o) /\ RequiredMargin(o) \in Nat
    BY <2>2, MarginType, RequiredMarginType DEF FillMargin, ExecutedNoDearer
  <2>7. p = o => ledger'.used[p] = FillMargin(o)
    BY <1>1, <2>3 DEF Ledgers
  <2>8. p # o => ledger'.used[p] = ledger.used[p]
    BY <1>1, <2>3 DEF Ledgers
  <2> QED
    BY <1>2, <2>3, <2>5, <2>6, <2>7, <2>8
<1> QED
  BY <1>3, <1>4, <1>5 DEF OrderStep, CallStep, AnswerStep, OutcomeStep, FutureStep,
     ReportStep, Validate, RejectInvalid, Check, RejectUnaffordable, StoreOrder,
     RegisterOrder, DispatchOrder, RejectUnrouted, ReleaseUnrouted, GatewayAccepts,
     GatewayRefuses, GatewayFills, GatewayReverts, AckArrives, RefusalArrives,
     RevertArrives, UnmatchedReport

LEMMA SolventStep ==
    ASSUME IInv, IInv', Solvent, [Next]_vars
    PROVE  Solvent'
<1> SUFFICES ASSUME ExecutedNoDearer PROVE AvailableMargin(ledger') >= 0
  BY DEF Solvent, ExecutedNoDearer, FillMargin, RequiredMargin
<1>1. /\ ledger \in Ledgers /\ ledger' \in Ledgers
      /\ AvailableMargin(ledger) >= 0
  BY DEF IInv, TypeOK, Solvent, ExecutedNoDearer
<1>2. AvailableMargin(ledger) \in Int /\ AvailableMargin(ledger') \in Int
  BY <1>1, SumsOfEntries
<1>3. ASSUME NEW o \in Keys, ReserveMargin(o)
      PROVE  AvailableMargin(ledger') >= 0
  <2>1. RequiredMargin(o) <= AvailableMargin(ledger) /\ RequiredMargin(o) \in Nat
    BY <1>3, RequiredMarginType DEF ReserveMargin, Affordable
  <2>2. AvailableMargin(ledger') = AvailableMargin(ledger) - RequiredMargin(o)
    BY <1>1, <1>3, ReserveCommits DEF ReserveMargin
  <2> QED
    BY <1>2, <2>1, <2>2
<1>4. ASSUME NEW o \in Keys, OrderStep(o), ~ReserveMargin(o)
      PROVE  AvailableMargin(ledger') >= 0
  <2>1. AvailableMargin(ledger') >= AvailableMargin(ledger)
    BY <1>1, <1>4, OthersCommitNoMore, LessCommitted
  <2> QED
    BY <1>1, <1>2, <2>1
<1>5. CASE UNCHANGED vars
  BY <1>1, <1>5 DEF vars
<1> QED
  BY <1>3, <1>4, <1>5 DEF Next

\* The cash is never committed twice, whatever is reserved, filled, refused and
\* reverted in between, when orders execute no dearer than they were margined.
THEOREM StaysSolvent == Spec => []Solvent
<1>1. Init => Solvent
  BY EmptyAvailable, GuardAssumption DEF Init, Solvent
<1>2. IInv /\ IInv' /\ Solvent /\ [Next]_vars => Solvent'
  BY SolventStep
<1> QED
  BY <1>1, <1>2, Invariance, PTL DEF Spec

-----------------------------------------------------------------------------
(* The positions.                                                          *)

Delta(o) == IF Sig[o].buy THEN Sig[o].qty ELSE -Sig[o].qty

\* What each order adds to the position in s.
Filled(s) == [o \in Keys |-> IF status[o] = "FILLED" /\ Sig[o].symbol = s
                             THEN Delta(o) ELSE 0]

LEMMA FilledType ==
    ASSUME NEW s
    PROVE  /\ IsFiniteSet(Keys)
           /\ Filled(s) \in [Keys -> Int] /\ Filled(s)' \in [Keys -> Int]
           /\ \A o \in Keys : Delta(o) \in Int /\ Sig[o].symbol \in Symbols
BY GuardAssumption DEF Filled, Delta, SignalFields

\* Only a fill that meets its order makes it FILLED or moves a position.
LEMMA OthersKeepPositions ==
    ASSUME IInv, NEW o \in Keys, OrderStep(o), ~FillArrives(o)
    PROVE  /\ ledger'.positions = ledger.positions
           /\ \A p \in Keys : status'[p] = "FILLED" <=> status[p] = "FILLED"
<1>1. ledger \in Ledgers /\ status \in [Keys -> Statuses]
  BY DEF IInv, TypeOK
<1>2. ledger'.positions = ledger.positions
  <2>1. \/ ledger' = ledger \/ ledger' = Reserve(ledger, o) \/ ledger' = Release(ledger, o)
    BY DEF OrderStep, CallStep, AnswerStep, OutcomeStep, FutureStep,
     ReportStep, Validate, RejectInvalid, Check, ReserveMargin, RejectUnaffordable,
     StoreOrder, RegisterOrder, DispatchOrder, RejectUnrouted, ReleaseUnrouted,
     GatewayAccepts, GatewayRefuses, GatewayFills, GatewayReverts, AckArrives,
     RefusalArrives, RevertArrives, UnmatchedReport
  <2> QED
    BY <1>1, <2>1 DEF Reserve, Release, Ledgers
<1>3. ASSUME NEW p \in Keys, status[p] = "FILLED" PROVE status'[p] = "FILLED"
  BY <1>3, TerminalStep DEF Next, Terminal
<1>4. ASSUME NEW p \in Keys, status'[p] = "FILLED" PROVE status[p] = "FILLED"
  <2>1. \/ status' = status
        \/ \E new \in {"SENT", "REJECTED", "ACKNOWLEDGED", "TX_PENDING"} :
              status' = [status EXCEPT ![o] = new]
    BY DEF OrderStep, CallStep, AnswerStep, OutcomeStep, FutureStep,
     ReportStep, Validate, RejectInvalid, Check, ReserveMargin, RejectUnaffordable,
     StoreOrder, RegisterOrder, DispatchOrder, RejectUnrouted, ReleaseUnrouted,
     GatewayAccepts, GatewayRefuses, GatewayFills, GatewayReverts, AckArrives,
     RefusalArrives, RevertArrives, UnmatchedReport
  <2> QED
    BY <1>1, <1>4, <2>1
<1> QED
  BY <1>2, <1>3, <1>4

LEMMA PositionsStep ==
    ASSUME IInv, IInv', PositionsAreFills, [Next]_vars
    PROVE  PositionsAreFills'
<1> SUFFICES ASSUME NEW s \in Symbols
             PROVE  ledger'.positions[s] = SumFunction(Filled(s)')
  BY DEF PositionsAreFills, Filled, Delta
<1>1. /\ ledger \in Ledgers /\ status \in [Keys -> Statuses]
      /\ ledger.positions[s] = SumFunction(Filled(s))
  BY DEF IInv, TypeOK, PositionsAreFills, Filled, Delta
<1>2. ASSUME NEW o \in Keys, FillArrives(o)
      PROVE  ledger'.positions[s] = SumFunction(Filled(s)')
  <2>1. status[o] # "FILLED" /\ status' = [status EXCEPT ![o] = "FILLED"]
    BY <1>2 DEF IInv, OrderInv, UnhandledIsSent, HandledIsKnown, FillArrives
  <2>2. /\ Filled(s)[o] = 0
        /\ Filled(s)'[o] = IF Sig[o].symbol = s THEN Delta(o) ELSE 0
        /\ \A p \in Keys : p # o => Filled(s)[p] = Filled(s)'[p]
    BY <1>1, <2>1 DEF Filled
  <2>3. SumFunction(Filled(s)') = SumFunction(Filled(s)) - Filled(s)[o] + Filled(s)'[o]
    <3> DEFINE f == Filled(s)
               g == Filled(s)'
    <3>1. f \in [Keys -> Int] /\ g \in [Keys -> Int] /\ IsFiniteSet(Keys)
      BY FilledType
    <3>2. \A p \in Keys : p # o => f[p] = g[p]
      BY <2>2
    <3> HIDE DEF f, g
    <3>3. SumFunction(g) = SumFunction(f) - f[o] + g[o]
      BY <3>1, <3>2, SumUpdate
    <3> QED
      BY <3>3 DEF f, g
  <2>4. ledger'.positions = [ledger.positions EXCEPT ![Sig[o].symbol] = @ + Delta(o)]
    <3>1. ledger' = BookFill(ledger, o, Sig[o].qty, FillPrice[o])
      BY <1>2 DEF FillArrives
    <3> QED
      BY <1>1, <3>1, BookFillPositions DEF Delta
  <2>5. ledger.positions \in [Symbols -> Int] /\ Delta(o) \in Int /\ Sig[o].symbol \in Symbols
    BY <1>1, FilledType DEF Ledgers
  <2>6. ledger'.positions[s] =
            ledger.positions[s] + (IF Sig[o].symbol = s THEN Delta(o) ELSE 0)
    BY <2>4, <2>5
  <2> QED
    BY <1>1, <2>2, <2>3, <2>5, <2>6
<1>3. ASSUME NEW o \in Keys, OrderStep(o), ~FillArrives(o)
      PROVE  ledger'.positions[s] = SumFunction(Filled(s)')
  <2>1. Filled(s)' = Filled(s)
    BY <1>3, OthersKeepPositions DEF Filled
  <2> QED
    BY <1>1, <1>3, <2>1, OthersKeepPositions
<1>4. CASE UNCHANGED vars
  BY <1>1, <1>4 DEF vars, Filled
<1> QED
  BY <1>2, <1>3, <1>4 DEF Next

\* The book of positions is the sum of the filled orders: every fill that meets its
\* order is applied once, and nothing else is.
THEOREM PositionsAddUp == Spec => []PositionsAreFills
<1>1. Init => PositionsAreFills
  <2> SUFFICES ASSUME Init, NEW s \in Symbols
               PROVE  ledger.positions[s] = SumFunction(Filled(s))
    BY DEF PositionsAreFills, Filled, Delta
  <2>1. Filled(s) = [o \in Keys |-> 0] /\ ledger.positions[s] = 0
    BY DEF Init, Filled, EmptyLedger
  <2> QED
    BY <2>1, SumOfZeros, GuardAssumption
<1>2. IInv /\ IInv' /\ PositionsAreFills /\ [Next]_vars => PositionsAreFills'
  BY PositionsStep
<1> QED
  BY <1>1, <1>2, Invariance, PTL DEF Spec
=============================================================================
