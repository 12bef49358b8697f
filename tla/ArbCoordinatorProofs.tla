------------------------ MODULE ArbCoordinatorProofs ------------------------
(***************************************************************************)
(* Theorems about the coordinator, for every number of groups, signals,    *)
(* submissions and gateways and every initial cash.                        *)
(***************************************************************************)
EXTENDS ArbCoordinator, PortfolioGuardProofs, TLAPS

-----------------------------------------------------------------------------
(* The inductive invariant.                                                *)

\* Who may still call dispatch_pair found both legs, and so did a sent pair.
\* Legs are never emptied again.
LegsPresent(g) ==
    /\ callers[g] > 0 => HasBothLegs(g)
    /\ pairStatus[g] \in InFlight => \A x \in Venues : leg[g][x] # 0 /\ copied[g][x] # 0
    /\ sender[g] # "idle" => \A x \in Venues : copied[g][x] # 0

\* Nothing of an undecided pair has been sent or reserved.
Undecided(g) ==
    pairStatus[g] \in {"NONE", "ASSEMBLING"} =>
        /\ sender[g] = "idle"
        /\ \A x \in Venues : \A n \in 1 .. MaxSubmits : ledger.reserved[<<g, x, n>>] = 0

\* The dispatching thread has not yet touched the gateways ahead of it.
UnsentIsIdle(g) ==
    /\ sender[g] = "idle" => copied[g]["cex"] = 0
    /\ sender[g] \in {"idle", "cex"} => gw[g]["cex"] = "idle"
    /\ sender[g] \in {"idle", "cex", "dex"} => gw[g]["dex"] = "idle"

\* A leg is FILLED, and a pair half filled, only on a report of the exchange.
FilledIsReported(g) ==
    /\ \A x \in Venues : legStatus[g][x] = "FILLED" => gw[g][x] = "fill_reported"
    /\ \A x \in Venues : pairStatus[g] = FirstFilled(x) => gw[g][x] = "fill_reported"

\* The future of an executed order does not say that it was refused.
RefusalIsTrue(g) == \A x \in Venues : ack[g][x] = "fail" => gw[g][x] = "refused"

\* Unwind threads belong to a pair that has left the fill states, and a pair
\* completed by its fills has none.
UnwindsKnown(g) ==
    /\ unwinds[g].accepted > 0 => unwound[g] > 0
    /\ unwound[g] + unwinds[g].queued + unwinds[g].refused > 0 =>
           pairStatus[g] \in {"UNWINDING", "FAILED", "COMPLETED"}
    /\ pairStatus[g] = "COMPLETED" /\ unwound[g] = 0 =>
           unwinds[g].queued + unwinds[g].refused = 0

\* There are unwind threads only of an executed CEX leg.
UnwindExecuted(g) ==
    unwound[g] + unwinds[g].queued + unwinds[g].refused > 0 => Executed(g, "cex")

GroupInv(g) ==
    /\ LegsPresent(g)
    /\ Undecided(g)
    /\ UnsentIsIdle(g)
    /\ FilledIsReported(g)
    /\ RefusalIsTrue(g)
    /\ UnwindsKnown(g)
    /\ ReservedInFlight(g)
    /\ UnwindExecuted(g)
    /\ CompletedEarned(g)

IInv == TypeOK /\ \A g \in Groups : GroupInv(g)

-----------------------------------------------------------------------------
(* The invariant of the books, kept given IInv: what has been booked, and  *)
(* for which order.                                                        *)

\* A leg holds the order submitted last; the one that was sent is not a later one.
LegIsLatest(g) ==
    \A x \in Venues : leg[g][x] = submitted[g][x] /\ copied[g][x] <= leg[g][x]

\* Where a reversal comes from, and what there is of it: a monitor that has not been
\* started has not fired, and every unwind thread was given an order to reverse.
ReverseInv(g) ==
    /\ LegIsLatest(g)
    /\ sender[g] # "done" => monitor[g] = "off"
    /\ unwound[g] + unwinds[g].queued + unwinds[g].refused <= Len(reversals[g])
    /\ reversals[g] # << >> => pairStatus[g] \in {"UNWINDING", "FAILED", "COMPLETED"}
    /\ ReverseJustified(g)

ReversalInv == \A g \in Groups : ReverseInv(g)

\* Only the orders that were sent have fills on record.
RecordedIsSent(g) ==
    /\ \A x \in Venues : \A n \in 1 .. MaxSubmits :
           <<g, x, n>> \in recorded => n = copied[g][x] /\ gw[g][x] = "fill_reported"
    /\ \A x \in Venues : pairStatus[g] = FirstFilled(x) => SentKey(g, x) \in recorded

Booked(g) == pairStatus[g] = "COMPLETED" /\ unwound[g] = 0

\* Margin is used only by orders with a fill on record, of pairs completed by fills.
UsedIsRecorded(g) ==
    \A x \in Venues : \A n \in 1 .. MaxSubmits :
        ledger.used[<<g, x, n>>] # 0 =>
            /\ Booked(g)
            /\ <<g, x, n>> \in recorded
            /\ ledger.used[<<g, x, n>>] = FillMargin(<<g, x, n>>)

\* A pair completed by fills has both in the books, unless a leg came twice.
BookedWhole(g) ==
    Booked(g) /\ ~Resubmitted(g) =>
        \A x \in Venues : /\ Executed(g, x)
                         /\ ledger.used[SentKey(g, x)] = FillMargin(SentKey(g, x))

GroupBooks(g) ==
    LegIsLatest(g) /\ RecordedIsSent(g) /\ UsedIsRecorded(g) /\ BookedWhole(g)

BooksInv == \A g \in Groups : GroupBooks(g)

-----------------------------------------------------------------------------
(* Groups are independent: a step about one leaves the others' part of the *)
(* invariant alone, as long as their entries of the ledger are.            *)

OthersKept(l, m, g) ==
    \A h \in Groups : h # g =>
        \A x \in Venues : \A n \in 1 .. MaxSubmits :
            m.reserved[<<h, x, n>>] = l.reserved[<<h, x, n>>]

LedgerFrame(g) == OthersKept(ledger, ledger', g)

Frame(h) ==
    /\ pairStatus'[h] = pairStatus[h] /\ leg'[h] = leg[h] /\ legStatus'[h] = legStatus[h]
    /\ callers'[h] = callers[h] /\ sender'[h] = sender[h] /\ copied'[h] = copied[h]
    /\ gw'[h] = gw[h] /\ ack'[h] = ack[h]
    /\ unwinds'[h] = unwinds[h] /\ unwound'[h] = unwound[h]

LEMMA OrderIsKey ==
    ASSUME NEW g \in Groups, NEW x \in Venues, NEW n \in 1 .. MaxSubmits
    PROVE  <<g, x, n>> \in Orders /\ <<g, x, n>> \in Keys
BY ArbAssumption DEF Orders

LEMMA FrameKeepsGroup ==
    ASSUME TypeOK, NEW h \in Groups, GroupInv(h), Frame(h),
           \A x \in Venues : \A n \in 1 .. MaxSubmits :
               ledger'.reserved[<<h, x, n>>] = ledger.reserved[<<h, x, n>>]
    PROVE  GroupInv(h)'
<1>1. LegsPresent(h)' /\ UnsentIsIdle(h)' /\ FilledIsReported(h)' /\ RefusalIsTrue(h)'
  BY DEF GroupInv, Frame, LegsPresent, HasBothLegs, UnsentIsIdle, FilledIsReported,
         RefusalIsTrue
<1>2. UnwindsKnown(h)' /\ UnwindExecuted(h)' /\ CompletedEarned(h)'
  BY DEF GroupInv, Frame, UnwindsKnown, UnwindExecuted, CompletedEarned, Executed
<1>3. Undecided(h)'
  BY DEF GroupInv, Frame, Undecided
<1>4. ReservedInFlight(h)'
  <2> SUFFICES ASSUME pairStatus'[h] \in InFlight, NEW x \in Venues
               PROVE  ledger'.reserved[SentKey(h, x)'] = RequiredMargin(SentKey(h, x)')
    BY DEF ReservedInFlight
  <2>1. SentKey(h, x)' = SentKey(h, x) /\ pairStatus[h] \in InFlight
    BY DEF Frame, SentKey
  <2>2. copied[h][x] \in 1 .. MaxSubmits
    BY <2>1, ArbAssumption DEF GroupInv, LegsPresent, TypeOK
  <2> QED
    BY <2>1, <2>2 DEF GroupInv, ReservedInFlight, SentKey
<1> QED
  BY <1>1, <1>2, <1>3, <1>4 DEF GroupInv

LEMMA GroupStepKeepsInv ==
    ASSUME IInv, TypeOK', NEW g \in Groups, GroupInv(g)', LedgerFrame(g),
           \A h \in Groups : h # g => Frame(h)
    PROVE  IInv'
BY FrameKeepsGroup DEF IInv, LedgerFrame, OthersKept

-----------------------------------------------------------------------------
(* One lemma per action: the types, the frame, and the group it moves. *)

LEMMA AddLegStep ==
    ASSUME IInv, NEW g \in Groups, NEW x \in Venues, AddLeg(g, x)
    PROVE  IInv' /\ \A h \in Groups : h # g => Frame(h)
<1>1. TypeOK'
  <2>1. submitted[g][x] + 1 \in 0 .. MaxSubmits
    BY ArbAssumption DEF AddLeg, IInv, TypeOK
  <2>2. submitted' \in [Groups -> [Venues -> 0 .. MaxSubmits]]
    BY <2>1 DEF AddLeg, IInv, TypeOK
  <2>3. leg' \in [Groups -> [Venues -> 0 .. MaxSubmits]]
    BY <2>1 DEF AddLeg, IInv, TypeOK
  <2>4. callers' \in [Groups -> Nat]
    BY DEF AddLeg, IInv, TypeOK
  <2>5. /\ legStatus' \in [Groups -> [Venues -> LegStatuses]]
        /\ pairStatus' \in [Groups -> PairStatuses]
        /\ deadline' \in [Groups -> {"off", "armed", "fired"}]
    BY DEF AddLeg, IInv, TypeOK, LegStatuses, PairStatuses
  <2> QED
    BY <2>2, <2>3, <2>4, <2>5 DEF AddLeg, IInv, TypeOK, exchVars, unwindVars
<1>2. /\ LedgerFrame(g)
      /\ \A h \in Groups : h # g => Frame(h)
  BY DEF IInv, TypeOK, AddLeg, LedgerFrame, OthersKept, Frame, Other, Venues, pairVars,
       callVars, exchVars, timerVars, unwindVars
<1>3. GroupInv(g)'
  BY SMTT(20) DEF IInv, TypeOK, AddLeg,
         GroupInv, LegsPresent, HasBothLegs, Undecided, UnsentIsIdle, FilledIsReported,
         FirstFilled, RefusalIsTrue, UnwindsKnown, ReservedInFlight, SentKey, InFlight,
         UnwindExecuted, CompletedEarned, Executed, Other, Venues, pairVars, callVars,
         exchVars, timerVars, unwindVars
<1> QED
  BY <1>1, <1>2, <1>3, GroupStepKeepsInv

LEMMA DispatchTooLateStep ==
    ASSUME IInv, NEW g \in Groups, DispatchTooLate(g)
    PROVE  IInv' /\ \A h \in Groups : h # g => Frame(h)
<1>1. TypeOK'
  BY SMTT(20) DEF IInv, TypeOK, DispatchTooLate, Venues, pairVars, callVars, exchVars,
       timerVars, unwindVars
<1>2. /\ LedgerFrame(g)
      /\ \A h \in Groups : h # g => Frame(h)
  BY DEF IInv, TypeOK, DispatchTooLate, LedgerFrame, OthersKept, Frame, Venues,
       pairVars, callVars, exchVars, timerVars, unwindVars
<1>3. GroupInv(g)'
  BY DEF IInv, TypeOK, DispatchTooLate,
         GroupInv, LegsPresent, HasBothLegs, Undecided, UnsentIsIdle, FilledIsReported,
         FirstFilled, RefusalIsTrue, UnwindsKnown, ReservedInFlight, SentKey, InFlight,
         UnwindExecuted, CompletedEarned, Executed, Venues, pairVars, callVars,
         exchVars, timerVars, unwindVars
<1> QED
  BY <1>1, <1>2, <1>3, GroupStepKeepsInv

LEMMA DispatchUnaffordableStep ==
    ASSUME IInv, NEW g \in Groups, DispatchUnaffordable(g)
    PROVE  IInv' /\ \A h \in Groups : h # g => Frame(h)
<1>1. TypeOK'
  <2>1. legStatus' \in [Groups -> [Venues -> LegStatuses]]
    BY DEF IInv, TypeOK, DispatchUnaffordable, LegStatuses, RejectPresentLegs
  <2>2. /\ pairStatus' \in [Groups -> PairStatuses]
        /\ callers' \in [Groups -> Nat]
    BY DEF IInv, TypeOK, DispatchUnaffordable, PairStatuses
  <2> QED
    BY <2>1, <2>2 DEF IInv, TypeOK, DispatchUnaffordable, exchVars, timerVars, unwindVars
<1>2. /\ LedgerFrame(g)
      /\ \A h \in Groups : h # g => Frame(h)
  BY SMTT(20) DEF IInv, TypeOK, DispatchUnaffordable, LedgerFrame, OthersKept, Frame,
       RejectPresentLegs, Venues, pairVars, callVars, exchVars, timerVars, unwindVars
<1>3. GroupInv(g)'
  BY ZenonT(40) DEF IInv, TypeOK, DispatchUnaffordable,
         GroupInv, LegsPresent, HasBothLegs, Undecided, UnsentIsIdle, FilledIsReported,
         FirstFilled, RefusalIsTrue, UnwindsKnown, ReservedInFlight, SentKey, InFlight,
         UnwindExecuted, CompletedEarned, Executed, RejectPresentLegs, Venues,
         pairVars, callVars, exchVars, timerVars, unwindVars
<1> QED
  BY <1>1, <1>2, <1>3, GroupStepKeepsInv

LEMMA SendLegStep ==
    ASSUME IInv, NEW g \in Groups, NEW x \in Venues, SendLeg(g, x)
    PROVE  IInv' /\ \A h \in Groups : h # g => Frame(h)
<1>1. TypeOK'
  BY SMTT(20) DEF IInv, TypeOK, SendLeg, GatewayStates, Venues, pairVars, callVars, exchVars,
       timerVars, unwindVars
<1>2. /\ LedgerFrame(g)
      /\ \A h \in Groups : h # g => Frame(h)
  BY DEF IInv, TypeOK, SendLeg, LedgerFrame, OthersKept, Frame, Venues, pairVars,
       callVars, exchVars, timerVars, unwindVars
<1>3. GroupInv(g)'
  BY DEF IInv, TypeOK, SendLeg,
         GroupInv, LegsPresent, HasBothLegs, Undecided, UnsentIsIdle, FilledIsReported,
         FirstFilled, RefusalIsTrue, UnwindsKnown, ReservedInFlight, SentKey, InFlight,
         UnwindExecuted, CompletedEarned, Executed, Venues, pairVars, callVars,
         exchVars, timerVars, unwindVars
<1> QED
  BY <1>1, <1>2, <1>3, GroupStepKeepsInv

LEMMA StartRiskWindowMonitorStep ==
    ASSUME IInv, NEW g \in Groups, StartRiskWindowMonitor(g)
    PROVE  IInv' /\ \A h \in Groups : h # g => Frame(h)
<1>1. TypeOK'
  BY DEF IInv, TypeOK, StartRiskWindowMonitor, Venues, pairVars, callVars, exchVars,
       timerVars, unwindVars
<1>2. /\ LedgerFrame(g)
      /\ \A h \in Groups : h # g => Frame(h)
  BY DEF IInv, TypeOK, StartRiskWindowMonitor, LedgerFrame, OthersKept, Frame, Venues,
       pairVars, callVars, exchVars, timerVars, unwindVars
<1>3. GroupInv(g)'
  BY DEF IInv, TypeOK, StartRiskWindowMonitor,
         GroupInv, LegsPresent, HasBothLegs, Undecided, UnsentIsIdle, FilledIsReported,
         FirstFilled, RefusalIsTrue, UnwindsKnown, ReservedInFlight, SentKey, InFlight,
         UnwindExecuted, CompletedEarned, Executed, Venues, pairVars, callVars,
         exchVars, timerVars, unwindVars
<1> QED
  BY <1>1, <1>2, <1>3, GroupStepKeepsInv

LEMMA GatewayAcceptsStep ==
    ASSUME IInv, NEW g \in Groups, NEW x \in Venues, GatewayAccepts(g, x)
    PROVE  IInv' /\ \A h \in Groups : h # g => Frame(h)
<1>1. TypeOK'
  BY DEF IInv, TypeOK, GatewayAccepts, GatewayStates, Venues, pairVars, callVars,
       exchVars, timerVars, unwindVars
<1>2. /\ LedgerFrame(g)
      /\ \A h \in Groups : h # g => Frame(h)
  BY DEF IInv, TypeOK, GatewayAccepts, LedgerFrame, OthersKept, Frame, Venues,
       pairVars, callVars, exchVars, timerVars, unwindVars
<1>3. GroupInv(g)'
  <2>0. TypeOK /\ GroupInv(g)
    BY DEF IInv
  <2>1. /\ gw[g][x] \notin {"idle", "filled", "fill_reported", "refused"}
        /\ gw'[g][x] \notin {"idle", "fill_reported"}
        /\ ack'[g][x] = "fail" => gw'[g][x] = "refused"
        /\ \A y \in Venues : y # x => gw'[g][y] = gw[g][y] /\ ack'[g][y] = ack[g][y]
    BY <2>0 DEF GatewayAccepts, GroupInv, RefusalIsTrue, TypeOK
  <2>2. UnsentIsIdle(g)' /\ FilledIsReported(g)' /\ RefusalIsTrue(g)'
    BY <2>0, <2>1 DEF GatewayAccepts, GroupInv, UnsentIsIdle, FilledIsReported,
         RefusalIsTrue, FirstFilled,
       pairVars, callVars, Venues
  <2>3. \A y \in Venues : Executed(g, y) => Executed(g, y)'
    BY <2>0, <2>1 DEF Executed
  <2>4. UnwindsKnown(g)' /\ UnwindExecuted(g)' /\ CompletedEarned(g)'
    BY <2>0, <2>3 DEF GatewayAccepts, GroupInv, UnwindsKnown, UnwindExecuted,
         CompletedEarned,
       pairVars, unwindVars, Venues
  <2>5. LegsPresent(g)' /\ Undecided(g)' /\ ReservedInFlight(g)'
    BY <2>0 DEF GatewayAccepts, GroupInv, LegsPresent, HasBothLegs, Undecided,
         ReservedInFlight, SentKey,
       pairVars, callVars
  <2> QED
    BY <2>2, <2>4, <2>5 DEF GroupInv
<1> QED
  BY <1>1, <1>2, <1>3, GroupStepKeepsInv

LEMMA GatewayRefusesStep ==
    ASSUME IInv, NEW g \in Groups, NEW x \in Venues, GatewayRefuses(g, x)
    PROVE  IInv' /\ \A h \in Groups : h # g => Frame(h)
<1>1. TypeOK'
  BY DEF IInv, TypeOK, GatewayRefuses, GatewayStates, Venues, pairVars, callVars,
       exchVars, timerVars, unwindVars
<1>2. /\ LedgerFrame(g)
      /\ \A h \in Groups : h # g => Frame(h)
  BY DEF IInv, TypeOK, GatewayRefuses, LedgerFrame, OthersKept, Frame, Venues,
       pairVars, callVars, exchVars, timerVars, unwindVars
<1>3. GroupInv(g)'
  <2>0. TypeOK /\ GroupInv(g)
    BY DEF IInv
  <2>1. /\ gw[g][x] \notin {"idle", "filled", "fill_reported", "refused"}
        /\ gw'[g][x] \notin {"idle", "fill_reported"}
        /\ ack'[g][x] = "fail" => gw'[g][x] = "refused"
        /\ \A y \in Venues : y # x => gw'[g][y] = gw[g][y] /\ ack'[g][y] = ack[g][y]
    BY <2>0 DEF GatewayRefuses, GroupInv, RefusalIsTrue, TypeOK
  <2>2. UnsentIsIdle(g)' /\ FilledIsReported(g)' /\ RefusalIsTrue(g)'
    BY <2>0, <2>1 DEF GatewayRefuses, GroupInv, UnsentIsIdle, FilledIsReported,
         RefusalIsTrue, FirstFilled,
       pairVars, callVars, Venues
  <2>3. \A y \in Venues : Executed(g, y) => Executed(g, y)'
    BY <2>0, <2>1 DEF Executed
  <2>4. UnwindsKnown(g)' /\ UnwindExecuted(g)' /\ CompletedEarned(g)'
    BY <2>0, <2>3 DEF GatewayRefuses, GroupInv, UnwindsKnown, UnwindExecuted,
         CompletedEarned,
       pairVars, unwindVars, Venues
  <2>5. LegsPresent(g)' /\ Undecided(g)' /\ ReservedInFlight(g)'
    BY <2>0 DEF GatewayRefuses, GroupInv, LegsPresent, HasBothLegs, Undecided,
         ReservedInFlight, SentKey,
       pairVars, callVars
  <2> QED
    BY <2>2, <2>4, <2>5 DEF GroupInv
<1> QED
  BY <1>1, <1>2, <1>3, GroupStepKeepsInv

LEMMA GatewayFillsStep ==
    ASSUME IInv, NEW g \in Groups, NEW x \in Venues, GatewayFills(g, x)
    PROVE  IInv' /\ \A h \in Groups : h # g => Frame(h)
<1>1. TypeOK'
  BY DEF IInv, TypeOK, GatewayFills, GatewayStates, Venues, pairVars, callVars,
       exchVars, timerVars, unwindVars
<1>2. /\ LedgerFrame(g)
      /\ \A h \in Groups : h # g => Frame(h)
  BY DEF IInv, TypeOK, GatewayFills, LedgerFrame, OthersKept, Frame, Venues, pairVars,
       callVars, exchVars, timerVars, unwindVars
<1>3. GroupInv(g)'
  <2>0. TypeOK /\ GroupInv(g)
    BY DEF IInv
  <2>1. /\ gw[g][x] \notin {"idle", "filled", "fill_reported", "refused"}
        /\ gw'[g][x] \notin {"idle", "fill_reported"}
        /\ ack'[g][x] = "fail" => gw'[g][x] = "refused"
        /\ \A y \in Venues : y # x => gw'[g][y] = gw[g][y] /\ ack'[g][y] = ack[g][y]
    BY <2>0 DEF GatewayFills, GroupInv, RefusalIsTrue, TypeOK
  <2>2. UnsentIsIdle(g)' /\ FilledIsReported(g)' /\ RefusalIsTrue(g)'
    BY <2>0, <2>1 DEF GatewayFills, GroupInv, UnsentIsIdle, FilledIsReported,
         RefusalIsTrue, FirstFilled,
       pairVars, callVars, Venues
  <2>3. \A y \in Venues : Executed(g, y) => Executed(g, y)'
    BY <2>0, <2>1 DEF Executed
  <2>4. UnwindsKnown(g)' /\ UnwindExecuted(g)' /\ CompletedEarned(g)'
    BY <2>0, <2>3 DEF GatewayFills, GroupInv, UnwindsKnown, UnwindExecuted,
         CompletedEarned,
       pairVars, unwindVars, Venues
  <2>5. LegsPresent(g)' /\ Undecided(g)' /\ ReservedInFlight(g)'
    BY <2>0 DEF GatewayFills, GroupInv, LegsPresent, HasBothLegs, Undecided,
         ReservedInFlight, SentKey,
       pairVars, callVars
  <2> QED
    BY <2>2, <2>4, <2>5 DEF GroupInv
<1> QED
  BY <1>1, <1>2, <1>3, GroupStepKeepsInv

LEMMA GatewayRevertsStep ==
    ASSUME IInv, NEW g \in Groups, NEW x \in Venues, GatewayReverts(g, x)
    PROVE  IInv' /\ \A h \in Groups : h # g => Frame(h)
<1>1. TypeOK'
  BY DEF IInv, TypeOK, GatewayReverts, GatewayStates, Venues, pairVars, callVars,
       exchVars, timerVars, unwindVars
<1>2. /\ LedgerFrame(g)
      /\ \A h \in Groups : h # g => Frame(h)
  BY DEF IInv, TypeOK, GatewayReverts, LedgerFrame, OthersKept, Frame, Venues,
       pairVars, callVars, exchVars, timerVars, unwindVars
<1>3. GroupInv(g)'
  <2>0. TypeOK /\ GroupInv(g)
    BY DEF IInv
  <2>1. /\ gw[g][x] \notin {"idle", "filled", "fill_reported", "refused"}
        /\ gw'[g][x] \notin {"idle", "fill_reported"}
        /\ ack'[g][x] = "fail" => gw'[g][x] = "refused"
        /\ \A y \in Venues : y # x => gw'[g][y] = gw[g][y] /\ ack'[g][y] = ack[g][y]
    BY <2>0 DEF GatewayReverts, GroupInv, RefusalIsTrue, TypeOK
  <2>2. UnsentIsIdle(g)' /\ FilledIsReported(g)' /\ RefusalIsTrue(g)'
    BY <2>0, <2>1 DEF GatewayReverts, GroupInv, UnsentIsIdle, FilledIsReported,
         RefusalIsTrue, FirstFilled,
       pairVars, callVars, Venues
  <2>3. \A y \in Venues : Executed(g, y) => Executed(g, y)'
    BY <2>0, <2>1 DEF Executed
  <2>4. UnwindsKnown(g)' /\ UnwindExecuted(g)' /\ CompletedEarned(g)'
    BY <2>0, <2>3 DEF GatewayReverts, GroupInv, UnwindsKnown, UnwindExecuted,
         CompletedEarned,
       pairVars, unwindVars, Venues
  <2>5. LegsPresent(g)' /\ Undecided(g)' /\ ReservedInFlight(g)'
    BY <2>0 DEF GatewayReverts, GroupInv, LegsPresent, HasBothLegs, Undecided,
         ReservedInFlight, SentKey,
       pairVars, callVars
  <2> QED
    BY <2>2, <2>4, <2>5 DEF GroupInv
<1> QED
  BY <1>1, <1>2, <1>3, GroupStepKeepsInv

LEMMA AckArrivesStep ==
    ASSUME IInv, NEW g \in Groups, NEW x \in Venues, AckArrives(g, x)
    PROVE  IInv' /\ \A h \in Groups : h # g => Frame(h)
<1>1. TypeOK'
  BY DEF IInv, TypeOK, AckArrives, LegStatuses, Venues, pairVars, callVars, exchVars,
       timerVars, unwindVars
<1>2. /\ LedgerFrame(g)
      /\ \A h \in Groups : h # g => Frame(h)
  BY DEF IInv, TypeOK, AckArrives, LedgerFrame, OthersKept, Frame, Venues, pairVars,
       callVars, exchVars, timerVars, unwindVars
<1>3. GroupInv(g)'
  BY DEF IInv, TypeOK, AckArrives,
         GroupInv, LegsPresent, HasBothLegs, Undecided, UnsentIsIdle, FilledIsReported,
         FirstFilled, RefusalIsTrue, UnwindsKnown, ReservedInFlight, SentKey, InFlight,
         UnwindExecuted, CompletedEarned, Executed, Venues, pairVars, callVars,
         exchVars, timerVars, unwindVars
<1> QED
  BY <1>1, <1>2, <1>3, GroupStepKeepsInv

LEMMA UnmatchedReportStep ==
    ASSUME IInv, NEW g \in Groups, NEW x \in Venues, UnmatchedReport(g, x)
    PROVE  IInv' /\ \A h \in Groups : h # g => Frame(h)
<1>1. TypeOK'
  <2>1. gw' \in [Groups -> [Venues -> GatewayStates]]
    <3>1. CASE gw' = [gw EXCEPT ![g][x] = "fill_reported"]
      BY <3>1 DEF IInv, TypeOK, GatewayStates
    <3>2. CASE gw' = [gw EXCEPT ![g][x] = "revert_reported"]
      BY <3>2 DEF IInv, TypeOK, GatewayStates
    <3> QED
      BY <3>1, <3>2 DEF UnmatchedReport
  <2> QED
    BY <2>1 DEF IInv, TypeOK, UnmatchedReport, Venues, pairVars, callVars, exchVars,
         timerVars, unwindVars
<1>2. /\ LedgerFrame(g)
      /\ \A h \in Groups : h # g => Frame(h)
  BY DEF IInv, TypeOK, UnmatchedReport, LedgerFrame, OthersKept, Frame, Venues,
       pairVars, callVars, exchVars, timerVars, unwindVars
<1>3. GroupInv(g)'
  <2>1. /\ \A y \in Venues : gw[g][y] \in {"idle", "refused", "fill_reported"} =>
                               gw'[g][y] = gw[g][y]
        /\ \A y \in Venues : Executed(g, y) => Executed(g, y)'
    BY DEF IInv, TypeOK, UnmatchedReport, Executed
  <2>2. /\ UNCHANGED <<pairVars, callVars, ack, timerVars, unwindVars, ledger>>
        /\ GroupInv(g)
    BY DEF IInv, UnmatchedReport
  <2>3. /\ LegsPresent(g)' /\ Undecided(g)' /\ UnsentIsIdle(g)' /\ FilledIsReported(g)'
        /\ RefusalIsTrue(g)'
    BY <2>1, <2>2 DEF GroupInv, LegsPresent, HasBothLegs, Undecided, UnsentIsIdle,
       FilledIsReported, FirstFilled, RefusalIsTrue, Venues, pairVars, callVars, unwindVars
  <2>4. UnwindsKnown(g)' /\ ReservedInFlight(g)' /\ UnwindExecuted(g)' /\ CompletedEarned(g)'
    BY <2>1, <2>2 DEF GroupInv, UnwindsKnown, ReservedInFlight, SentKey, UnwindExecuted,
       CompletedEarned, Venues, pairVars, callVars, unwindVars
  <2> QED
    BY <2>3, <2>4 DEF GroupInv
<1> QED
  BY <1>1, <1>2, <1>3, GroupStepKeepsInv

LEMMA UnwindAcceptedStep ==
    ASSUME IInv, NEW g \in Groups, UnwindAccepted(g)
    PROVE  IInv' /\ \A h \in Groups : h # g => Frame(h)
<1> DEFINE u == unwinds[g]
<1>a. /\ u \in UnwindThreads
      /\ unwound[g] \in Nat
  BY DEF IInv, TypeOK
<1>b. unwinds'[g] = [queued |-> u.queued - 1, accepted |-> u.accepted + 1,
                       refused |-> u.refused]
  BY <1>a DEF UnwindAccepted, IInv, TypeOK, UnwindThreads
<1>c. unwinds'[g] \in UnwindThreads
  BY <1>a, <1>b DEF UnwindAccepted, UnwindThreads
<1>d. \A h \in Groups : h # g => unwinds'[h] = unwinds[h]
  BY DEF UnwindAccepted, IInv, TypeOK
<1>1. TypeOK'
  <2>1. unwinds' \in [Groups -> UnwindThreads]
    BY <1>c, <1>d DEF UnwindAccepted, IInv, TypeOK
  <2> QED
    BY <2>1, SMTT(20) DEF UnwindAccepted, IInv, TypeOK, Venues, pairVars, callVars, exchVars,
         timerVars, unwindVars
<1>2. /\ LedgerFrame(g)
      /\ \A h \in Groups : h # g => Frame(h)
  BY DEF IInv, TypeOK, UnwindAccepted, LedgerFrame, OthersKept, Frame, Venues,
       pairVars, callVars, exchVars, timerVars, unwindVars
<1>3. GroupInv(g)'
  <2>1. /\ unwinds'[g].queued = u.queued - 1
        /\ unwinds'[g].accepted = u.accepted + 1
        /\ unwinds'[g].refused = u.refused
        /\ unwound'[g] = unwound[g] + 1
    BY <1>a, <1>b DEF UnwindAccepted, IInv, TypeOK
  <2>2. GroupInv(g)
    BY DEF IInv
  <2>3. UnwindsKnown(g)' /\ UnwindExecuted(g)' /\ CompletedEarned(g)'
    BY <1>a, <1>b, <2>1, <2>2 DEF UnwindAccepted, GroupInv, UnwindsKnown,
         UnwindExecuted, CompletedEarned,
       Executed, UnwindThreads, Venues, pairVars, callVars, exchVars, timerVars,
       unwindVars
  <2> QED
    BY <2>2, <2>3 DEF UnwindAccepted, GroupInv, LegsPresent, HasBothLegs, Undecided,
         UnsentIsIdle, FilledIsReported,
         FirstFilled, RefusalIsTrue, UnwindsKnown, ReservedInFlight, SentKey, InFlight,
         UnwindExecuted, CompletedEarned, Executed,
           Venues, pairVars, callVars, exchVars, timerVars, unwindVars
<1> QED
  BY <1>1, <1>2, <1>3, GroupStepKeepsInv

LEMMA UnwindRefusedStep ==
    ASSUME IInv, NEW g \in Groups, UnwindRefused(g)
    PROVE  IInv' /\ \A h \in Groups : h # g => Frame(h)
<1> DEFINE u == unwinds[g]
<1>a. /\ u \in UnwindThreads
      /\ unwound[g] \in Nat
  BY DEF IInv, TypeOK
<1>b. unwinds'[g] = [queued |-> u.queued - 1, accepted |-> u.accepted,
                       refused |-> u.refused + 1]
  BY <1>a DEF UnwindRefused, IInv, TypeOK, UnwindThreads
<1>c. unwinds'[g] \in UnwindThreads
  BY <1>a, <1>b DEF UnwindRefused, UnwindThreads
<1>d. \A h \in Groups : h # g => unwinds'[h] = unwinds[h]
  BY DEF UnwindRefused, IInv, TypeOK
<1>1. TypeOK'
  <2>1. unwinds' \in [Groups -> UnwindThreads]
    BY <1>c, <1>d DEF UnwindRefused, IInv, TypeOK
  <2> QED
    BY <2>1 DEF UnwindRefused, IInv, TypeOK, Venues, pairVars, callVars, exchVars,
         timerVars, unwindVars
<1>2. /\ LedgerFrame(g)
      /\ \A h \in Groups : h # g => Frame(h)
  BY DEF IInv, TypeOK, UnwindRefused, LedgerFrame, OthersKept, Frame, Venues, pairVars,
       callVars, exchVars, timerVars, unwindVars
<1>3. GroupInv(g)'
  <2>1. /\ unwinds'[g].queued = u.queued - 1
        /\ unwinds'[g].accepted = u.accepted
        /\ unwinds'[g].refused = u.refused + 1
        /\ unwound'[g] = unwound[g]
    BY <1>a, <1>b DEF UnwindRefused, IInv, TypeOK
  <2>2. GroupInv(g)
    BY DEF IInv
  <2>3. UnwindsKnown(g)' /\ UnwindExecuted(g)' /\ CompletedEarned(g)'
    BY <1>a, <1>b, <2>1, <2>2 DEF UnwindRefused, GroupInv, UnwindsKnown,
         UnwindExecuted, CompletedEarned,
       Executed, UnwindThreads, Venues, pairVars, callVars, exchVars, timerVars,
       unwindVars
  <2> QED
    BY <2>2, <2>3 DEF UnwindRefused, GroupInv, LegsPresent, HasBothLegs, Undecided,
         UnsentIsIdle, FilledIsReported,
         FirstFilled, RefusalIsTrue, UnwindsKnown, ReservedInFlight, SentKey, InFlight,
         UnwindExecuted, CompletedEarned, Executed,
           Venues, pairVars, callVars, exchVars, timerVars, unwindVars
<1> QED
  BY <1>1, <1>2, <1>3, GroupStepKeepsInv

-----------------------------------------------------------------------------
(* The actions that touch the ledger.                                      *)

LEMMA ReleaseOthers ==
    ASSUME NEW l \in Ledgers, NEW g \in Groups, NEW x \in Venues
    PROVE  /\ Release(l, Key(g, x)) \in Ledgers
           /\ OthersKept(l, Release(l, Key(g, x)), g)
           /\ ReleaseLeg(l, g, x) \in Ledgers
           /\ OthersKept(l, ReleaseLeg(l, g, x), g)
<1>1. /\ Release(l, Key(g, x)) \in Ledgers
      /\ OthersKept(l, Release(l, Key(g, x)), g)
  BY ReleaseType, OrderIsKey DEF OthersKept, Key
<1>2. OthersKept(l, l, g)
  BY DEF OthersKept
<1> QED
  BY <1>1, <1>2 DEF ReleaseLeg

LEMMA KeptTwice ==
    ASSUME NEW l, NEW m, NEW n, NEW g \in Groups, OthersKept(l, m, g), OthersKept(m, n, g)
    PROVE  OthersKept(l, n, g)
BY DEF OthersKept

LEMMA BookLegOthers ==
    ASSUME NEW l \in Ledgers, NEW g \in Groups, NEW x \in Venues, NEW filled,
           leg[g][x] \in 1 .. MaxSubmits
    PROVE  /\ BookLeg(l, g, x, filled) \in Ledgers
           /\ OthersKept(l, BookLeg(l, g, x, filled), g)
<1>1. Key(g, x) \in Keys
  BY OrderIsKey DEF Key
<1>2. Sig[Key(g, x)].qty \in Nat /\ FillPrice[Key(g, x)] \in Nat
  BY <1>1, GuardAssumption, ArbAssumption DEF SignalFields
<1>3. BookLeg(l, g, x, filled) = BookFill(l, Key(g, x), Sig[Key(g, x)].qty, FillPrice[Key(g, x)])
      \/ BookLeg(l, g, x, filled) = BookFill(l, Key(g, x), 0, 0)
  BY DEF BookLeg
<1>4. \A qty \in Nat, price \in Nat :
        /\ BookFill(l, Key(g, x), qty, price) \in Ledgers
        /\ OthersKept(l, BookFill(l, Key(g, x), qty, price), g)
  <2> SUFFICES ASSUME NEW qty \in Nat, NEW price \in Nat
               PROVE  /\ BookFill(l, Key(g, x), qty, price) \in Ledgers
                      /\ OthersKept(l, BookFill(l, Key(g, x), qty, price), g)
    OBVIOUS
  <2>1. \A h \in Groups : h # g =>
           \A y \in Venues, n \in 1 .. MaxSubmits : <<h, y, n>> # Key(g, x)
    BY DEF Key
  <2>2. /\ BookFill(l, Key(g, x), qty, price) \in Ledgers
        /\ \A j \in Keys : j # Key(g, x) =>
               BookFill(l, Key(g, x), qty, price).reserved[j] = l.reserved[j]
    BY <1>1, BookFillType
  <2> QED
    BY <2>1, <2>2, OrderIsKey DEF OthersKept
<1> QED
  BY <1>2, <1>3, <1>4

LEMMA CexRejectEffect ==
    ASSUME TypeOK, NEW g \in Groups, HandleCexReject(g)
    PROVE  /\ pairStatus' = [pairStatus EXCEPT ![g] = "FAILED"]
           /\ legStatus' \in [Groups -> [Venues -> LegStatuses]]
           /\ \A h \in Groups : h # g => legStatus'[h] = legStatus[h]
           /\ \A x \in Venues : legStatus'[g][x] = "FILLED" => legStatus[g][x] = "FILLED"
           /\ unwinds' = unwinds /\ reversals' = reversals
           /\ ledger' \in Ledgers
           /\ LedgerFrame(g)
<1> DEFINE dexOpen == leg[g]["dex"] # 0 /\ legStatus[g]["dex"] \notin Terminal
<1>1. legStatus' = [legStatus EXCEPT ![g] =
                      [cex |-> "REJECTED",
                       dex |-> IF dexOpen THEN "CANCELLED" ELSE legStatus[g]["dex"]]]
  BY DEF HandleCexReject
<1>2. [cex |-> "REJECTED", dex |-> IF dexOpen THEN "CANCELLED" ELSE legStatus[g]["dex"]]
        \in [Venues -> LegStatuses]
  BY DEF TypeOK, Venues, LegStatuses
<1>3. /\ legStatus' \in [Groups -> [Venues -> LegStatuses]]
      /\ \A h \in Groups : h # g => legStatus'[h] = legStatus[h]
  BY <1>1, <1>2 DEF TypeOK
<1>4. \A x \in Venues : legStatus'[g][x] = "FILLED" => legStatus[g][x] = "FILLED"
  BY <1>1 DEF TypeOK, Venues
<1>5. ledger' \in Ledgers /\ LedgerFrame(g)
  <2>1. ledger \in Ledgers /\ "cex" \in Venues /\ "dex" \in Venues
    BY DEF TypeOK, Venues
  <2>2. /\ Release(ledger, Key(g, "cex")) \in Ledgers
        /\ OthersKept(ledger, Release(ledger, Key(g, "cex")), g)
    BY <2>1, ReleaseOthers
  <2>3. /\ Release(Release(ledger, Key(g, "cex")), Key(g, "dex")) \in Ledgers
        /\ OthersKept(ledger, Release(Release(ledger, Key(g, "cex")), Key(g, "dex")), g)
    BY <2>1, <2>2, ReleaseOthers, KeptTwice
  <2> QED
    BY <2>2, <2>3 DEF HandleCexReject, LedgerFrame
<1> QED
  BY <1>3, <1>4, <1>5 DEF HandleCexReject

LEMMA DexRejectEffect ==
    ASSUME TypeOK, NEW g \in Groups, HandleDexReject(g)
    PROVE  /\ \/ /\ legStatus[g]["cex"] = "FILLED"
                 /\ pairStatus' = [pairStatus EXCEPT ![g] = "UNWINDING"]
                 /\ StartUnwind(g)
              \/ /\ pairStatus' = [pairStatus EXCEPT ![g] = "FAILED"]
                 /\ unwinds' = unwinds /\ reversals' = reversals
           /\ legStatus' \in [Groups -> [Venues -> LegStatuses]]
           /\ \A h \in Groups : h # g => legStatus'[h] = legStatus[h]
           /\ \A x \in Venues : legStatus'[g][x] = "FILLED" => legStatus[g][x] = "FILLED"
           /\ ledger' \in Ledgers
           /\ LedgerFrame(g)
<1>0. ledger \in Ledgers /\ "cex" \in Venues /\ "dex" \in Venues
  BY DEF TypeOK, Venues
<1>1. CASE leg[g]["cex"] # 0 /\ legStatus[g]["cex"] = "FILLED"
  <2>1. /\ legStatus' = [legStatus EXCEPT ![g]["dex"] = "REJECTED"]
        /\ ledger' = Release(ledger, Key(g, "dex"))
        /\ pairStatus' = [pairStatus EXCEPT ![g] = "UNWINDING"]
        /\ StartUnwind(g)
    BY <1>1 DEF HandleDexReject
  <2>2. /\ legStatus' \in [Groups -> [Venues -> LegStatuses]]
        /\ \A h \in Groups : h # g => legStatus'[h] = legStatus[h]
        /\ \A x \in Venues : legStatus'[g][x] = "FILLED" => legStatus[g][x] = "FILLED"
    BY <2>1 DEF TypeOK, Venues, LegStatuses
  <2>3. ledger' \in Ledgers /\ LedgerFrame(g)
    BY <1>0, <2>1, ReleaseOthers DEF LedgerFrame
  <2> QED
    BY <1>1, <2>1, <2>2, <2>3
<1>2. CASE ~(leg[g]["cex"] # 0 /\ legStatus[g]["cex"] = "FILLED")
  <2>1. /\ legStatus' = [legStatus EXCEPT ![g] =
                          [cex |-> IF leg[g]["cex"] # 0 THEN "CANCELLED" ELSE legStatus[g]["cex"],
                           dex |-> "REJECTED"]]
        /\ ledger' = Release(ReleaseLeg(ledger, g, "cex"), Key(g, "dex"))
        /\ pairStatus' = [pairStatus EXCEPT ![g] = "FAILED"]
        /\ unwinds' = unwinds /\ reversals' = reversals
    BY <1>2 DEF HandleDexReject
  <2>2. [cex |-> IF leg[g]["cex"] # 0 THEN "CANCELLED" ELSE legStatus[g]["cex"],
         dex |-> "REJECTED"] \in [Venues -> LegStatuses]
    BY DEF TypeOK, Venues, LegStatuses
  <2>3. /\ legStatus' \in [Groups -> [Venues -> LegStatuses]]
        /\ \A h \in Groups : h # g => legStatus'[h] = legStatus[h]
    BY <2>1, <2>2 DEF TypeOK
  <2>4. \A x \in Venues : legStatus'[g][x] = "FILLED" => legStatus[g][x] = "FILLED"
    BY <2>1 DEF TypeOK, Venues
  <2>5. ledger' \in Ledgers /\ LedgerFrame(g)
    BY <1>0, <2>1, ReleaseOthers, KeptTwice DEF LedgerFrame
  <2> QED
    BY <2>1, <2>3, <2>4, <2>5
<1> QED
  BY <1>1, <1>2

LEMMA StartUnwindEffect ==
    ASSUME TypeOK, NEW g \in Groups, StartUnwind(g)
    PROVE  /\ unwinds' \in [Groups -> UnwindThreads]
           /\ reversals' \in [Groups -> Seq(0 .. MaxSubmits)]
           /\ \A h \in Groups : h # g => unwinds'[h] = unwinds[h] /\ reversals'[h] = reversals[h]
           /\ unwinds'[g].accepted = unwinds[g].accepted
<1> DEFINE u == unwinds[g]
<1>1. u \in UnwindThreads
  BY DEF TypeOK
<1>2. CASE "cex" \in Gateways
  <2>1. unwinds' = [unwinds EXCEPT ![g] = [u EXCEPT !.queued = u.queued + 1]]
    BY <1>2 DEF StartUnwind
  <2>2. /\ [u EXCEPT !.queued = u.queued + 1] \in UnwindThreads
        /\ [u EXCEPT !.queued = u.queued + 1].accepted = u.accepted
    BY <1>1 DEF UnwindThreads
  <2>3. Append(reversals[g], leg[g]["cex"]) \in Seq(0 .. MaxSubmits)
    BY DEF TypeOK, Venues
  <2>4. reversals' = [reversals EXCEPT ![g] = Append(reversals[g], leg[g]["cex"])]
    BY <1>2 DEF StartUnwind
  <2> HIDE DEF u
  <2> QED
    BY <2>1, <2>2, <2>3, <2>4 DEF TypeOK, u
<1>3. CASE "cex" \notin Gateways
  BY <1>1, <1>3 DEF StartUnwind, TypeOK
<1> QED
  BY <1>2, <1>3

LEMMA RefusalArrivesStep ==
    ASSUME IInv, NEW g \in Groups, NEW x \in Venues, RefusalArrives(g, x)
    PROVE  IInv' /\ \A h \in Groups : h # g => Frame(h)
<1>0. TypeOK /\ GroupInv(g)
  BY DEF IInv
<1>1. gw[g][x] = "refused"
  BY <1>0 DEF RefusalArrives, TypeOK, GroupInv, RefusalIsTrue
<1>2. /\ gw' \in [Groups -> [Venues -> GatewayStates]]
      /\ ack' \in [Groups -> [Venues -> {"none", "ok", "fail", "handled"}]]
      /\ \A h \in Groups : h # g => gw'[h] = gw[h] /\ ack'[h] = ack[h]
      /\ \A y \in Venues : (gw[g][y] = "fill_reported") <=> (gw'[g][y] = "fill_reported")
      /\ \A y \in Venues : Executed(g, y) <=> Executed(g, y)'
      /\ \A y \in Venues : (gw[g][y] = "idle") <=> (gw'[g][y] = "idle")
      /\ RefusalIsTrue(g)'
  BY <1>0, <1>1 DEF RefusalArrives, TypeOK, GroupInv, RefusalIsTrue, GatewayStates,
       Executed
<1>3. /\ legStatus' \in [Groups -> [Venues -> LegStatuses]]
      /\ \A h \in Groups : h # g => legStatus'[h] = legStatus[h]
      /\ \A y \in Venues : legStatus'[g][y] = "FILLED" => legStatus[g][y] = "FILLED"
      /\ ledger' \in Ledgers
      /\ LedgerFrame(g)
  BY <1>0, CexRejectEffect, DexRejectEffect DEF RefusalArrives, HandleLegReject
<1>4. /\ unwinds' \in [Groups -> UnwindThreads]
      /\ reversals' \in [Groups -> Seq(0 .. MaxSubmits)]
      /\ \A h \in Groups : h # g => unwinds'[h] = unwinds[h] /\ reversals'[h] = reversals[h]
      /\ unwinds'[g].accepted = unwinds[g].accepted
      /\ \/ unwinds' = unwinds
         \/ legStatus[g]["cex"] = "FILLED"
      /\ \/ pairStatus' = [pairStatus EXCEPT ![g] = "FAILED"]
         \/ pairStatus' = [pairStatus EXCEPT ![g] = "UNWINDING"]
  <2>1. HandleLegReject(g, x) /\ unwinds \in [Groups -> UnwindThreads]
        /\ reversals \in [Groups -> Seq(0 .. MaxSubmits)]
    BY <1>0 DEF RefusalArrives, TypeOK
  <2>2. CASE HandleCexReject(g)
    BY <1>0, <2>1, <2>2, CexRejectEffect
  <2>3. CASE HandleDexReject(g)
    BY <1>0, <2>1, <2>3, DexRejectEffect, StartUnwindEffect
  <2> QED
    BY <2>1, <2>2, <2>3 DEF HandleLegReject
<1>5. /\ leg' = leg /\ recorded' = recorded /\ unwound' = unwound
      /\ UNCHANGED callVars /\ UNCHANGED timerVars
  BY DEF RefusalArrives
<1>6. TypeOK'
  <2>1. pairStatus' \in [Groups -> PairStatuses]
    BY <1>0, <1>4 DEF TypeOK, PairStatuses
  <2>2. /\ leg' \in [Groups -> [Venues -> 0 .. MaxSubmits]]
        /\ recorded' \subseteq Orders
        /\ unwound' \in [Groups -> Nat]
    BY <1>0, <1>5 DEF TypeOK
  <2>3. /\ submitted' \in [Groups -> [Venues -> 0 .. MaxSubmits]]
        /\ callers' \in [Groups -> Nat]
        /\ sender' \in [Groups -> {"idle", "cex", "dex", "monitor", "done"}]
        /\ copied' \in [Groups -> [Venues -> 0 .. MaxSubmits]]
        /\ deadline' \in [Groups -> {"off", "armed", "fired"}]
        /\ monitor' \in [Groups -> {"off", "armed", "fired"}]
    BY <1>0, <1>5 DEF TypeOK, callVars, timerVars
  <2> QED
    BY <1>2, <1>3, <1>4, <2>1, <2>2, <2>3 DEF TypeOK
<1>7. \A h \in Groups : h # g => Frame(h)
  BY <1>0, <1>2, <1>3, <1>4, <1>5 DEF TypeOK, Frame, callVars
<1>8. GroupInv(g)'
  <2>1. pairStatus'[g] \in {"FAILED", "UNWINDING"}
    BY <1>0, <1>4 DEF TypeOK
  <2>2. LegsPresent(g)' /\ Undecided(g)' /\ ReservedInFlight(g)' /\ CompletedEarned(g)'
    BY <1>0, <1>5, <2>1 DEF GroupInv, LegsPresent, HasBothLegs, InFlight, Undecided,
       ReservedInFlight, CompletedEarned, callVars
  <2>3. UnsentIsIdle(g)' /\ FilledIsReported(g)'
    BY <1>0, <1>2, <1>3, <1>5, <2>1 DEF GroupInv, UnsentIsIdle, FilledIsReported,
         FirstFilled,
       Venues, callVars
  <2>4. legStatus[g]["cex"] = "FILLED" => Executed(g, "cex")
    BY <1>0 DEF GroupInv, FilledIsReported, Executed, Venues
  <2>5. UnwindsKnown(g)' /\ UnwindExecuted(g)'
    BY <1>0, <1>2, <1>4, <1>5, <2>1, <2>4 DEF GroupInv, UnwindsKnown, UnwindExecuted,
         Venues
  <2> QED
    BY <1>2, <2>2, <2>3, <2>5 DEF GroupInv
<1> QED
  BY <1>3, <1>6, <1>7, <1>8, GroupStepKeepsInv

LEMMA RevertArrivesStep ==
    ASSUME IInv, NEW g \in Groups, NEW x \in Venues, RevertArrives(g, x)
    PROVE  IInv' /\ \A h \in Groups : h # g => Frame(h)
<1>0. TypeOK /\ GroupInv(g)
  BY DEF IInv
<1>1. gw[g][x] = "reverted"
  BY <1>0 DEF RevertArrives, TypeOK, GroupInv, RefusalIsTrue
<1>2. /\ gw' \in [Groups -> [Venues -> GatewayStates]]
      /\ ack' \in [Groups -> [Venues -> {"none", "ok", "fail", "handled"}]]
      /\ \A h \in Groups : h # g => gw'[h] = gw[h] /\ ack'[h] = ack[h]
      /\ \A y \in Venues : (gw[g][y] = "fill_reported") <=> (gw'[g][y] = "fill_reported")
      /\ \A y \in Venues : Executed(g, y) <=> Executed(g, y)'
      /\ \A y \in Venues : (gw[g][y] = "idle") <=> (gw'[g][y] = "idle")
      /\ RefusalIsTrue(g)'
  BY <1>0, <1>1 DEF RevertArrives, TypeOK, GroupInv, RefusalIsTrue, GatewayStates,
       Executed
<1>3. /\ legStatus' \in [Groups -> [Venues -> LegStatuses]]
      /\ \A h \in Groups : h # g => legStatus'[h] = legStatus[h]
      /\ \A y \in Venues : legStatus'[g][y] = "FILLED" => legStatus[g][y] = "FILLED"
      /\ ledger' \in Ledgers
      /\ LedgerFrame(g)
  BY <1>0, CexRejectEffect, DexRejectEffect DEF RevertArrives, HandleLegReject
<1>4. /\ unwinds' \in [Groups -> UnwindThreads]
      /\ reversals' \in [Groups -> Seq(0 .. MaxSubmits)]
      /\ \A h \in Groups : h # g => unwinds'[h] = unwinds[h] /\ reversals'[h] = reversals[h]
      /\ unwinds'[g].accepted = unwinds[g].accepted
      /\ \/ unwinds' = unwinds
         \/ legStatus[g]["cex"] = "FILLED"
      /\ \/ pairStatus' = [pairStatus EXCEPT ![g] = "FAILED"]
         \/ pairStatus' = [pairStatus EXCEPT ![g] = "UNWINDING"]
  <2>1. HandleLegReject(g, x) /\ unwinds \in [Groups -> UnwindThreads]
        /\ reversals \in [Groups -> Seq(0 .. MaxSubmits)]
    BY <1>0 DEF RevertArrives, TypeOK
  <2>2. CASE HandleCexReject(g)
    BY <1>0, <2>1, <2>2, CexRejectEffect
  <2>3. CASE HandleDexReject(g)
    BY <1>0, <2>1, <2>3, DexRejectEffect, StartUnwindEffect
  <2> QED
    BY <2>1, <2>2, <2>3 DEF HandleLegReject
<1>5. /\ leg' = leg /\ recorded' = recorded /\ unwound' = unwound
      /\ UNCHANGED callVars /\ UNCHANGED timerVars
  BY DEF RevertArrives
<1>6. TypeOK'
  <2>1. pairStatus' \in [Groups -> PairStatuses]
    BY <1>0, <1>4 DEF TypeOK, PairStatuses
  <2>2. /\ leg' \in [Groups -> [Venues -> 0 .. MaxSubmits]]
        /\ recorded' \subseteq Orders
        /\ unwound' \in [Groups -> Nat]
    BY <1>0, <1>5 DEF TypeOK
  <2>3. /\ submitted' \in [Groups -> [Venues -> 0 .. MaxSubmits]]
        /\ callers' \in [Groups -> Nat]
        /\ sender' \in [Groups -> {"idle", "cex", "dex", "monitor", "done"}]
        /\ copied' \in [Groups -> [Venues -> 0 .. MaxSubmits]]
        /\ deadline' \in [Groups -> {"off", "armed", "fired"}]
        /\ monitor' \in [Groups -> {"off", "armed", "fired"}]
    BY <1>0, <1>5 DEF TypeOK, callVars, timerVars
  <2> QED
    BY <1>2, <1>3, <1>4, <2>1, <2>2, <2>3 DEF TypeOK
<1>7. \A h \in Groups : h # g => Frame(h)
  BY <1>0, <1>2, <1>3, <1>4, <1>5 DEF TypeOK, Frame, callVars
<1>8. GroupInv(g)'
  <2>1. pairStatus'[g] \in {"FAILED", "UNWINDING"}
    BY <1>0, <1>4 DEF TypeOK
  <2>2. LegsPresent(g)' /\ Undecided(g)' /\ ReservedInFlight(g)' /\ CompletedEarned(g)'
    BY <1>0, <1>5, <2>1 DEF GroupInv, LegsPresent, HasBothLegs, InFlight, Undecided,
       ReservedInFlight, CompletedEarned, callVars
  <2>3. UnsentIsIdle(g)' /\ FilledIsReported(g)'
    BY <1>0, <1>2, <1>3, <1>5, <2>1 DEF GroupInv, UnsentIsIdle, FilledIsReported,
         FirstFilled,
       Venues, callVars
  <2>4. legStatus[g]["cex"] = "FILLED" => Executed(g, "cex")
    BY <1>0 DEF GroupInv, FilledIsReported, Executed, Venues
  <2>5. UnwindsKnown(g)' /\ UnwindExecuted(g)'
    BY <1>0, <1>2, <1>4, <1>5, <2>1, <2>4 DEF GroupInv, UnwindsKnown, UnwindExecuted,
         Venues
  <2> QED
    BY <1>2, <2>2, <2>3, <2>5 DEF GroupInv
<1> QED
  BY <1>3, <1>6, <1>7, <1>8, GroupStepKeepsInv

LEMMA UnwindReportsStep ==
    ASSUME IInv, NEW g \in Groups, UnwindReports(g)
    PROVE  IInv' /\ \A h \in Groups : h # g => Frame(h)
<1> DEFINE u == unwinds[g]
<1>0. TypeOK /\ GroupInv(g) /\ u \in UnwindThreads /\ unwound[g] \in Nat
  BY DEF IInv, TypeOK
<1>1. \/ /\ u.accepted > 0
         /\ unwinds' = [unwinds EXCEPT ![g] = [queued |-> u.queued, accepted |-> u.accepted - 1,
                                               refused |-> u.refused]]
         /\ pairStatus' = [pairStatus EXCEPT ![g] = "COMPLETED"]
      \/ /\ u.refused > 0
         /\ unwinds' = [unwinds EXCEPT ![g] = [queued |-> u.queued, accepted |-> u.accepted,
                                               refused |-> u.refused - 1]]
         /\ pairStatus' = [pairStatus EXCEPT ![g] = "FAILED"]
  BY <1>0 DEF UnwindReports, TypeOK, UnwindThreads
<1>2. /\ unwinds' \in [Groups -> UnwindThreads]
      /\ pairStatus' \in [Groups -> PairStatuses]
      /\ \A h \in Groups : h # g => unwinds'[h] = unwinds[h] /\ pairStatus'[h] = pairStatus[h]
  <2>1. \A a, b, c \in Nat : [queued |-> a, accepted |-> b, refused |-> c] \in UnwindThreads
    BY DEF UnwindThreads
  <2>2. \A n \in Nat : n > 0 => n - 1 \in Nat
    OBVIOUS
  <2>3. u.queued \in Nat /\ u.accepted \in Nat /\ u.refused \in Nat
    BY <1>0 DEF UnwindThreads
  <2> HIDE DEF u
  <2>4. \E r \in UnwindThreads : unwinds' = [unwinds EXCEPT ![g] = r]
    <3>1. CASE u.accepted > 0 /\ unwinds' = [unwinds EXCEPT ![g] =
                 [queued |-> u.queued, accepted |-> u.accepted - 1, refused |-> u.refused]]
      BY <2>1, <2>2, <2>3, <3>1
    <3>2. CASE u.refused > 0 /\ unwinds' = [unwinds EXCEPT ![g] =
                 [queued |-> u.queued, accepted |-> u.accepted, refused |-> u.refused - 1]]
      BY <2>1, <2>2, <2>3, <3>2
    <3> QED
      BY <1>1, <3>1, <3>2
  <2>5. \E r \in PairStatuses : pairStatus' = [pairStatus EXCEPT ![g] = r]
    BY <1>1 DEF PairStatuses
  <2> QED
    BY <1>0, <2>4, <2>5 DEF TypeOK
<1>3. ledger' \in Ledgers /\ LedgerFrame(g)
  BY <1>0, ReleaseOthers DEF UnwindReports, TypeOK, LedgerFrame, Venues
<1>4. TypeOK'
  BY <1>0, <1>2, <1>3 DEF UnwindReports, TypeOK, callVars, exchVars, timerVars
<1>5. \A h \in Groups : h # g => Frame(h)
  BY <1>2 DEF UnwindReports, Frame, callVars, exchVars
<1>6. GroupInv(g)'
  <2>1. pairStatus'[g] \in {"COMPLETED", "FAILED"} /\ (pairStatus'[g] = "COMPLETED" => u.accepted > 0)
    BY <1>0, <1>1 DEF TypeOK
  <2>2. /\ unwinds'[g].accepted > 0 => u.accepted > 0
        /\ unwinds'[g].queued + unwinds'[g].refused > 0 => u.queued + u.refused > 0
        /\ unwinds'[g] \in UnwindThreads
        /\ unwound'[g] = unwound[g]
    BY <1>0, <1>1, <1>2 DEF TypeOK, UnwindThreads, UnwindReports
  <2>3. UnwindsKnown(g)' /\ UnwindExecuted(g)' /\ CompletedEarned(g)'
    BY <1>0, <2>1, <2>2 DEF GroupInv, UnwindsKnown, UnwindExecuted, CompletedEarned,
         Executed,
       UnwindThreads, UnwindReports, exchVars
  <2>4. LegsPresent(g)' /\ Undecided(g)' /\ ReservedInFlight(g)'
    BY <1>0, <2>1 DEF GroupInv, LegsPresent, HasBothLegs, InFlight, Undecided,
       ReservedInFlight, UnwindReports, callVars
  <2>5. UnsentIsIdle(g)' /\ FilledIsReported(g)' /\ RefusalIsTrue(g)'
    BY <1>0, <2>1 DEF GroupInv, UnsentIsIdle, FilledIsReported, FirstFilled,
         RefusalIsTrue,
       UnwindReports, callVars, exchVars
  <2> QED
    BY <2>3, <2>4, <2>5 DEF GroupInv
<1> QED
  BY <1>3, <1>4, <1>5, <1>6, GroupStepKeepsInv

LEMMA RiskWindowExceededStep ==
    ASSUME IInv, NEW g \in Groups, RiskWindowExceeded(g)
    PROVE  IInv' /\ \A h \in Groups : h # g => Frame(h)
<1>0. TypeOK /\ GroupInv(g) /\ "cex" \in Venues /\ "dex" \in Venues
  BY DEF IInv, Venues
<1>1. /\ leg' = leg /\ recorded' = recorded /\ unwound' = unwound
      /\ UNCHANGED callVars /\ UNCHANGED exchVars
      /\ monitor' \in [Groups -> {"off", "armed", "fired"}]
      /\ deadline' \in [Groups -> {"off", "armed", "fired"}]
  BY <1>0 DEF RiskWindowExceeded, TypeOK
<1>2. \/ /\ pairStatus[g] = "CEX_FILLED"
         /\ pairStatus' = [pairStatus EXCEPT ![g] = "UNWINDING"]
         /\ StartUnwind(g)
      \/ /\ pairStatus[g] = "DEX_FILLED"
         /\ pairStatus' = [pairStatus EXCEPT ![g] = "FAILED"]
         /\ unwinds' = unwinds /\ reversals' = reversals
      \/ /\ pairStatus' = pairStatus /\ reversals' = reversals
         /\ unwinds' = unwinds /\ ledger' = ledger
  BY DEF RiskWindowExceeded
<1>3. /\ legStatus' \in [Groups -> [Venues -> LegStatuses]]
      /\ \A h \in Groups : h # g => legStatus'[h] = legStatus[h]
      /\ \A x \in Venues : legStatus'[g][x] = "FILLED" => legStatus[g][x] = "FILLED"
  <2>1. CASE legStatus' = [legStatus EXCEPT ![g]["dex"] = "TIMEOUT"]
    BY <1>0, <2>1 DEF TypeOK, LegStatuses
  <2>2. CASE legStatus' = [legStatus EXCEPT ![g]["cex"] = "TIMEOUT"]
    BY <1>0, <2>2 DEF TypeOK, LegStatuses
  <2>3. CASE legStatus' = legStatus
    BY <1>0, <2>3 DEF TypeOK
  <2> QED
    BY <2>1, <2>2, <2>3 DEF RiskWindowExceeded
<1>4. ledger' \in Ledgers /\ LedgerFrame(g)
  <2>1. ledger \in Ledgers /\ OthersKept(ledger, ledger, g)
    BY <1>0 DEF TypeOK, OthersKept
  <2>2. /\ Release(ledger, Key(g, "dex")) \in Ledgers
        /\ OthersKept(ledger, Release(ledger, Key(g, "dex")), g)
    BY <1>0, <2>1, ReleaseOthers
  <2>3. /\ Release(ledger, Key(g, "cex")) \in Ledgers
        /\ OthersKept(ledger, Release(ledger, Key(g, "cex")), g)
    BY <1>0, <2>1, ReleaseOthers
  <2>4. /\ Release(Release(ledger, Key(g, "cex")), Key(g, "dex")) \in Ledgers
        /\ OthersKept(ledger, Release(Release(ledger, Key(g, "cex")), Key(g, "dex")), g)
    BY <1>0, <2>3, ReleaseOthers, KeptTwice
  <2> QED
    BY <2>1, <2>2, <2>4 DEF RiskWindowExceeded, LedgerFrame
<1>5. /\ unwinds' \in [Groups -> UnwindThreads]
      /\ reversals' \in [Groups -> Seq(0 .. MaxSubmits)]
      /\ \A h \in Groups : h # g => unwinds'[h] = unwinds[h] /\ reversals'[h] = reversals[h]
      /\ unwinds'[g].accepted = unwinds[g].accepted
      /\ pairStatus' \in [Groups -> PairStatuses]
      /\ \A h \in Groups : h # g => pairStatus'[h] = pairStatus[h]
  BY <1>0, <1>2, StartUnwindEffect DEF TypeOK, PairStatuses
<1>6. TypeOK'
  <2>1. /\ leg' \in [Groups -> [Venues -> 0 .. MaxSubmits]]
        /\ recorded' \subseteq Orders
        /\ unwound' \in [Groups -> Nat]
    BY <1>0, <1>1 DEF TypeOK
  <2> QED
    BY <1>0, <1>1, <1>3, <1>4, <1>5, <2>1 DEF TypeOK, callVars, exchVars
<1>7. \A h \in Groups : h # g => Frame(h)
  BY <1>1, <1>3, <1>5 DEF Frame, callVars, exchVars
<1>8. GroupInv(g)'
  <2>1. UnsentIsIdle(g)' /\ RefusalIsTrue(g)'
    BY <1>0, <1>1 DEF GroupInv, UnsentIsIdle, RefusalIsTrue, callVars, exchVars
  <2>2. CASE pairStatus' = pairStatus /\ unwinds' = unwinds /\ ledger' = ledger
    BY <1>0, <1>1, <1>3, <2>1, <2>2 DEF GroupInv, LegsPresent, HasBothLegs, Undecided,
       FilledIsReported, UnwindsKnown, ReservedInFlight, SentKey, UnwindExecuted,
       CompletedEarned, Executed, callVars, exchVars
  <2>3. CASE /\ pairStatus[g] \in {"CEX_FILLED", "DEX_FILLED"}
             /\ pairStatus'[g] \in {"UNWINDING", "FAILED"}
             /\ unwinds' = unwinds \/ pairStatus[g] = "CEX_FILLED"
    <3>1. /\ LegsPresent(g)' /\ Undecided(g)' /\ FilledIsReported(g)'
          /\ ReservedInFlight(g)' /\ CompletedEarned(g)'
      BY <1>0, <1>1, <1>3, <2>3 DEF GroupInv, LegsPresent, HasBothLegs, InFlight,
           Undecided,
         FilledIsReported, FirstFilled, ReservedInFlight, CompletedEarned, callVars,
         exchVars
    <3>2. pairStatus[g] = "CEX_FILLED" => Executed(g, "cex")
      BY <1>0 DEF GroupInv, FilledIsReported, FirstFilled, Executed, Venues
    <3>3. UnwindsKnown(g)' /\ UnwindExecuted(g)'
      BY <1>0, <1>1, <1>5, <2>3, <3>2 DEF GroupInv, UnwindsKnown, UnwindExecuted,
           Executed,
         exchVars
    <3> QED
      BY <2>1, <3>1, <3>3 DEF GroupInv
  <2> QED
    BY <1>0, <1>2, <2>2, <2>3 DEF TypeOK
<1> QED
  BY <1>4, <1>6, <1>7, <1>8, GroupStepKeepsInv

LEMMA RejectPresentLegsEffect ==
    ASSUME TypeOK, NEW g \in Groups, RejectPresentLegs(g)
    PROVE  /\ legStatus' \in [Groups -> [Venues -> LegStatuses]]
           /\ \A h \in Groups : h # g => legStatus'[h] = legStatus[h]
           /\ \A x \in Venues : legStatus'[g][x] = "FILLED" => legStatus[g][x] = "FILLED"
<1> DEFINE r == [x \in Venues |-> IF leg[g][x] # 0 THEN "REJECTED" ELSE legStatus[g][x]]
<1>1. legStatus' = [legStatus EXCEPT ![g] = r]
  BY DEF RejectPresentLegs
<1>2. r \in [Venues -> LegStatuses] /\ \A x \in Venues : r[x] = "FILLED" => legStatus[g][x] = "FILLED"
  BY DEF TypeOK, LegStatuses
<1> HIDE DEF r
<1> QED
  BY <1>1, <1>2 DEF TypeOK

LEMMA DeadlineFiresStep ==
    ASSUME IInv, NEW g \in Groups, DeadlineFires(g)
    PROVE  IInv' /\ \A h \in Groups : h # g => Frame(h)
<1>0. TypeOK /\ GroupInv(g) /\ ledger \in Ledgers /\ "cex" \in Venues /\ "dex" \in Venues
  BY DEF IInv, TypeOK, Venues
<1>1. /\ leg' = leg /\ recorded' = recorded
      /\ UNCHANGED <<callVars, exchVars, monitor, unwindVars>>
      /\ deadline' \in [Groups -> {"off", "armed", "fired"}]
  BY <1>0 DEF DeadlineFires, TypeOK
<1>2. /\ legStatus' \in [Groups -> [Venues -> LegStatuses]]
      /\ \A h \in Groups : h # g => legStatus'[h] = legStatus[h]
      /\ \A x \in Venues : legStatus'[g][x] = "FILLED" => legStatus[g][x] = "FILLED"
  <2>1. CASE RejectPresentLegs(g)
    BY <1>0, <2>1, RejectPresentLegsEffect
  <2>2. CASE legStatus' = legStatus
    BY <1>0, <2>2 DEF TypeOK
  <2> QED
    BY <2>1, <2>2 DEF DeadlineFires
<1>3. ledger' \in Ledgers /\ LedgerFrame(g)
  <2>1. OthersKept(ledger, ledger, g)
    BY DEF OthersKept
  <2>2. /\ ReleaseLeg(ReleaseLeg(ledger, g, "cex"), g, "dex") \in Ledgers
        /\ OthersKept(ledger, ReleaseLeg(ReleaseLeg(ledger, g, "cex"), g, "dex"), g)
    BY <1>0, ReleaseOthers, KeptTwice
  <2> QED
    BY <1>0, <2>1, <2>2 DEF DeadlineFires, LedgerFrame
<1>4. \/ pairStatus' = pairStatus /\ ledger' = ledger
      \/ pairStatus[g] = "ASSEMBLING" /\ pairStatus' = [pairStatus EXCEPT ![g] = "FAILED"]
  BY DEF DeadlineFires
<1>5. /\ pairStatus' \in [Groups -> PairStatuses]
      /\ \A h \in Groups : h # g => pairStatus'[h] = pairStatus[h]
  BY <1>0, <1>4 DEF TypeOK, PairStatuses
<1>6. TypeOK'
  <2>1. leg' \in [Groups -> [Venues -> 0 .. MaxSubmits]] /\ recorded' \subseteq Orders
    BY <1>0, <1>1 DEF TypeOK
  <2> QED
    BY <1>0, <1>1, <1>2, <1>3, <1>5, <2>1 DEF TypeOK, callVars, exchVars, unwindVars
<1>7. \A h \in Groups : h # g => Frame(h)
  BY <1>1, <1>2, <1>5 DEF Frame, callVars, exchVars, unwindVars
<1>8. GroupInv(g)'
  <2>1. UnsentIsIdle(g)' /\ RefusalIsTrue(g)' /\ UnwindExecuted(g)'
    BY <1>0, <1>1 DEF GroupInv, UnsentIsIdle, RefusalIsTrue, UnwindExecuted, Executed,
       callVars, exchVars, unwindVars
  <2>2. CASE pairStatus' = pairStatus /\ ledger' = ledger
    BY <1>0, <1>1, <1>2, <2>1, <2>2 DEF GroupInv, LegsPresent, HasBothLegs, Undecided,
       FilledIsReported, UnwindsKnown, ReservedInFlight, SentKey,
       CompletedEarned, Executed, callVars, exchVars, unwindVars
  <2>3. CASE pairStatus[g] = "ASSEMBLING" /\ pairStatus'[g] = "FAILED"
    BY <1>0, <1>1, <1>2, <2>1, <2>3 DEF GroupInv, LegsPresent, HasBothLegs, InFlight,
         Undecided,
       FilledIsReported, FirstFilled, UnwindsKnown, ReservedInFlight,
       CompletedEarned, callVars, exchVars, unwindVars
  <2> QED
    BY <1>0, <1>4, <2>2, <2>3 DEF TypeOK
<1> QED
  BY <1>3, <1>6, <1>7, <1>8, GroupStepKeepsInv

LEMMA DispatchPairStep ==
    ASSUME IInv, NEW g \in Groups, DispatchPair(g)
    PROVE  IInv' /\ \A h \in Groups : h # g => Frame(h)
<1> DEFINE c == Key(g, "cex")
           d == Key(g, "dex")
<1>0. TypeOK /\ GroupInv(g) /\ ledger \in Ledgers /\ "cex" \in Venues /\ "dex" \in Venues
  BY DEF IInv, TypeOK, Venues
<1>1. \A x \in Venues : leg[g][x] \in 1 .. MaxSubmits
  BY <1>0, ArbAssumption DEF DispatchPair, GroupInv, LegsPresent, HasBothLegs, TypeOK
<1>2. c \in Keys /\ d \in Keys /\ c # d
  BY <1>0, <1>1, OrderIsKey DEF Key
<1>3. ledger.reserved[c] = 0 /\ ledger.reserved[d] = 0
  BY <1>0, <1>1 DEF DispatchPair, GroupInv, Undecided, Key
<1>4. /\ Reserve(ledger, c) \in Ledgers
      /\ Reserve(ledger, c).reserved[c] = RequiredMargin(c)
      /\ \A j \in Keys : j # c => Reserve(ledger, c).reserved[j] = ledger.reserved[j]
  BY <1>0, <1>2, <1>3, ReserveType, RequiredMarginType
<1>5. /\ ledger' \in Ledgers
      /\ ledger'.reserved[c] = RequiredMargin(c)
      /\ ledger'.reserved[d] = RequiredMargin(d)
      /\ \A j \in Keys : j # c /\ j # d => ledger'.reserved[j] = ledger.reserved[j]
  <2>1. ledger' = Reserve(Reserve(ledger, c), d)
    BY DEF DispatchPair, ReservePair
  <2> DEFINE l == Reserve(ledger, c)
  <2>2. l \in Ledgers /\ l.reserved[d] = 0 /\ l.reserved[c] = RequiredMargin(c)
    BY <1>2, <1>3, <1>4
  <2> HIDE DEF l, c, d
  <2>3. /\ Reserve(l, d) \in Ledgers
        /\ Reserve(l, d).reserved[d] = RequiredMargin(d)
        /\ \A j \in Keys : j # d => Reserve(l, d).reserved[j] = l.reserved[j]
    BY <1>2, <2>2, ReserveType, RequiredMarginType
  <2> QED
    BY <1>2, <1>4, <2>1, <2>2, <2>3 DEF l
<1>6. LedgerFrame(g)
  BY <1>5, OrderIsKey DEF LedgerFrame, OthersKept, Key
<1>7. TypeOK'
  BY <1>0, <1>5 DEF DispatchPair, TypeOK, LegStatuses, PairStatuses, exchVars,
       timerVars, unwindVars
<1>8. \A h \in Groups : h # g => Frame(h)
  BY <1>0 DEF DispatchPair, Frame, TypeOK, exchVars, unwindVars
<1>9. GroupInv(g)'
  <2>1. /\ pairStatus'[g] = "DISPATCHED" /\ copied'[g] = leg[g] /\ leg' = leg
        /\ sender'[g] = "cex" /\ legStatus'[g] = [x \in Venues |-> "SENT"]
        /\ callers'[g] = callers[g] - 1 /\ callers[g] > 0
    BY <1>0 DEF DispatchPair, TypeOK
  <2>2. LegsPresent(g)' /\ Undecided(g)'
    BY <1>0, <1>1, <2>1 DEF LegsPresent, HasBothLegs, Undecided
  <2>3. UnsentIsIdle(g)' /\ RefusalIsTrue(g)' /\ FilledIsReported(g)'
    BY <1>0, <2>1 DEF DispatchPair, GroupInv, Undecided, UnsentIsIdle, RefusalIsTrue,
       FilledIsReported, FirstFilled, exchVars
  <2>4. ReservedInFlight(g)'
    BY <1>5, <2>1 DEF ReservedInFlight, SentKey, Key, Venues
  <2>5. UnwindsKnown(g)' /\ UnwindExecuted(g)' /\ CompletedEarned(g)'
    BY <1>0, <2>1 DEF DispatchPair, GroupInv, UnwindsKnown, UnwindExecuted,
         CompletedEarned,
       Executed, exchVars, unwindVars
  <2> QED
    BY <2>2, <2>3, <2>4, <2>5 DEF GroupInv
<1> QED
  BY <1>6, <1>7, <1>8, <1>9, GroupStepKeepsInv

LEMMA FillArrivesStep ==
    ASSUME IInv, NEW g \in Groups, NEW x \in Venues, FillArrives(g, x)
    PROVE  IInv' /\ \A h \in Groups : h # g => Frame(h)
<1>0. TypeOK /\ GroupInv(g) /\ ledger \in Ledgers /\ "cex" \in Venues /\ "dex" \in Venues
  BY DEF IInv, TypeOK, Venues
<1>1. /\ leg' = leg /\ gw[g][x] = "filled" /\ gw' = [gw EXCEPT ![g][x] = "fill_reported"]
      /\ legStatus' = [legStatus EXCEPT ![g][x] = "FILLED"]
      /\ recorded' = recorded \cup {Key(g, x)}
      /\ UNCHANGED <<callVars, ack, timerVars, unwindVars>>
  BY DEF FillArrives
<1>2. /\ gw' \in [Groups -> [Venues -> GatewayStates]]
      /\ legStatus' \in [Groups -> [Venues -> LegStatuses]]
      /\ \A h \in Groups : h # g => gw'[h] = gw[h] /\ legStatus'[h] = legStatus[h]
      /\ gw'[g][x] = "fill_reported"
      /\ \A y \in Venues : y # x => gw'[g][y] = gw[g][y] /\ legStatus'[g][y] = legStatus[g][y]
  BY <1>0, <1>1 DEF TypeOK, GatewayStates, LegStatuses
<1>3. leg[g][x] \in 1 .. MaxSubmits
  <2>1. sender[g] # "idle"
    BY <1>0, <1>1 DEF GroupInv, UnsentIsIdle, Venues
  <2>2. copied[g][x] # 0 /\ leg[g][x] = copied[g][x]
    BY <1>0, <2>1 DEF FillArrives, Matches, GroupInv, LegsPresent
  <2> QED
    BY <1>0, <2>2, ArbAssumption DEF TypeOK
<1>4. recorded' \subseteq Orders
  BY <1>0, <1>1, <1>3, OrderIsKey DEF TypeOK, Key
<1>5. \/ /\ pairStatus[g] = "DISPATCHED"
         /\ pairStatus' = [pairStatus EXCEPT ![g] = FirstFilled(x)]
         /\ ledger' = ledger
      \/ /\ pairStatus[g] = FirstFilled(Other(x))
         /\ FinalizePair(g, recorded')
      \/ /\ pairStatus' = pairStatus /\ ledger' = ledger
         /\ pairStatus[g] # "DISPATCHED"
  BY DEF FillArrives
<1>6. ledger' \in Ledgers /\ LedgerFrame(g)
  <2>1. OthersKept(ledger, ledger, g)
    BY DEF OthersKept
  <2>2. CASE pairStatus[g] = FirstFilled(Other(x)) /\ FinalizePair(g, recorded')
    <3>1. \A y \in Venues : leg[g][y] \in 1 .. MaxSubmits
      BY <1>0, <2>2, ArbAssumption DEF GroupInv, LegsPresent, InFlight, FirstFilled,
           TypeOK
    <3>2. /\ BookLeg(ledger, g, "cex", recorded') \in Ledgers
          /\ OthersKept(ledger, BookLeg(ledger, g, "cex", recorded'), g)
      BY <1>0, <3>1, BookLegOthers
    <3>3. /\ BookLeg(BookLeg(ledger, g, "cex", recorded'), g, "dex", recorded') \in Ledgers
          /\ OthersKept(BookLeg(ledger, g, "cex", recorded'),
                        BookLeg(BookLeg(ledger, g, "cex", recorded'), g, "dex", recorded'), g)
      BY <1>0, <3>1, <3>2, BookLegOthers
    <3> QED
      BY <2>2, <3>2, <3>3, KeptTwice DEF FinalizePair, LedgerFrame
  <2> QED
    BY <1>0, <1>5, <2>1, <2>2 DEF LedgerFrame
<1>7. /\ pairStatus' \in [Groups -> PairStatuses]
      /\ \A h \in Groups : h # g => pairStatus'[h] = pairStatus[h]
      /\ \/ /\ pairStatus[g] = "DISPATCHED" /\ pairStatus'[g] = FirstFilled(x)
            /\ ledger' = ledger
         \/ /\ pairStatus[g] = FirstFilled(Other(x)) /\ pairStatus'[g] = "COMPLETED"
         \/ /\ pairStatus'[g] = pairStatus[g] /\ ledger' = ledger
  BY <1>0, <1>5 DEF TypeOK, PairStatuses, FirstFilled, FinalizePair
<1>8. TypeOK'
  <2>1. leg' \in [Groups -> [Venues -> 0 .. MaxSubmits]]
    BY <1>0, <1>1 DEF TypeOK
  <2> QED
    BY <1>0, <1>1, <1>2, <1>4, <1>6, <1>7, <2>1 DEF TypeOK, callVars, timerVars,
         unwindVars
<1>9. \A h \in Groups : h # g => Frame(h)
  BY <1>1, <1>2, <1>7 DEF Frame, callVars, unwindVars
<1>10. GroupInv(g)'
  <2>1. UnsentIsIdle(g)' /\ RefusalIsTrue(g)'
    BY <1>0, <1>1, <1>2 DEF GroupInv, UnsentIsIdle, RefusalIsTrue, callVars, Venues
  <2>2. \A y \in Venues : Executed(g, y) => Executed(g, y)'
    BY <1>2 DEF Executed
  <2>3. UnwindExecuted(g)'
    BY <1>0, <1>1, <2>2 DEF GroupInv, UnwindExecuted, unwindVars
  <2>4. FilledIsReported(g)'
    BY <1>0, <1>2, <1>7 DEF GroupInv, FilledIsReported, FirstFilled, Venues
  <2>5. UnwindsKnown(g)'
    <3>1. /\ unwinds[g].queued \in Nat /\ unwinds[g].refused \in Nat /\ unwound[g] \in Nat
          /\ unwinds' = unwinds /\ unwound' = unwound
      BY <1>0, <1>1 DEF TypeOK, UnwindThreads, unwindVars
    <3>2. CASE pairStatus'[g] = pairStatus[g]
      BY <1>0, <3>1, <3>2 DEF GroupInv, UnwindsKnown
    <3>3. CASE pairStatus[g] \in InFlight
      <4>1. ~(unwound[g] + unwinds[g].queued + unwinds[g].refused > 0)
        BY <1>0, <3>3 DEF GroupInv, UnwindsKnown, InFlight
      <4>2. unwound[g] = 0 /\ unwinds[g].queued + unwinds[g].refused = 0
        BY <3>1, <4>1
      <4> QED
        BY <1>0, <3>1, <4>2 DEF GroupInv, UnwindsKnown
    <3> QED
      BY <1>7, <3>2, <3>3 DEF InFlight, FirstFilled
  <2>6. CompletedEarned(g)'
    <3>1. pairStatus[g] = FirstFilled(Other(x)) => Executed(g, Other(x))
      BY <1>0 DEF GroupInv, FilledIsReported, Executed, Other, Venues
    <3>2. Executed(g, x)'
      BY <1>2 DEF Executed
    <3>3. \A y \in Venues : y = x \/ y = Other(x)
      BY DEF Venues, Other
    <3> QED
      BY <1>0, <1>1, <1>7, <2>2, <3>1, <3>2, <3>3 DEF GroupInv, CompletedEarned,
           FirstFilled,
         unwindVars
  <2>7. LegsPresent(g)' /\ Undecided(g)' /\ ReservedInFlight(g)'
    BY <1>0, <1>1, <1>7 DEF GroupInv, LegsPresent, HasBothLegs, InFlight, FirstFilled,
         Undecided,
       ReservedInFlight, SentKey, callVars
  <2> QED
    BY <2>1, <2>3, <2>4, <2>5, <2>6, <2>7 DEF GroupInv
<1> QED
  BY <1>6, <1>8, <1>9, <1>10, GroupStepKeepsInv

-----------------------------------------------------------------------------
(* The invariant holds initially and is kept by every step.                *)

LEMMA InitInv == Init => IInv
<1> SUFFICES ASSUME Init PROVE IInv
  OBVIOUS
<1>1. ledger \in Ledgers
  BY DEF Init, EmptyLedger, Ledgers
<1>2. \A x \in Venues, g \in Groups, n \in 1 .. MaxSubmits : ledger.reserved[<<g, x, n>>] = 0
  BY OrderIsKey DEF Init, EmptyLedger
<1>3. TypeOK
  BY <1>1, ArbAssumption DEF Init, TypeOK, PerLeg, PairStatuses, LegStatuses,
       GatewayStates,
     UnwindThreads
<1>4. ASSUME NEW g \in Groups PROVE GroupInv(g)
  <2>0. /\ callers[g] = 0 /\ pairStatus[g] = "NONE" /\ sender[g] = "idle"
        /\ \A x \in Venues : /\ copied[g][x] = 0 /\ gw[g][x] = "idle"
                            /\ legStatus[g][x] = "NONE" /\ ack[g][x] = "none"
    BY DEF Init, PerLeg
  <2>1. LegsPresent(g) /\ Undecided(g) /\ UnsentIsIdle(g) /\ FilledIsReported(g) /\ RefusalIsTrue(g)
    BY <1>2, <2>0 DEF LegsPresent, InFlight, Undecided, UnsentIsIdle, FilledIsReported,
       FirstFilled, RefusalIsTrue, Venues
  <2>2. UnwindsKnown(g) /\ ReservedInFlight(g) /\ UnwindExecuted(g) /\ CompletedEarned(g)
    BY DEF Init, PerLeg, UnwindsKnown, InFlight, ReservedInFlight, UnwindExecuted,
         CompletedEarned
  <2> QED
    BY <2>1, <2>2 DEF GroupInv
<1> QED
  BY <1>3, <1>4 DEF IInv

LEMMA GroupStepInv ==
    ASSUME IInv, NEW g \in Groups, GroupStep(g)
    PROVE  IInv'
<1>1. CASE DeadlineFires(g)
  BY <1>1, DeadlineFiresStep
<1>2. CASE DispatchStep(g)
  BY <1>2, DispatchTooLateStep, DispatchUnaffordableStep,
       DispatchPairStep DEF DispatchStep
<1>3. CASE StartRiskWindowMonitor(g)
  BY <1>3, StartRiskWindowMonitorStep
<1>4. CASE RiskWindowExceeded(g)
  BY <1>4, RiskWindowExceededStep
<1>5. CASE UnwindStep(g)
  BY <1>5, UnwindAcceptedStep, UnwindRefusedStep, UnwindReportsStep DEF UnwindStep
<1> QED
  BY <1>1, <1>2, <1>3, <1>4, <1>5 DEF GroupStep

LEMMA VenueStepInv ==
    ASSUME IInv, NEW g \in Groups, NEW x \in Venues, VenueStep(g, x)
    PROVE  IInv'
<1>1. CASE AddLeg(g, x)
  BY <1>1, AddLegStep
<1>2. CASE SendLeg(g, x)
  BY <1>2, SendLegStep
<1>3. CASE GatewayAccepts(g, x) \/ GatewayRefuses(g, x)
  BY <1>3, GatewayAcceptsStep, GatewayRefusesStep
<1>4. CASE GatewayFills(g, x) \/ GatewayReverts(g, x)
  BY <1>4, GatewayFillsStep, GatewayRevertsStep
<1>5. CASE AnswerStep(g, x)
  BY <1>5, AckArrivesStep, RefusalArrivesStep, FillArrivesStep, RevertArrivesStep,
     UnmatchedReportStep DEF AnswerStep
<1> QED
  BY <1>1, <1>2, <1>3, <1>4, <1>5 DEF VenueStep

LEMMA StutterInv ==
    ASSUME IInv, UNCHANGED vars
    PROVE  IInv'
<1>1. TypeOK'
  BY DEF IInv, TypeOK, vars, pairVars, callVars, exchVars, timerVars, unwindVars
<1>2. \A h \in Groups : Frame(h)
  BY DEF Frame, vars, pairVars, callVars, exchVars, unwindVars
<1>3. ledger' = ledger
  BY DEF vars
<1> QED
  BY <1>1, <1>2, <1>3, FrameKeepsGroup DEF IInv

LEMMA NextInv == IInv /\ [Next]_vars => IInv'
BY GroupStepInv, VenueStepInv, StutterInv DEF Next

\* The inductive invariant holds in every reachable state.
THEOREM Invariance == Spec => []IInv
<1>1. Init => IInv
  BY InitInv
<1>2. IInv /\ [Next]_vars => IInv'
  BY NextInv
<1> QED
  BY <1>1, <1>2, PTL DEF Spec

\* Every variable keeps its type: in particular no release, booking or unwind
\* takes a reservation or a count of threads below zero.
THEOREM TypeCorrect == Spec => []TypeOK
<1>1. IInv => TypeOK
  BY DEF IInv
<1> QED
  BY <1>1, Invariance, PTL

\* Both orders of a pair that waits for its fills are covered by reserved margin.
THEOREM ReservedWhileInFlight == Spec => []InFlightIsReserved
<1>1. IInv => InFlightIsReserved
  BY DEF IInv, GroupInv, InFlightIsReserved
<1> QED
  BY <1>1, Invariance, PTL

\* A COMPLETED pair was executed on both venues or reversed.
THEOREM CompletionEarned == Spec => []CompletedIsEarned
<1>1. IInv => CompletedIsEarned
  BY DEF IInv, GroupInv, CompletedIsEarned
<1> QED
  BY <1>1, Invariance, PTL

-----------------------------------------------------------------------------
(* The reversals: how many, and of which orders.                           *)

Over == {"UNWINDING", "FAILED", "COMPLETED"}

OpenUnwinds(g) == unwound[g] + unwinds[g].queued + unwinds[g].refused

\* What a step leaves of the causes of a reversal and of the order it is of.
CausesKept(g) ==
    /\ sender'[g] # "done" => monitor'[g] = "off"
    /\ monitor[g] = "fired" => monitor'[g] = "fired"
    /\ DexRejected(g) => DexRejected(g)'
    /\ Executed(g, "cex") => Executed(g, "cex")'
    /\ pairStatus[g] \in Over => pairStatus'[g] \in Over
    /\ LegIsLatest(g)' /\ submitted[g]["cex"] <= submitted'[g]["cex"]
    /\ copied'[g]["cex"] = copied[g]["cex"] \/ pairStatus[g] \notin Over

\* A step that makes no reversal.
ReversalsKept(g) ==
    /\ CausesKept(g)
    /\ reversals'[g] = reversals[g]
    /\ OpenUnwinds(g)' <= OpenUnwinds(g)

LEMMA ReversalTypes ==
    ASSUME TypeOK, NEW g \in Groups
    PROVE  /\ reversals[g] \in Seq(0 .. MaxSubmits) /\ Len(reversals[g]) \in Nat
           /\ \A i \in DOMAIN reversals[g] : reversals[g][i] \in Nat
           /\ copied[g]["cex"] \in Nat /\ submitted[g]["cex"] \in Nat /\ leg[g]["cex"] \in Nat
           /\ Causes(g) \in Nat /\ OpenUnwinds(g) \in Nat
<1>1. /\ reversals[g] \in Seq(0 .. MaxSubmits) /\ unwinds[g] \in UnwindThreads
      /\ unwound[g] \in Nat
      /\ copied[g]["cex"] \in Nat /\ submitted[g]["cex"] \in Nat /\ leg[g]["cex"] \in Nat
  BY ArbAssumption DEF TypeOK, Venues
<1>2. Causes(g) \in Nat /\ OpenUnwinds(g) \in Nat
  BY <1>1 DEF Causes, OpenUnwinds, UnwindThreads
<1>3. \A i \in DOMAIN reversals[g] : reversals[g][i] \in Nat
  BY <1>1, ArbAssumption
<1> QED
  BY <1>1, <1>2, <1>3

LEMMA ReversalsKeptInv ==
    ASSUME TypeOK, TypeOK', NEW g \in Groups, ReverseInv(g), ReversalsKept(g)
    PROVE  ReverseInv(g)'
<1>1. /\ Len(reversals[g]) <= Causes(g) /\ Causes(g) <= Causes(g)'
      /\ OpenUnwinds(g) <= Len(reversals[g])
      /\ OpenUnwinds(g)' \in Nat /\ Causes(g)' \in Nat
  <2>1. unwinds'[g] \in UnwindThreads /\ unwound'[g] \in Nat
    BY DEF TypeOK
  <2>2. OpenUnwinds(g)' \in Nat
    BY <2>1 DEF OpenUnwinds, UnwindThreads
  <2>3. Causes(g)' \in Nat /\ Causes(g) <= Causes(g)'
    BY DEF ReversalsKept, CausesKept, Causes
  <2> QED
    BY <2>2, <2>3 DEF ReversalsKept, CausesKept, Causes, ReverseInv, ReverseJustified, OpenUnwinds
<1>2. Len(reversals'[g]) <= Causes(g)' /\ OpenUnwinds(g)' <= Len(reversals'[g])
  BY <1>1, ReversalTypes DEF ReversalsKept
<1>3. ASSUME NEW i \in DOMAIN reversals'[g]
      PROVE  reversals'[g][i] \in copied'[g]["cex"] .. submitted'[g]["cex"]
  <2>1. i \in DOMAIN reversals[g] /\ reversals'[g][i] = reversals[g][i]
    BY <1>3 DEF ReversalsKept
  <2>2. reversals[g] # << >>
    BY <2>1
  <2>3. copied'[g]["cex"] = copied[g]["cex"]
    BY <2>2 DEF ReverseInv, ReversalsKept, CausesKept, Over
  <2>4. reversals[g][i] \in copied[g]["cex"] .. submitted[g]["cex"]
    BY <2>1 DEF ReverseInv, ReverseJustified
  <2>5. copied'[g]["cex"] \in Nat /\ submitted'[g]["cex"] \in Nat
    <3>1. /\ copied' \in [Groups -> [Venues -> 0 .. MaxSubmits]]
          /\ submitted' \in [Groups -> [Venues -> 0 .. MaxSubmits]]
      BY DEF TypeOK
    <3> QED
      BY <3>1, ArbAssumption DEF Venues
  <2> QED
    BY <2>1, <2>3, <2>4, <2>5, ReversalTypes DEF ReversalsKept, CausesKept
<1>4. reversals'[g] # << >> => Executed(g, "cex")' /\ pairStatus'[g] \in Over
  BY DEF ReversalsKept, CausesKept, ReverseInv, ReverseJustified, Over
<1>5. ReverseJustified(g)'
  BY <1>2, <1>3, <1>4 DEF ReverseJustified
<1> QED
  BY <1>2, <1>4, <1>5 DEF ReverseInv, ReversalsKept, CausesKept, OpenUnwinds, Over

\* start_unwind, for a cause that was not there before.
LEMMA ReversalMadeInv ==
    ASSUME TypeOK, TypeOK', NEW g \in Groups, ReverseInv(g), CausesKept(g), StartUnwind(g),
           unwound'[g] = unwound[g], Executed(g, "cex"), pairStatus'[g] \in Over,
           Causes(g)' = Causes(g) + 1, copied' = copied, submitted' = submitted
    PROVE  ReverseInv(g)'
<1>1. CASE "cex" \notin Gateways
  <2>1. ReversalsKept(g)
    BY <1>1, ReversalTypes DEF ReversalsKept, StartUnwind, OpenUnwinds
  <2> QED
    BY <2>1, ReversalsKeptInv
<1>2. CASE "cex" \in Gateways
  <2> DEFINE made == reversals[g]
  <2>1. made \in Seq(0 .. MaxSubmits) /\ Len(made) \in Nat /\ leg[g]["cex"] \in 0 .. MaxSubmits
    <3>1. leg \in [Groups -> [Venues -> 0 .. MaxSubmits]]
      BY DEF TypeOK
    <3> QED
      BY <3>1, ReversalTypes DEF Venues
  <2>2. reversals'[g] = Append(made, leg[g]["cex"])
    BY <1>2 DEF StartUnwind, TypeOK
  <2>3. OpenUnwinds(g)' = OpenUnwinds(g) + 1
    <3>1. /\ unwinds'[g].queued = unwinds[g].queued + 1
          /\ unwinds'[g].refused = unwinds[g].refused
      BY <1>2 DEF StartUnwind, TypeOK, UnwindThreads
    <3> QED
      BY <3>1 DEF OpenUnwinds, TypeOK, UnwindThreads
  <2>4. /\ Len(reversals'[g]) = Len(made) + 1
        /\ DOMAIN reversals'[g] = 1 .. Len(made) + 1
        /\ \A i \in 1 .. Len(made) : reversals'[g][i] = made[i]
        /\ reversals'[g][Len(made) + 1] = leg[g]["cex"]
    BY <2>1, <2>2
  <2>5. Len(reversals'[g]) <= Causes(g)' /\ OpenUnwinds(g)' <= Len(reversals'[g])
    BY <2>1, <2>3, <2>4, ReversalTypes DEF ReverseInv, ReverseJustified, OpenUnwinds
  <2>6. leg[g]["cex"] \in copied[g]["cex"] .. submitted[g]["cex"]
    BY ReversalTypes DEF ReverseInv, LegIsLatest, Venues
  <2>7. \A i \in 1 .. Len(made) : made[i] \in copied[g]["cex"] .. submitted[g]["cex"]
    BY <2>1 DEF ReverseInv, ReverseJustified
  <2>8. \A i \in DOMAIN reversals'[g] :
            reversals'[g][i] \in copied'[g]["cex"] .. submitted'[g]["cex"]
    <3> SUFFICES ASSUME NEW i \in 1 .. Len(made) + 1
                 PROVE  reversals'[g][i] \in copied[g]["cex"] .. submitted[g]["cex"]
      BY <2>4
    <3>1. i \in 1 .. Len(made) \/ i = Len(made) + 1
      BY <2>1
    <3> QED
      BY <3>1, <2>4, <2>6, <2>7
  <2>9. ReverseJustified(g)'
    BY <2>5, <2>8 DEF ReverseJustified, CausesKept
  <2> QED
    BY <2>5, <2>9 DEF ReverseInv, CausesKept, OpenUnwinds, Over
<1> QED
  BY <1>1, <1>2

\* The groups a step is not about.
ReverseFrame(h) ==
    Frame(h) /\ reversals'[h] = reversals[h] /\ monitor'[h] = monitor[h]
             /\ submitted'[h] = submitted[h]

LEMMA ReverseFrameKept ==
    ASSUME NEW h \in Groups, ReverseFrame(h), ReverseInv(h)
    PROVE  ReverseInv(h)'
BY DEF ReverseFrame, Frame, ReverseInv, LegIsLatest, ReverseJustified, Executed, Causes,
       DexRejected

LEMMA ReverseStep ==
    ASSUME TypeOK, TypeOK', NEW g \in Groups, ReversalInv,
           \A h \in Groups : h # g => ReverseFrame(h), ReverseInv(g)'
    PROVE  ReversalInv'
BY ReverseFrameKept DEF ReversalInv

LEMMA AssemblyReverse ==
    ASSUME IInv, IInv', NEW g \in Groups, ReverseInv(g),
           DeadlineFires(g) \/ DispatchStep(g) \/ \E x \in Venues : AddLeg(g, x)
    PROVE  ReversalsKept(g) /\ \A h \in Groups : h # g => ReverseFrame(h)
<1>0. TypeOK /\ TypeOK' /\ GroupInv(g)
  BY DEF IInv
<1>1. /\ gw' = gw /\ ack' = ack /\ monitor' = monitor /\ UNCHANGED unwindVars
      /\ \A h \in Groups : h # g =>
            submitted'[h] = submitted[h] /\ Frame(h)
  <2>1. CASE \E x \in Venues : AddLeg(g, x)
    BY <1>0, <2>1, AddLegStep DEF AddLeg, TypeOK, exchVars, unwindVars
  <2>2. CASE DeadlineFires(g) \/ DispatchStep(g)
    BY <1>0, <2>2, DeadlineFiresStep, DispatchTooLateStep, DispatchUnaffordableStep,
       DispatchPairStep
       DEF DispatchStep, DeadlineFires, DispatchTooLate, DispatchUnaffordable, DispatchPair,
       exchVars, timerVars, unwindVars, callVars
  <2> QED
    BY <2>1, <2>2
<1>2. /\ Executed(g, "cex") => Executed(g, "cex")'
      /\ DexRejected(g) => DexRejected(g)'
      /\ OpenUnwinds(g)' <= OpenUnwinds(g)
      /\ reversals' = reversals
  BY <1>0, <1>1, ReversalTypes DEF Executed, DexRejected, OpenUnwinds, unwindVars
<1>3. CASE DispatchPair(g)
  <2>1. sender[g] = "idle" /\ monitor'[g] = "off" /\ pairStatus[g] \notin Over
    BY <1>0, <1>1, <1>3 DEF DispatchPair, GroupInv, Undecided, ReverseInv, Over
  <2>2. LegIsLatest(g)' /\ submitted' = submitted
    BY <1>0, <1>3, ArbAssumption DEF DispatchPair, ReverseInv, LegIsLatest, TypeOK
  <2> QED
    BY <1>0, <1>1, <1>2, <2>1, <2>2, ReversalTypes DEF ReversalsKept, CausesKept, ReverseFrame
<1>4. CASE \E x \in Venues : AddLeg(g, x)
  <2>1. PICK x \in Venues : AddLeg(g, x)
    BY <1>4
  <2>2. /\ copied' = copied /\ sender' = sender
        /\ pairStatus[g] \in Over => pairStatus'[g] \in Over
    BY <1>0, <2>1 DEF AddLeg, TypeOK, Over
  <2>3. LegIsLatest(g)' /\ submitted[g]["cex"] <= submitted'[g]["cex"]
    BY <1>0, <2>1, ArbAssumption, SMTT(20)
       DEF AddLeg, ReverseInv, LegIsLatest, TypeOK, Venues
  <2> QED
    BY <1>0, <1>1, <1>2, <2>2, <2>3, ReversalTypes
       DEF ReversalsKept, CausesKept, ReverseFrame, ReverseInv
<1>5. CASE DeadlineFires(g) \/ DispatchTooLate(g) \/ DispatchUnaffordable(g)
  <2>1. /\ copied' = copied /\ sender' = sender /\ leg' = leg /\ submitted' = submitted
        /\ pairStatus[g] \in Over => pairStatus'[g] \in Over
    BY <1>0, <1>5 DEF DeadlineFires, DispatchTooLate, DispatchUnaffordable, TypeOK, Over,
       pairVars, callVars
  <2> QED
    BY <1>0, <1>1, <1>2, <2>1, ReversalTypes
       DEF ReversalsKept, CausesKept, ReverseFrame, ReverseInv, LegIsLatest
<1> QED
  BY <1>3, <1>4, <1>5 DEF DispatchStep

LEMMA SenderReverse ==
    ASSUME IInv, IInv', NEW g \in Groups, ReverseInv(g),
           StartRiskWindowMonitor(g) \/ \E x \in Venues : SendLeg(g, x)
    PROVE  ReversalsKept(g) /\ \A h \in Groups : h # g => ReverseFrame(h)
<1>0. TypeOK /\ TypeOK' /\ GroupInv(g)
  BY DEF IInv
<1>1. /\ UNCHANGED pairVars /\ submitted' = submitted /\ copied' = copied /\ ack' = ack
      /\ UNCHANGED unwindVars
      /\ \A h \in Groups : h # g => monitor'[h] = monitor[h] /\ Frame(h)
  BY <1>0 DEF StartRiskWindowMonitor, SendLeg, TypeOK, Frame, exchVars, timerVars, unwindVars,
     pairVars, callVars
<1>2. /\ OpenUnwinds(g)' <= OpenUnwinds(g)
      /\ LegIsLatest(g)' /\ submitted[g]["cex"] <= submitted'[g]["cex"]
  BY <1>0, <1>1, ReversalTypes DEF OpenUnwinds, unwindVars, pairVars, ReverseInv, LegIsLatest
<1>3. /\ Executed(g, "cex") => Executed(g, "cex")'
      /\ DexRejected(g) => DexRejected(g)'
  <2>1. CASE StartRiskWindowMonitor(g)
    BY <1>1, <2>1 DEF StartRiskWindowMonitor, Executed, DexRejected, exchVars
  <2>2. CASE SendLeg(g, "cex")
    <3>1. /\ gw[g]["cex"] = "idle"
          /\ gw'[g]["dex"] = gw[g]["dex"]
      BY <1>0, <2>2 DEF SendLeg, GroupInv, UnsentIsIdle, TypeOK, Venues
    <3> QED
      BY <1>1, <3>1 DEF Executed, DexRejected
  <2>3. CASE SendLeg(g, "dex")
    <3>1. /\ gw[g]["dex"] = "idle"
          /\ gw'[g]["cex"] = gw[g]["cex"]
      BY <1>0, <2>3 DEF SendLeg, GroupInv, UnsentIsIdle, TypeOK, Venues
    <3> QED
      BY <1>1, <3>1 DEF Executed, DexRejected
  <2> QED
    BY <2>1, <2>2, <2>3 DEF Venues
<1>4. /\ sender'[g] # "done" => monitor'[g] = "off"
      /\ monitor[g] = "fired" => monitor'[g] = "fired"
  BY <1>0 DEF StartRiskWindowMonitor, SendLeg, ReverseInv, TypeOK, Venues, timerVars
<1> QED
  BY <1>1, <1>2, <1>3, <1>4 DEF ReversalsKept, CausesKept, ReverseFrame, pairVars, unwindVars

LEMMA GatewayReverse ==
    ASSUME IInv, IInv', NEW g \in Groups, NEW x \in Venues, ReverseInv(g),
           \/ GatewayAccepts(g, x) \/ GatewayRefuses(g, x) \/ GatewayFills(g, x)
           \/ GatewayReverts(g, x) \/ AckArrives(g, x) \/ UnmatchedReport(g, x)
    PROVE  ReversalsKept(g) /\ \A h \in Groups : h # g => ReverseFrame(h)
<1>0. TypeOK /\ TypeOK' /\ GroupInv(g)
  BY DEF IInv
<1>1. /\ pairStatus' = pairStatus /\ leg' = leg
      /\ UNCHANGED callVars /\ UNCHANGED timerVars /\ UNCHANGED unwindVars
      /\ \A h \in Groups : h # g => Frame(h)
  <2>1. /\ pairStatus' = pairStatus /\ leg' = leg
        /\ UNCHANGED callVars /\ UNCHANGED timerVars /\ UNCHANGED unwindVars
    BY DEF GatewayAccepts, GatewayRefuses, GatewayFills, GatewayReverts, AckArrives,
       UnmatchedReport, pairVars
  <2>0. /\ legStatus \in [Groups -> [Venues -> LegStatuses]]
        /\ gw \in [Groups -> [Venues -> GatewayStates]]
        /\ ack \in [Groups -> [Venues -> {"none", "ok", "fail", "handled"}]]
    BY <1>0 DEF TypeOK
  <2>2. ASSUME NEW h \in Groups, h # g
        PROVE  legStatus'[h] = legStatus[h] /\ gw'[h] = gw[h] /\ ack'[h] = ack[h]
    <3>1. CASE GatewayAccepts(g, x) \/ GatewayRefuses(g, x)
      BY <2>0, <2>2, <3>1 DEF GatewayAccepts, GatewayRefuses, pairVars
    <3>2. CASE GatewayFills(g, x) \/ GatewayReverts(g, x)
      BY <2>0, <2>2, <3>2 DEF GatewayFills, GatewayReverts, pairVars
    <3>3. CASE AckArrives(g, x)
      BY <2>0, <2>2, <3>3 DEF AckArrives
    <3>4. CASE UnmatchedReport(g, x)
      BY <2>0, <2>2, <3>4 DEF UnmatchedReport, pairVars
    <3> QED
      BY <3>1, <3>2, <3>3, <3>4
  <2> QED
    BY <2>1, <2>2 DEF Frame, callVars, unwindVars
<1>2. /\ OpenUnwinds(g)' <= OpenUnwinds(g)
      /\ LegIsLatest(g)' /\ submitted[g]["cex"] <= submitted'[g]["cex"]
  BY <1>0, <1>1, ReversalTypes DEF OpenUnwinds, unwindVars, callVars, ReverseInv, LegIsLatest
<1>3. /\ Executed(g, "cex") => Executed(g, "cex")'
      /\ DexRejected(g) => DexRejected(g)'
  <2>0. /\ gw \in [Groups -> [Venues -> GatewayStates]]
        /\ ack \in [Groups -> [Venues -> {"none", "ok", "fail", "handled"}]]
    BY <1>0 DEF TypeOK
  <2>1. CASE GatewayAccepts(g, x) \/ GatewayRefuses(g, x)
    BY <2>0, <2>1 DEF GatewayAccepts, GatewayRefuses, Executed, DexRejected, Venues
  <2>2. CASE GatewayFills(g, x) \/ GatewayReverts(g, x)
    BY <2>0, <2>2 DEF GatewayFills, GatewayReverts, Executed, DexRejected, Venues
  <2>3. CASE AckArrives(g, x)
    BY <2>0, <2>3 DEF AckArrives, Executed, DexRejected, Venues
  <2>4. CASE UnmatchedReport(g, x)
    BY <2>0, <2>4 DEF UnmatchedReport, Executed, DexRejected, Venues
  <2> QED
    BY <2>1, <2>2, <2>3, <2>4
<1> QED
  BY <1>1, <1>2, <1>3
     DEF ReversalsKept, CausesKept, ReverseFrame, ReverseInv, callVars, timerVars, unwindVars

LEMMA FillReverse ==
    ASSUME IInv, IInv', NEW g \in Groups, NEW x \in Venues, ReverseInv(g), FillArrives(g, x)
    PROVE  ReversalsKept(g) /\ \A h \in Groups : h # g => ReverseFrame(h)
<1>0. TypeOK /\ TypeOK' /\ GroupInv(g) /\ \A h \in Groups : h # g => Frame(h)
  BY FillArrivesStep DEF IInv
<1>1. /\ leg' = leg /\ ack' = ack
      /\ UNCHANGED callVars /\ UNCHANGED timerVars /\ UNCHANGED unwindVars
  BY DEF FillArrives
<1>2. /\ OpenUnwinds(g)' <= OpenUnwinds(g)
      /\ LegIsLatest(g)' /\ submitted[g]["cex"] <= submitted'[g]["cex"]
  BY <1>0, <1>1, ReversalTypes DEF OpenUnwinds, unwindVars, callVars, ReverseInv, LegIsLatest
<1>3. /\ Executed(g, "cex") => Executed(g, "cex")'
      /\ DexRejected(g) => DexRejected(g)'
  BY <1>0, <1>1 DEF FillArrives, Executed, DexRejected, TypeOK, Venues
<1>4. pairStatus[g] \in Over => pairStatus'[g] \in Over
  BY <1>0 DEF FillArrives, FinalizePair, FirstFilled, Over, TypeOK
<1> QED
  BY <1>0, <1>1, <1>2, <1>3, <1>4
     DEF ReversalsKept, CausesKept, ReverseFrame, ReverseInv, callVars, timerVars, unwindVars

LEMMA UnwindReverse ==
    ASSUME IInv, IInv', NEW g \in Groups, ReverseInv(g), UnwindStep(g)
    PROVE  ReversalsKept(g) /\ \A h \in Groups : h # g => ReverseFrame(h)
<1>0. TypeOK /\ TypeOK' /\ GroupInv(g) /\ \A h \in Groups : h # g => Frame(h)
  BY UnwindAcceptedStep, UnwindRefusedStep, UnwindReportsStep DEF IInv, UnwindStep
<1>1. /\ leg' = leg /\ reversals' = reversals
      /\ UNCHANGED callVars /\ UNCHANGED timerVars /\ UNCHANGED exchVars
  BY DEF UnwindStep, UnwindAccepted, UnwindRefused, UnwindReports, pairVars
<1>2. OpenUnwinds(g)' <= OpenUnwinds(g)
  <2>1. unwinds[g] \in UnwindThreads /\ unwound[g] \in Nat
    BY <1>0 DEF TypeOK
  <2>2. CASE UnwindAccepted(g)
    <3>1. /\ unwinds'[g].queued = unwinds[g].queued - 1
          /\ unwinds'[g].refused = unwinds[g].refused /\ unwound'[g] = unwound[g] + 1
      BY <1>0, <2>1, <2>2 DEF UnwindAccepted, TypeOK, UnwindThreads
    <3> QED
      BY <2>1, <3>1 DEF OpenUnwinds, UnwindThreads
  <2>3. CASE UnwindRefused(g)
    <3>1. /\ unwinds'[g].queued = unwinds[g].queued - 1
          /\ unwinds'[g].refused = unwinds[g].refused + 1 /\ unwound'[g] = unwound[g]
      BY <1>0, <2>1, <2>3 DEF UnwindRefused, TypeOK, UnwindThreads
    <3> QED
      BY <2>1, <3>1 DEF OpenUnwinds, UnwindThreads
  <2>4. CASE UnwindReports(g)
    <3>1. /\ unwinds'[g].queued = unwinds[g].queued /\ unwound'[g] = unwound[g]
          /\ unwinds'[g].refused = unwinds[g].refused \/ unwinds'[g].refused = unwinds[g].refused - 1
      BY <1>0, <2>1, <2>4 DEF UnwindReports, TypeOK, UnwindThreads
    <3> QED
      BY <2>1, <3>1 DEF OpenUnwinds, UnwindThreads
  <2> QED
    BY <2>2, <2>3, <2>4 DEF UnwindStep
<1>3. /\ Executed(g, "cex") => Executed(g, "cex")'
      /\ DexRejected(g) => DexRejected(g)'
      /\ LegIsLatest(g)' /\ submitted[g]["cex"] <= submitted'[g]["cex"]
  BY <1>0, <1>1, ReversalTypes DEF Executed, DexRejected, exchVars, callVars, ReverseInv, LegIsLatest
<1>4. pairStatus[g] \in Over => pairStatus'[g] \in Over
  BY <1>0 DEF UnwindStep, UnwindAccepted, UnwindRefused, UnwindReports, Over, TypeOK, pairVars
<1> QED
  BY <1>0, <1>1, <1>2, <1>3, <1>4
     DEF ReversalsKept, CausesKept, ReverseFrame, ReverseInv, callVars, timerVars

\* The risk window makes a reversal only for a pair with its CEX leg filled.
LEMMA RiskWindowReverse ==
    ASSUME IInv, IInv', NEW g \in Groups, ReverseInv(g), RiskWindowExceeded(g)
    PROVE  ReverseInv(g)' /\ \A h \in Groups : h # g => ReverseFrame(h)
<1>0. TypeOK /\ TypeOK' /\ GroupInv(g) /\ \A h \in Groups : h # g => Frame(h)
  BY RiskWindowExceededStep DEF IInv
<1>1. /\ leg' = leg /\ unwound' = unwound /\ UNCHANGED callVars /\ UNCHANGED exchVars
      /\ monitor[g] = "armed" /\ monitor'[g] = "fired"
      /\ \A h \in Groups : h # g => monitor'[h] = monitor[h]
  BY <1>0 DEF RiskWindowExceeded, TypeOK
<1>2. \A h \in Groups : h # g => reversals'[h] = reversals[h]
  BY <1>0, StartUnwindEffect DEF RiskWindowExceeded
<1>3. Causes(g)' = Causes(g) + 1
  BY <1>1 DEF Causes, DexRejected, exchVars
<1>4. CausesKept(g)
  <2>1. pairStatus[g] \in Over => pairStatus'[g] \in Over
    BY <1>0 DEF RiskWindowExceeded, TypeOK, Over
  <2> QED
    BY <1>0, <1>1, <2>1, ReversalTypes
       DEF CausesKept, ReverseInv, LegIsLatest, Executed, DexRejected, callVars, exchVars
<1>5. CASE StartUnwind(g) /\ pairStatus[g] = "CEX_FILLED"
  <2>1. Executed(g, "cex") /\ pairStatus'[g] \in Over
    BY <1>0, <1>5 DEF RiskWindowExceeded, GroupInv, FilledIsReported, FirstFilled, Executed,
       Venues, Over, TypeOK
  <2> QED
    BY <1>0, <1>1, <1>2, <1>3, <1>4, <1>5, <2>1, ReversalMadeInv DEF ReverseFrame, callVars
<1>6. CASE UNCHANGED <<unwinds, reversals>>
  <2>1. ReversalsKept(g)
    BY <1>0, <1>1, <1>4, <1>6, ReversalTypes DEF ReversalsKept, OpenUnwinds
  <2> QED
    BY <1>0, <1>1, <1>2, <2>1, ReversalsKeptInv DEF ReverseFrame, callVars
<1> QED
  BY <1>5, <1>6 DEF RiskWindowExceeded

\* A DEX reject is handled once, and makes a reversal only if the CEX leg is FILLED.
LEMMA LegRejectReverse ==
    ASSUME IInv, IInv', NEW g \in Groups, NEW x \in Venues, ReverseInv(g),
           RefusalArrives(g, x) \/ RevertArrives(g, x)
    PROVE  ReverseInv(g)' /\ \A h \in Groups : h # g => ReverseFrame(h)
<1>0. TypeOK /\ TypeOK' /\ GroupInv(g) /\ \A h \in Groups : h # g => Frame(h)
  BY RefusalArrivesStep, RevertArrivesStep DEF IInv
<1>1. /\ leg' = leg /\ unwound' = unwound /\ UNCHANGED callVars /\ UNCHANGED timerVars
      /\ HandleLegReject(g, x)
  BY DEF RefusalArrives, RevertArrives
<1>2. \A h \in Groups : h # g => reversals'[h] = reversals[h]
  BY <1>0, <1>1, StartUnwindEffect, CexRejectEffect, DexRejectEffect DEF HandleLegReject
<1>3. /\ Executed(g, "cex") => Executed(g, "cex")'
      /\ DexRejected(g) => DexRejected(g)'
  BY <1>0 DEF RefusalArrives, RevertArrives, Executed, DexRejected, GroupInv, RefusalIsTrue,
     TypeOK, Venues
<1>4. CausesKept(g) /\ pairStatus'[g] \in Over
  <2>1. pairStatus'[g] \in Over
    <3>1. pairStatus \in [Groups -> PairStatuses]
      BY <1>0 DEF TypeOK
    <3> QED
      BY <1>0, <1>1, <3>1, CexRejectEffect, DexRejectEffect DEF HandleLegReject, Over
  <2> QED
    BY <1>0, <1>1, <1>3, <2>1, ReversalTypes
       DEF CausesKept, ReverseInv, LegIsLatest, callVars, timerVars
<1>5. CASE UNCHANGED <<unwinds, reversals>>
  <2>1. ReversalsKept(g)
    BY <1>0, <1>1, <1>4, <1>5, ReversalTypes DEF ReversalsKept, OpenUnwinds
  <2> QED
    BY <1>0, <1>1, <1>2, <2>1, ReversalsKeptInv DEF ReverseFrame, callVars, timerVars
<1>6. CASE x = "dex" /\ legStatus[g]["cex"] = "FILLED" /\ StartUnwind(g)
  <2>1. Executed(g, "cex")
    BY <1>0, <1>6 DEF GroupInv, FilledIsReported, Executed, Venues
  <2>2. ~DexRejected(g) /\ DexRejected(g)'
    BY <1>0, <1>6 DEF RefusalArrives, RevertArrives, DexRejected, GroupInv, RefusalIsTrue,
       TypeOK, Venues
  <2>3. Causes(g)' = Causes(g) + 1
    BY <1>1, <2>2 DEF Causes, timerVars
  <2> QED
    BY <1>0, <1>1, <1>2, <1>4, <1>6, <2>1, <2>3, ReversalMadeInv
       DEF ReverseFrame, callVars, timerVars
<1>7. CASE x = "cex"
  BY <1>0, <1>1, <1>5, <1>7, CexRejectEffect DEF HandleLegReject
<1>8. CASE x = "dex"
  <2>1. HandleDexReject(g)
    BY <1>1, <1>8 DEF HandleLegReject
  <2>2. \/ legStatus[g]["cex"] = "FILLED" /\ StartUnwind(g)
        \/ UNCHANGED <<unwinds, reversals>>
    BY <1>0, <2>1, DexRejectEffect
  <2> QED
    BY <1>5, <1>6, <1>8, <2>2
<1> QED
  BY <1>7, <1>8 DEF Venues

LEMMA ReversalsKeptStep ==
    ASSUME IInv, IInv', NEW g \in Groups, ReversalInv,
           ReversalsKept(g), \A h \in Groups : h # g => ReverseFrame(h)
    PROVE  ReversalInv'
<1>1. TypeOK /\ TypeOK'
  BY DEF IInv
<1>2. ReverseInv(g)'
  BY <1>1, ReversalsKeptInv DEF ReversalInv
<1> QED
  BY <1>1, <1>2, ReverseStep

LEMMA NextReverse ==
    IInv /\ IInv' /\ [Next]_vars /\ ReversalInv => ReversalInv'
<1> SUFFICES ASSUME IInv, IInv', [Next]_vars, ReversalInv
             PROVE  ReversalInv'
  OBVIOUS
<1>0. TypeOK /\ TypeOK' /\ \A g \in Groups : ReverseInv(g)
  BY DEF IInv, ReversalInv
<1>1. ASSUME NEW g \in Groups, GroupStep(g) PROVE ReversalInv'
  <2>1. CASE DeadlineFires(g) \/ DispatchStep(g)
    BY <1>0, <2>1, AssemblyReverse, ReversalsKeptStep
  <2>2. CASE StartRiskWindowMonitor(g)
    BY <1>0, <2>2, SenderReverse, ReversalsKeptStep
  <2>3. CASE RiskWindowExceeded(g)
    BY <1>0, <2>3, RiskWindowReverse, ReverseStep
  <2>4. CASE UnwindStep(g)
    BY <1>0, <2>4, UnwindReverse, ReversalsKeptStep
  <2> QED
    BY <1>1, <2>1, <2>2, <2>3, <2>4 DEF GroupStep
<1>2. ASSUME NEW g \in Groups, NEW x \in Venues, VenueStep(g, x)
      PROVE  ReversalInv'
  <2>1. CASE AddLeg(g, x)
    BY <1>0, <2>1, AssemblyReverse, ReversalsKeptStep
  <2>2. CASE SendLeg(g, x)
    BY <1>0, <2>2, SenderReverse, ReversalsKeptStep
  <2>3. CASE \/ GatewayAccepts(g, x) \/ GatewayRefuses(g, x) \/ GatewayFills(g, x)
             \/ GatewayReverts(g, x) \/ AckArrives(g, x) \/ UnmatchedReport(g, x)
    BY <1>0, <2>3, GatewayReverse, ReversalsKeptStep
  <2>4. CASE FillArrives(g, x)
    BY <1>0, <2>4, FillReverse, ReversalsKeptStep
  <2>5. CASE RefusalArrives(g, x) \/ RevertArrives(g, x)
    BY <1>0, <2>5, LegRejectReverse, ReverseStep
  <2> QED
    BY <1>2, <2>1, <2>2, <2>3, <2>4, <2>5 DEF VenueStep, AnswerStep
<1>3. CASE UNCHANGED vars
  <2>1. \A h \in Groups : ReverseFrame(h)
    BY <1>3 DEF vars, ReverseFrame, Frame, pairVars, callVars, exchVars, timerVars, unwindVars
  <2> QED
    BY <1>0, <2>1, ReverseFrameKept DEF ReversalInv
<1> QED
  BY <1>1, <1>2, <1>3 DEF Next

LEMMA InitReverse == Init => ReversalInv
<1> SUFFICES ASSUME Init, NEW g \in Groups PROVE ReverseInv(g)
  BY DEF ReversalInv
<1>1. reversals[g] = << >> /\ Len(reversals[g]) = 0 /\ DOMAIN reversals[g] = {}
  BY DEF Init
<1>2. Causes(g) = 0 /\ LegIsLatest(g) /\ monitor[g] = "off" /\ OpenUnwinds(g) = 0
  BY DEF Init, PerLeg, Causes, DexRejected, LegIsLatest, OpenUnwinds, Venues
<1> QED
  BY <1>1, <1>2 DEF ReverseInv, ReverseJustified, OpenUnwinds

LEMMA ReverseInvariance == Spec => []ReversalInv
<1>1. Init => ReversalInv
  BY InitReverse
<1>2. IInv /\ IInv' /\ ReversalInv /\ [Next]_vars
        => ReversalInv'
  BY NextReverse
<1> QED
  BY <1>1, <1>2, Invariance, PTL DEF Spec

\* No reverse order is made for a CEX leg the exchange has not executed, and never
\* more than one for the risk window and one for the DEX reject; it reverses the
\* executed order or one submitted after it.
THEOREM NoBlindUnwind == Spec => []ReversesJustified
<1>1. ReversalInv => ReversesJustified
  BY DEF ReversalInv, ReverseInv, ReversesJustified
<1> QED
  BY <1>1, ReverseInvariance, PTL

-----------------------------------------------------------------------------
(* The coordinator implements ArbPromise: its initial states map to the    *)
(* promise's, and each of its steps to a step of the promise or to none.   *)

FateMap == [g \in Groups |-> Fate(g)]

ExecutedMap == {l \in Groups \X Venues : Executed(l[1], l[2])}

Others(g) == \A h \in Groups : h # g => Frame(h)

SameExecuted(g) == \A x \in Venues : Executed(g, x)' <=> Executed(g, x)

LEMMA FrameFate ==
    ASSUME NEW h \in Groups, Frame(h)
    PROVE  Fate(h)' = Fate(h) /\ \A x \in Venues : Executed(h, x)' <=> Executed(h, x)
BY DEF Frame, Fate, Dispatched, Executed

LEMMA FateMapStep ==
    ASSUME NEW g \in Groups, Others(g)
    PROVE  FateMap' = [FateMap EXCEPT ![g] = Fate(g)']
BY FrameFate DEF FateMap, Others

LEMMA ExecutedMapSame ==
    ASSUME NEW g \in Groups, Others(g), SameExecuted(g)
    PROVE  ExecutedMap' = ExecutedMap
<1>1. \A h \in Groups, x \in Venues : Executed(h, x)' <=> Executed(h, x)
  BY FrameFate DEF Others, SameExecuted
<1> QED
  BY <1>1 DEF ExecutedMap

LEMMA UnwoundSame ==
    ASSUME TypeOK, TypeOK', NEW g \in Groups, Others(g), unwound'[g] = unwound[g]
    PROVE  unwound' = unwound
BY DEF TypeOK, Others, Frame

\* A step that moves only the fate of a group, or nothing.
LEMMA FateStep ==
    ASSUME TypeOK, TypeOK', NEW g \in Groups, Others(g), SameExecuted(g),
           unwound'[g] = unwound[g],
           \/ Fate(g)' = Fate(g)
           \/ Fate(g) = "open" /\ Fate(g)' \in {"void", "live"}
           \/ Fate(g) = "live" /\ Fate(g)' = "broken"
           \/ /\ Fate(g) = "live" /\ Fate(g)' = "hedged"
              /\ \A x \in Venues : Executed(g, x)
    PROVE  [Promise!Next]_(Promise!promiseVars)
<1>1. FateMap' = [FateMap EXCEPT ![g] = Fate(g)'] /\ ExecutedMap' = ExecutedMap /\ unwound' = unwound
  BY FateMapStep, ExecutedMapSame, UnwoundSame
<1>2. FateMap[g] = Fate(g)
  BY DEF FateMap
<1>3. CASE Fate(g)' = Fate(g)
  <2>1. FateMap' = FateMap
    BY <1>1, <1>2, <1>3 DEF FateMap
  <2> QED
    BY <1>1, <2>1 DEF Promise!promiseVars, FateMap, ExecutedMap
<1>4. CASE Fate(g) = "open" /\ Fate(g)' \in {"void", "live"}
  <2>1. Promise!Decide(g, Fate(g)')
    BY <1>1, <1>2, <1>4 DEF Promise!Decide, FateMap, ExecutedMap
  <2>2. Fate(g)' \in Promise!Fates
    BY <1>4 DEF Promise!Fates
  <2> QED
    BY <2>1, <2>2 DEF Promise!Next
<1>5. CASE Fate(g) = "live" /\ Fate(g)' = "broken"
  <2>1. Promise!Break(g)
    BY <1>1, <1>2, <1>5 DEF Promise!Break, FateMap, ExecutedMap
  <2> QED
    BY <2>1 DEF Promise!Next
<1>6. CASE Fate(g) = "live" /\ Fate(g)' = "hedged" /\ \A x \in Venues : Executed(g, x)
  <2>1. \A x \in Venues : <<g, x>> \in ExecutedMap
    BY <1>6 DEF ExecutedMap
  <2>2. Promise!Hedge(g)
    BY <1>1, <1>2, <1>6, <2>1 DEF Promise!Hedge, FateMap, ExecutedMap
  <2> QED
    BY <2>2 DEF Promise!Next
<1> QED
  BY <1>3, <1>4, <1>5, <1>6

LEMMA FateNow ==
    ASSUME NEW g \in Groups
    PROVE  /\ pairStatus[g] \in {"NONE", "ASSEMBLING"} <=> Fate(g) = "open"
           /\ pairStatus[g] \in InFlight <=> Fate(g) = "live"
           /\ (pairStatus[g] = "FAILED" /\ copied[g]["cex"] = 0) <=> Fate(g) = "void"
           /\ (pairStatus[g] = "COMPLETED" /\ unwound[g] = 0) <=> Fate(g) = "hedged"
           /\ Fate(g) \in {"open", "live", "void", "hedged", "broken"}
BY DEF Fate, InFlight, Dispatched

LEMMA FateNext ==
    ASSUME NEW g \in Groups
    PROVE  /\ pairStatus'[g] \in {"NONE", "ASSEMBLING"} <=> Fate(g)' = "open"
           /\ pairStatus'[g] \in InFlight <=> Fate(g)' = "live"
           /\ (pairStatus'[g] = "FAILED" /\ copied'[g]["cex"] = 0) <=> Fate(g)' = "void"
           /\ (pairStatus'[g] = "COMPLETED" /\ unwound'[g] = 0) <=> Fate(g)' = "hedged"
           /\ Fate(g)' \in {"open", "live", "void", "hedged", "broken"}
BY DEF Fate, InFlight, Dispatched

\* What has been sent belongs to a pair that is decided, and not void.
LEMMA SentIsDecided ==
    ASSUME IInv, NEW g \in Groups, NEW x \in Venues, gw[g][x] # "idle"
    PROVE  Fate(g) \notin {"open", "void"} /\ copied[g]["cex"] # 0
<1>1. GroupInv(g)
  BY DEF IInv
<1>2. sender[g] # "idle"
  BY <1>1 DEF GroupInv, UnsentIsIdle, Venues
<1>3. copied[g]["cex"] # 0 /\ pairStatus[g] \notin {"NONE", "ASSEMBLING"}
  BY <1>1, <1>2 DEF GroupInv, LegsPresent, Undecided, Venues
<1> QED
  BY <1>3, FateNow

-----------------------------------------------------------------------------
(* Steps the promise does not see.                                         *)

LEMMA DispatchTooLatePromise ==
    ASSUME IInv, NEW g \in Groups, DispatchTooLate(g)
    PROVE  [Promise!Next]_(Promise!promiseVars)
<1>1. TypeOK /\ TypeOK' /\ Others(g)
  BY DispatchTooLateStep DEF IInv, Others
<1>2. /\ pairStatus' = pairStatus /\ copied' = copied /\ unwound' = unwound
      /\ SameExecuted(g)
  BY <1>1 DEF DispatchTooLate, TypeOK, SameExecuted, Executed, pairVars, callVars,
       exchVars, timerVars, unwindVars
<1>3. Fate(g)' = Fate(g)
  BY <1>2 DEF Fate, Dispatched
<1> QED
  BY <1>1, <1>2, <1>3, FateStep

LEMMA SendLegPromise ==
    ASSUME IInv, NEW g \in Groups, NEW x \in Venues, SendLeg(g, x)
    PROVE  [Promise!Next]_(Promise!promiseVars)
<1>1. TypeOK /\ TypeOK' /\ Others(g)
  BY SendLegStep DEF IInv, Others
<1>2. /\ pairStatus' = pairStatus /\ copied' = copied /\ unwound' = unwound
      /\ SameExecuted(g)
  <2>1. gw[g][x] = "idle"
    BY DEF IInv, GroupInv, UnsentIsIdle, SendLeg, Venues
  <2>2. gw'[g][x] \in {"idle", "sending"} /\ \A y \in Venues : y # x => gw'[g][y] = gw[g][y]
    BY <1>1, <2>1 DEF SendLeg, TypeOK
  <2>3. SameExecuted(g)
    BY <2>1, <2>2 DEF SameExecuted, Executed
  <2> QED
    BY <2>3 DEF SendLeg, pairVars, unwindVars
<1>3. Fate(g)' = Fate(g)
  BY <1>2 DEF Fate, Dispatched
<1> QED
  BY <1>1, <1>2, <1>3, FateStep

LEMMA StartRiskWindowMonitorPromise ==
    ASSUME IInv, NEW g \in Groups, StartRiskWindowMonitor(g)
    PROVE  [Promise!Next]_(Promise!promiseVars)
<1>1. TypeOK /\ TypeOK' /\ Others(g)
  BY StartRiskWindowMonitorStep DEF IInv, Others
<1>2. /\ pairStatus' = pairStatus /\ copied' = copied /\ unwound' = unwound
      /\ SameExecuted(g)
  BY <1>1 DEF StartRiskWindowMonitor, TypeOK, SameExecuted, Executed, pairVars,
       callVars, exchVars, timerVars, unwindVars
<1>3. Fate(g)' = Fate(g)
  BY <1>2 DEF Fate, Dispatched
<1> QED
  BY <1>1, <1>2, <1>3, FateStep

LEMMA GatewayAcceptsPromise ==
    ASSUME IInv, NEW g \in Groups, NEW x \in Venues, GatewayAccepts(g, x)
    PROVE  [Promise!Next]_(Promise!promiseVars)
<1>1. TypeOK /\ TypeOK' /\ Others(g)
  BY GatewayAcceptsStep DEF IInv, Others
<1>2. /\ pairStatus' = pairStatus /\ copied' = copied /\ unwound' = unwound
      /\ SameExecuted(g)
  BY <1>1 DEF GatewayAccepts, TypeOK, SameExecuted, Executed, pairVars, callVars,
       exchVars, timerVars, unwindVars
<1>3. Fate(g)' = Fate(g)
  BY <1>2 DEF Fate, Dispatched
<1> QED
  BY <1>1, <1>2, <1>3, FateStep

LEMMA GatewayRefusesPromise ==
    ASSUME IInv, NEW g \in Groups, NEW x \in Venues, GatewayRefuses(g, x)
    PROVE  [Promise!Next]_(Promise!promiseVars)
<1>1. TypeOK /\ TypeOK' /\ Others(g)
  BY GatewayRefusesStep DEF IInv, Others
<1>2. /\ pairStatus' = pairStatus /\ copied' = copied /\ unwound' = unwound
      /\ SameExecuted(g)
  BY <1>1 DEF GatewayRefuses, TypeOK, SameExecuted, Executed, pairVars, callVars,
       exchVars, timerVars, unwindVars
<1>3. Fate(g)' = Fate(g)
  BY <1>2 DEF Fate, Dispatched
<1> QED
  BY <1>1, <1>2, <1>3, FateStep

LEMMA GatewayRevertsPromise ==
    ASSUME IInv, NEW g \in Groups, NEW x \in Venues, GatewayReverts(g, x)
    PROVE  [Promise!Next]_(Promise!promiseVars)
<1>1. TypeOK /\ TypeOK' /\ Others(g)
  BY GatewayRevertsStep DEF IInv, Others
<1>2. /\ pairStatus' = pairStatus /\ copied' = copied /\ unwound' = unwound
      /\ SameExecuted(g)
  BY <1>1 DEF GatewayReverts, TypeOK, SameExecuted, Executed, pairVars, callVars,
       exchVars, timerVars, unwindVars
<1>3. Fate(g)' = Fate(g)
  BY <1>2 DEF Fate, Dispatched
<1> QED
  BY <1>1, <1>2, <1>3, FateStep

LEMMA AckArrivesPromise ==
    ASSUME IInv, NEW g \in Groups, NEW x \in Venues, AckArrives(g, x)
    PROVE  [Promise!Next]_(Promise!promiseVars)
<1>1. TypeOK /\ TypeOK' /\ Others(g)
  BY AckArrivesStep DEF IInv, Others
<1>2. /\ pairStatus' = pairStatus /\ copied' = copied /\ unwound' = unwound
      /\ SameExecuted(g)
  BY <1>1 DEF AckArrives, TypeOK, SameExecuted, Executed, pairVars, callVars, exchVars,
       timerVars, unwindVars
<1>3. Fate(g)' = Fate(g)
  BY <1>2 DEF Fate, Dispatched
<1> QED
  BY <1>1, <1>2, <1>3, FateStep

LEMMA UnwindRefusedPromise ==
    ASSUME IInv, NEW g \in Groups, UnwindRefused(g)
    PROVE  [Promise!Next]_(Promise!promiseVars)
<1>1. TypeOK /\ TypeOK' /\ Others(g)
  BY UnwindRefusedStep DEF IInv, Others
<1>2. /\ pairStatus' = pairStatus /\ copied' = copied /\ unwound' = unwound
      /\ SameExecuted(g)
  BY <1>1 DEF UnwindRefused, TypeOK, SameExecuted, Executed, pairVars, callVars,
       exchVars, timerVars, unwindVars
<1>3. Fate(g)' = Fate(g)
  BY <1>2 DEF Fate, Dispatched
<1> QED
  BY <1>1, <1>2, <1>3, FateStep

LEMMA UnmatchedReportPromise ==
    ASSUME IInv, NEW g \in Groups, NEW x \in Venues, UnmatchedReport(g, x)
    PROVE  [Promise!Next]_(Promise!promiseVars)
<1>1. TypeOK /\ TypeOK' /\ Others(g)
  BY UnmatchedReportStep DEF IInv, Others
<1>2. /\ pairStatus' = pairStatus /\ copied' = copied /\ unwound' = unwound
      /\ SameExecuted(g)
  BY <1>1 DEF UnmatchedReport, TypeOK, SameExecuted, Executed, pairVars, callVars,
       exchVars, timerVars, unwindVars
<1>3. Fate(g)' = Fate(g)
  BY <1>2 DEF Fate, Dispatched
<1> QED
  BY <1>1, <1>2, <1>3, FateStep

-----------------------------------------------------------------------------
(* Steps that decide, hedge or break a group.                              *)

LEMMA AddLegPromise ==
    ASSUME IInv, NEW g \in Groups, NEW x \in Venues, AddLeg(g, x)
    PROVE  [Promise!Next]_(Promise!promiseVars)
<1>1. TypeOK /\ TypeOK' /\ Others(g) /\ GroupInv(g) /\ GroupInv(g)'
  BY AddLegStep DEF IInv, Others
<1>2. /\ copied' = copied /\ unwound' = unwound /\ SameExecuted(g)
      /\ pairStatus'[g] = IF pairStatus[g] = "NONE" THEN "ASSEMBLING" ELSE pairStatus[g]
  BY <1>1 DEF AddLeg, TypeOK, SameExecuted, Executed, exchVars, unwindVars
<1>3. Fate(g)' = Fate(g)
  BY <1>2 DEF Fate, Dispatched, InFlight
<1> QED
  BY <1>1, <1>2, <1>3, FateStep

LEMMA DeadlineFiresPromise ==
    ASSUME IInv, NEW g \in Groups, DeadlineFires(g)
    PROVE  [Promise!Next]_(Promise!promiseVars)
<1>1. TypeOK /\ TypeOK' /\ Others(g) /\ GroupInv(g) /\ GroupInv(g)'
  BY DeadlineFiresStep DEF IInv, Others
<1>2. /\ copied' = copied /\ unwound' = unwound /\ SameExecuted(g)
      /\ \/ pairStatus'[g] = pairStatus[g]
         \/ pairStatus[g] = "ASSEMBLING" /\ pairStatus'[g] = "FAILED"
  BY <1>1 DEF DeadlineFires, TypeOK, SameExecuted, Executed, callVars, exchVars,
       unwindVars
<1>3. CASE pairStatus'[g] = pairStatus[g]
  <2>1. Fate(g)' = Fate(g)
    BY <1>2, <1>3 DEF Fate, Dispatched
  <2> QED
    BY <1>1, <1>2, <2>1, FateStep
<1>4. CASE pairStatus[g] = "ASSEMBLING" /\ pairStatus'[g] = "FAILED"
  <2>1. copied'[g]["cex"] = 0
    BY <1>1, <1>2, <1>4 DEF GroupInv, Undecided, UnsentIsIdle
  <2>2. Fate(g) = "open" /\ Fate(g)' = "void"
    BY <1>4, <2>1, FateNow, FateNext
  <2> QED
    BY <1>1, <1>2, <2>2, FateStep
<1> QED
  BY <1>2, <1>3, <1>4

LEMMA DispatchUnaffordablePromise ==
    ASSUME IInv, NEW g \in Groups, DispatchUnaffordable(g)
    PROVE  [Promise!Next]_(Promise!promiseVars)
<1>1. TypeOK /\ TypeOK' /\ Others(g) /\ GroupInv(g) /\ GroupInv(g)'
  BY DispatchUnaffordableStep DEF IInv, Others
<1>2. /\ copied' = copied /\ unwound' = unwound /\ SameExecuted(g)
      /\ pairStatus[g] = "ASSEMBLING" /\ pairStatus'[g] = "FAILED"
  BY <1>1 DEF DispatchUnaffordable, TypeOK, SameExecuted, Executed, exchVars, unwindVars
<1>3. copied'[g]["cex"] = 0
  BY <1>1, <1>2 DEF GroupInv, Undecided, UnsentIsIdle
<1>4. Fate(g) = "open" /\ Fate(g)' = "void"
  BY <1>2, <1>3, FateNow, FateNext
<1> QED
  BY <1>1, <1>2, <1>4, FateStep

LEMMA DispatchPairPromise ==
    ASSUME IInv, NEW g \in Groups, DispatchPair(g)
    PROVE  [Promise!Next]_(Promise!promiseVars)
<1>1. TypeOK /\ TypeOK' /\ Others(g) /\ GroupInv(g) /\ GroupInv(g)'
  BY DispatchPairStep DEF IInv, Others
<1>2. /\ unwound' = unwound /\ SameExecuted(g)
      /\ pairStatus[g] = "ASSEMBLING" /\ pairStatus'[g] = "DISPATCHED"
  BY <1>1 DEF DispatchPair, TypeOK, SameExecuted, Executed, exchVars, unwindVars
<1>3. Fate(g) = "open" /\ Fate(g)' = "live"
  BY <1>2, FateNow, FateNext DEF InFlight
<1> QED
  BY <1>1, <1>2, <1>3, FateStep

LEMMA FillArrivesPromise ==
    ASSUME IInv, NEW g \in Groups, NEW x \in Venues, FillArrives(g, x)
    PROVE  [Promise!Next]_(Promise!promiseVars)
<1>1. TypeOK /\ TypeOK' /\ Others(g) /\ GroupInv(g) /\ GroupInv(g)'
  BY FillArrivesStep DEF IInv, Others
<1>2. /\ copied' = copied /\ unwound' = unwound /\ SameExecuted(g)
      /\ gw[g][x] = "filled"
  BY <1>1 DEF FillArrives, TypeOK, SameExecuted, Executed, callVars, unwindVars
<1>3. \/ pairStatus'[g] = pairStatus[g]
      \/ pairStatus[g] \in InFlight /\ pairStatus'[g] \in InFlight
      \/ pairStatus[g] = FirstFilled(Other(x)) /\ pairStatus'[g] = "COMPLETED"
  BY <1>1 DEF FillArrives, FinalizePair, TypeOK, FirstFilled, InFlight
<1>4. CASE pairStatus'[g] = pairStatus[g]
  <2>1. Fate(g)' = Fate(g)
    BY <1>2, <1>4 DEF Fate, Dispatched
  <2> QED
    BY <1>1, <1>2, <2>1, FateStep
<1>5. CASE pairStatus[g] \in InFlight /\ pairStatus'[g] \in InFlight
  <2>1. Fate(g)' = Fate(g)
    BY <1>5, FateNow, FateNext
  <2> QED
    BY <1>1, <1>2, <2>1, FateStep
<1>6. CASE pairStatus[g] = FirstFilled(Other(x)) /\ pairStatus'[g] = "COMPLETED"
  <2>1. Executed(g, Other(x)) /\ Executed(g, x)
    BY <1>1, <1>2, <1>6 DEF GroupInv, FilledIsReported, Executed, Other, Venues
  <2>2. \A y \in Venues : Executed(g, y)
    BY <2>1 DEF Venues, Other
  <2>3. pairStatus[g] \in InFlight /\ unwound'[g] = 0
    <3>1. pairStatus[g] \in InFlight
      BY <1>6 DEF FirstFilled, InFlight
    <3>2. /\ unwound[g] \in Nat /\ unwinds[g].queued \in Nat /\ unwinds[g].refused \in Nat
      BY <1>1 DEF TypeOK, UnwindThreads
    <3>3. ~(unwound[g] + unwinds[g].queued + unwinds[g].refused > 0)
      BY <1>1, <3>1 DEF GroupInv, UnwindsKnown, InFlight
    <3>4. unwound[g] = 0
      BY <3>2, <3>3
    <3> QED
      BY <1>2, <3>1, <3>4
  <2>4. Fate(g) = "live" /\ Fate(g)' = "hedged"
    BY <1>6, <2>3, FateNow, FateNext
  <2> QED
    BY <1>1, <1>2, <2>2, <2>4, FateStep
<1> QED
  BY <1>3, <1>4, <1>5, <1>6

LEMMA RefusalArrivesPromise ==
    ASSUME IInv, NEW g \in Groups, NEW x \in Venues, RefusalArrives(g, x)
    PROVE  [Promise!Next]_(Promise!promiseVars)
<1>1. TypeOK /\ TypeOK' /\ Others(g) /\ GroupInv(g) /\ GroupInv(g)'
  BY RefusalArrivesStep DEF IInv, Others
<1>2. /\ copied' = copied /\ unwound' = unwound /\ SameExecuted(g)
      /\ gw[g][x] = "refused"
  BY <1>1 DEF RefusalArrives, GroupInv, RefusalIsTrue, TypeOK, SameExecuted, Executed,
       callVars
<1>3. pairStatus'[g] \in {"FAILED", "UNWINDING"}
  <2>1. HandleLegReject(g, x) /\ pairStatus \in [Groups -> PairStatuses]
    BY <1>1 DEF RefusalArrives, TypeOK
  <2> QED
    BY <1>1, <2>1, CexRejectEffect, DexRejectEffect DEF HandleLegReject
<1>4. Fate(g) \notin {"open", "void"} /\ copied'[g]["cex"] # 0
  BY <1>2, SentIsDecided
<1>5. Fate(g) # "hedged"
  BY <1>1, <1>2, FateNow DEF GroupInv, CompletedEarned, Executed
<1>6. Fate(g) \in {"live", "broken"} /\ Fate(g)' = "broken"
  BY <1>3, <1>4, <1>5, FateNow, FateNext DEF InFlight
<1> QED
  BY <1>1, <1>2, <1>6, FateStep

LEMMA RevertArrivesPromise ==
    ASSUME IInv, NEW g \in Groups, NEW x \in Venues, RevertArrives(g, x)
    PROVE  [Promise!Next]_(Promise!promiseVars)
<1>1. TypeOK /\ TypeOK' /\ Others(g) /\ GroupInv(g) /\ GroupInv(g)'
  BY RevertArrivesStep DEF IInv, Others
<1>2. /\ copied' = copied /\ unwound' = unwound /\ SameExecuted(g)
      /\ gw[g][x] = "reverted"
  BY <1>1 DEF RevertArrives, GroupInv, RefusalIsTrue, TypeOK, SameExecuted, Executed,
       callVars
<1>3. pairStatus'[g] \in {"FAILED", "UNWINDING"}
  <2>1. HandleLegReject(g, x) /\ pairStatus \in [Groups -> PairStatuses]
    BY <1>1 DEF RevertArrives, TypeOK
  <2> QED
    BY <1>1, <2>1, CexRejectEffect, DexRejectEffect DEF HandleLegReject
<1>4. Fate(g) \notin {"open", "void"} /\ copied'[g]["cex"] # 0
  BY <1>2, SentIsDecided
<1>5. Fate(g) # "hedged"
  BY <1>1, <1>2, FateNow DEF GroupInv, CompletedEarned, Executed
<1>6. Fate(g) \in {"live", "broken"} /\ Fate(g)' = "broken"
  BY <1>3, <1>4, <1>5, FateNow, FateNext DEF InFlight
<1> QED
  BY <1>1, <1>2, <1>6, FateStep

LEMMA RiskWindowExceededPromise ==
    ASSUME IInv, NEW g \in Groups, RiskWindowExceeded(g)
    PROVE  [Promise!Next]_(Promise!promiseVars)
<1>1. TypeOK /\ TypeOK' /\ Others(g) /\ GroupInv(g) /\ GroupInv(g)'
  BY RiskWindowExceededStep DEF IInv, Others
<1>2. /\ copied' = copied /\ unwound' = unwound /\ SameExecuted(g)
      /\ \/ pairStatus'[g] = pairStatus[g]
         \/ /\ pairStatus[g] \in {"CEX_FILLED", "DEX_FILLED"}
            /\ pairStatus'[g] \in {"UNWINDING", "FAILED"}
  BY <1>1 DEF RiskWindowExceeded, TypeOK, SameExecuted, Executed, callVars, exchVars
<1>3. CASE pairStatus'[g] = pairStatus[g]
  <2>1. Fate(g)' = Fate(g)
    BY <1>2, <1>3 DEF Fate, Dispatched
  <2> QED
    BY <1>1, <1>2, <2>1, FateStep
<1>4. CASE /\ pairStatus[g] \in {"CEX_FILLED", "DEX_FILLED"}
           /\ pairStatus'[g] \in {"UNWINDING", "FAILED"}
  <2>1. copied'[g]["cex"] # 0
    BY <1>1, <1>2, <1>4 DEF GroupInv, LegsPresent, InFlight, Venues
  <2>2. Fate(g) = "live" /\ Fate(g)' = "broken"
    BY <1>4, <2>1, FateNow, FateNext DEF InFlight
  <2> QED
    BY <1>1, <1>2, <2>2, FateStep
<1> QED
  BY <1>2, <1>3, <1>4

LEMMA UnwindReportsPromise ==
    ASSUME IInv, NEW g \in Groups, UnwindReports(g)
    PROVE  [Promise!Next]_(Promise!promiseVars)
<1>1. TypeOK /\ TypeOK' /\ Others(g) /\ GroupInv(g) /\ GroupInv(g)'
  BY UnwindReportsStep DEF IInv, Others
<1>2. /\ copied' = copied /\ unwound' = unwound /\ SameExecuted(g)
      /\ \/ unwinds[g].accepted > 0 /\ pairStatus'[g] = "COMPLETED"
         \/ unwinds[g].refused > 0 /\ pairStatus'[g] = "FAILED"
  BY <1>1 DEF UnwindReports, TypeOK, SameExecuted, Executed, callVars, exchVars
<1>3. /\ unwound[g] \in Nat /\ unwinds[g].queued \in Nat /\ unwinds[g].refused \in Nat
  BY <1>1 DEF TypeOK, UnwindThreads
<1>4. unwound[g] + unwinds[g].queued + unwinds[g].refused > 0
  BY <1>1, <1>2, <1>3 DEF GroupInv, UnwindsKnown
<1>5. gw[g]["cex"] # "idle" /\ pairStatus[g] \in {"UNWINDING", "FAILED", "COMPLETED"}
  BY <1>1, <1>4 DEF GroupInv, UnwindExecuted, UnwindsKnown, Executed
<1>6. Fate(g) \notin {"open", "void", "live"} /\ copied'[g]["cex"] # 0
  BY <1>2, <1>5, SentIsDecided, FateNow DEF Venues, InFlight
<1>7. Fate(g) # "hedged"
  BY <1>1, <1>3, <1>4, FateNow DEF GroupInv, UnwindsKnown
<1>8. unwinds[g].accepted > 0 => unwound[g] > 0
  BY <1>1 DEF GroupInv, UnwindsKnown
<1>9. Fate(g) = "broken" /\ Fate(g)' = "broken"
  BY <1>2, <1>3, <1>6, <1>7, <1>8, FateNow, FateNext DEF InFlight
<1> QED
  BY <1>1, <1>2, <1>9, FateStep

-----------------------------------------------------------------------------
(* Steps that execute or reverse a leg.                                    *)

LEMMA UnwindAcceptedPromise ==
    ASSUME IInv, ReversalInv, NEW g \in Groups, UnwindAccepted(g)
    PROVE  [Promise!Next]_(Promise!promiseVars)
<1>1. TypeOK /\ TypeOK' /\ Others(g) /\ GroupInv(g) /\ GroupInv(g)'
  BY UnwindAcceptedStep DEF IInv, Others
<1>2. /\ pairStatus' = pairStatus /\ copied' = copied /\ SameExecuted(g)
      /\ unwinds[g].queued > 0 /\ unwound' = [unwound EXCEPT ![g] = @ + 1]
  BY <1>1 DEF UnwindAccepted, TypeOK, SameExecuted, Executed, pairVars, callVars, exchVars
<1>3. /\ unwound[g] \in Nat /\ unwinds[g].queued \in Nat /\ unwinds[g].refused \in Nat
      /\ unwound'[g] > 0
  BY <1>1, <1>2 DEF TypeOK, UnwindThreads
<1>4. unwound[g] + unwinds[g].queued + unwinds[g].refused > 0
  BY <1>2, <1>3
<1>5. Executed(g, "cex") /\ pairStatus[g] \in {"UNWINDING", "FAILED", "COMPLETED"}
  BY <1>1, <1>4 DEF GroupInv, UnwindExecuted, UnwindsKnown
<1>6. Fate(g) \notin {"open", "void", "live"} /\ copied[g]["cex"] # 0
  BY <1>5, SentIsDecided, FateNow DEF Venues, InFlight, Executed
<1>7. Fate(g) # "hedged"
  BY <1>1, <1>2, <1>3, FateNow DEF GroupInv, UnwindsKnown
<1>8. Fate(g) = "broken" /\ Fate(g)' = "broken"
  BY <1>2, <1>3, <1>5, <1>6, <1>7, FateNow, FateNext DEF InFlight
<1>9. FateMap' = FateMap /\ ExecutedMap' = ExecutedMap /\ FateMap[g] = "broken"
  BY <1>1, <1>2, <1>8, FateMapStep, ExecutedMapSame DEF FateMap
<1>10. <<g, "cex">> \in ExecutedMap
  BY <1>5 DEF ExecutedMap, Venues
<1>11. unwound[g] < 2
  <2>1. OpenUnwinds(g) <= Len(reversals[g]) /\ Len(reversals[g]) <= Causes(g)
    BY DEF ReversalInv, ReverseInv, ReverseJustified, OpenUnwinds
  <2>2. Causes(g) <= 2
    BY DEF Causes
  <2> QED
    BY <1>1, <1>2, <1>3, <2>1, <2>2, ReversalTypes DEF OpenUnwinds
<1>12. Promise!Reverse(g)
  BY <1>2, <1>9, <1>10, <1>11 DEF Promise!Reverse, FateMap, ExecutedMap
<1> QED
  BY <1>12 DEF Promise!Next

LEMMA GatewayFillsPromise ==
    ASSUME IInv, NEW g \in Groups, NEW x \in Venues, GatewayFills(g, x)
    PROVE  [Promise!Next]_(Promise!promiseVars)
<1>1. TypeOK /\ TypeOK' /\ Others(g) /\ GroupInv(g) /\ GroupInv(g)'
  BY GatewayFillsStep DEF IInv, Others
<1>2. /\ pairStatus' = pairStatus /\ copied' = copied /\ unwound' = unwound
      /\ gw[g][x] = "working" /\ gw' = [gw EXCEPT ![g][x] = "filled"]
  BY DEF GatewayFills, pairVars, callVars, unwindVars
<1>3. Fate(g)' = Fate(g)
  BY <1>2 DEF Fate, Dispatched
<1>4. Fate(g) \notin {"open", "void"}
  BY <1>2, SentIsDecided
<1>5. Fate(g) # "hedged"
  BY <1>1, <1>2, FateNow DEF GroupInv, CompletedEarned, Executed
<1>6. FateMap' = FateMap /\ FateMap[g] \in {"live", "broken"}
  BY <1>1, <1>3, <1>4, <1>5, FateMapStep, FateNow DEF FateMap
<1>7. /\ ~Executed(g, x) /\ Executed(g, x)'
      /\ \A y \in Venues : y # x => (Executed(g, y)' <=> Executed(g, y))
      /\ \A h \in Groups : h # g => \A y \in Venues : Executed(h, y)' <=> Executed(h, y)
  BY <1>1, <1>2 DEF Executed, TypeOK
<1>8. ExecutedMap' = ExecutedMap \cup {<<g, x>>} /\ <<g, x>> \notin ExecutedMap
  BY <1>7 DEF ExecutedMap
<1>9. Promise!Execute(g, x)
  BY <1>2, <1>6, <1>8 DEF Promise!Execute, FateMap, ExecutedMap
<1> QED
  BY <1>9 DEF Promise!Next

-----------------------------------------------------------------------------

LEMMA StutterPromise ==
    ASSUME UNCHANGED vars
    PROVE  UNCHANGED Promise!promiseVars
<1>1. \A g \in Groups : Frame(g)
  BY DEF Frame, vars, pairVars, callVars, exchVars, unwindVars
<1>2. FateMap' = FateMap
  BY <1>1, FrameFate DEF FateMap
<1>3. ExecutedMap' = ExecutedMap
  BY <1>1, FrameFate DEF ExecutedMap
<1>4. unwound' = unwound
  BY DEF vars, unwindVars
<1> QED
  BY <1>2, <1>3, <1>4 DEF Promise!promiseVars, FateMap, ExecutedMap

LEMMA NextPromise ==
    IInv /\ ReversalInv /\ [Next]_vars => [Promise!Next]_(Promise!promiseVars)
<1> SUFFICES ASSUME IInv, ReversalInv, [Next]_vars PROVE [Promise!Next]_(Promise!promiseVars)
  OBVIOUS
<1>1. ASSUME NEW g \in Groups, GroupStep(g) PROVE [Promise!Next]_(Promise!promiseVars)
  BY <1>1, DeadlineFiresPromise, DispatchTooLatePromise, DispatchUnaffordablePromise,
     DispatchPairPromise, StartRiskWindowMonitorPromise, RiskWindowExceededPromise,
     UnwindAcceptedPromise, UnwindRefusedPromise, UnwindReportsPromise
     DEF GroupStep, DispatchStep, UnwindStep
<1>2. ASSUME NEW g \in Groups, NEW x \in Venues, VenueStep(g, x)
      PROVE  [Promise!Next]_(Promise!promiseVars)
  BY <1>2, AddLegPromise, SendLegPromise, GatewayAcceptsPromise, GatewayRefusesPromise,
     GatewayFillsPromise, GatewayRevertsPromise, AckArrivesPromise, RefusalArrivesPromise,
     FillArrivesPromise, RevertArrivesPromise, UnmatchedReportPromise
     DEF VenueStep, AnswerStep
<1>3. CASE UNCHANGED vars
  BY <1>3, StutterPromise
<1> QED
  BY <1>1, <1>2, <1>3 DEF Next

LEMMA InitPromise == Init => Promise!Init
<1> SUFFICES ASSUME Init PROVE Promise!Init
  OBVIOUS
<1>1. \A g \in Groups : Fate(g) = "open"
  BY FateNow DEF Init
<1>2. \A g \in Groups, x \in Venues : ~Executed(g, x)
  BY DEF Init, PerLeg, Executed
<1>3. FateMap = [g \in Groups |-> "open"] /\ ExecutedMap = {}
  BY <1>1, <1>2 DEF FateMap, ExecutedMap
<1> QED
  BY <1>3 DEF Promise!Init, Init, FateMap, ExecutedMap

\* The coordinator implements the promise: a group is decided once and sent
\* whole or not at all, a hedged group is final, and only an executed CEX leg of a
\* broken group is reversed, at most twice, under every interleaving of its threads.
THEOREM Refinement == Spec => PromiseKept
<1>1. Init => Promise!Init
  BY InitPromise
<1>2. IInv /\ ReversalInv /\ [Next]_vars => [Promise!Next]_(Promise!promiseVars)
  BY NextPromise
<1> QED
  BY <1>1, <1>2, Invariance, ReverseInvariance, PTL DEF Spec, PromiseKept, Promise!Spec

LEMMA HedgedIsFinal ==
    ASSUME [Promise!Next]_(Promise!promiseVars), NEW g \in Groups, FateMap[g] = "hedged"
    PROVE  FateMap'[g] = "hedged"
<1>1. ASSUME NEW h \in Groups, NEW d \in Promise!Fates, Promise!Decide(h, d)
      PROVE  FateMap'[g] = "hedged"
  BY <1>1 DEF Promise!Decide, FateMap
<1>2. ASSUME NEW h \in Groups, Promise!Hedge(h) \/ Promise!Break(h)
      PROVE  FateMap'[g] = "hedged"
  BY <1>2 DEF Promise!Hedge, Promise!Break, FateMap
<1>3. ASSUME NEW h \in Groups,
             Promise!Reverse(h) \/ \E x \in Venues : Promise!Execute(h, x)
      PROVE  FateMap'[g] = "hedged"
  BY <1>3 DEF Promise!Reverse, Promise!Execute, FateMap
<1>4. CASE UNCHANGED Promise!promiseVars
  BY <1>4 DEF Promise!promiseVars, FateMap
<1> QED
  BY <1>1, <1>2, <1>3, <1>4 DEF Promise!Next

LEMMA HedgedStep ==
    IInv /\ ReversalInv /\ [Next]_vars =>
        [\A g \in Groups :
            pairStatus[g] = "COMPLETED" /\ unwound[g] = 0 => pairStatus'[g] = "COMPLETED"]_vars
<1> SUFFICES ASSUME IInv, ReversalInv, [Next]_vars, NEW g \in Groups,
                    pairStatus[g] = "COMPLETED", unwound[g] = 0
             PROVE  pairStatus'[g] = "COMPLETED"
  OBVIOUS
<1>1. FateMap[g] = "hedged"
  BY FateNow DEF FateMap
<1>2. FateMap'[g] = "hedged"
  BY <1>1, NextPromise, HedgedIsFinal
<1>3. Fate(g)' = "hedged"
  BY <1>2 DEF FateMap
<1> QED
  BY <1>3, FateNext

\* A pair that both its fills completed is never taken out of COMPLETED: no timer,
\* late acknowledgement, late leg or unwind thread of the code reaches it.
THEOREM HedgedIsKept == Spec => HedgedStaysCompleted
<1>1. IInv /\ ReversalInv /\ [Next]_vars =>
        [\A g \in Groups :
            pairStatus[g] = "COMPLETED" /\ unwound[g] = 0 => pairStatus'[g] = "COMPLETED"]_vars
  BY HedgedStep
<1> QED
  BY <1>1, Invariance, ReverseInvariance, PTL DEF Spec, HedgedStaysCompleted

-----------------------------------------------------------------------------
(* The books.  All but three actions only release margin.                  *)

\* From l to m margin is released and nothing is booked.
Freed(l, m) ==
    /\ m \in Ledgers /\ m.used = l.used /\ m.positions = l.positions
    /\ \A k \in Keys : m.reserved[k] <= l.reserved[k]

LEMMA FreedSame ==
    ASSUME NEW l \in Ledgers
    PROVE  Freed(l, l)
BY DEF Freed, Ledgers

LEMMA ReleaseFrees ==
    ASSUME NEW l \in Ledgers, NEW m, Freed(l, m), NEW k
    PROVE  Freed(l, Release(m, k))
<1>1. m \in Ledgers /\ l \in Ledgers
  BY DEF Freed
<1>2. /\ Release(m, k) \in Ledgers /\ Release(m, k).used = m.used
      /\ k \in Keys => Release(m, k).reserved[k] = 0
      /\ \A j \in Keys : j # k => Release(m, k).reserved[j] = m.reserved[j]
  BY <1>1, ReleaseType
<1>3. Release(m, k).positions = m.positions
  BY <1>1 DEF Release, Ledgers
<1>4. ASSUME NEW j \in Keys PROVE Release(m, k).reserved[j] <= l.reserved[j]
  BY <1>1, <1>2 DEF Freed, Ledgers
<1> QED
  BY <1>2, <1>3, <1>4 DEF Freed

LEMMA ReleaseLegFrees ==
    ASSUME NEW l \in Ledgers, NEW m, Freed(l, m), NEW g, NEW x
    PROVE  Freed(l, ReleaseLeg(m, g, x))
BY ReleaseFrees DEF ReleaseLeg

LEMMA LegRejectFrees ==
    ASSUME ledger \in Ledgers, NEW g \in Groups, NEW x \in Venues, HandleLegReject(g, x)
    PROVE  Freed(ledger, ledger')
<1>1. Freed(ledger, ledger)
  BY FreedSame
<1>2. CASE HandleCexReject(g)
  <2>1. \/ ledger' = Release(ledger, Key(g, "cex"))
        \/ ledger' = Release(Release(ledger, Key(g, "cex")), Key(g, "dex"))
    BY <1>2 DEF HandleCexReject
  <2> QED
    BY <1>1, <2>1, ReleaseFrees
<1>3. CASE HandleDexReject(g)
  <2>1. \/ ledger' = Release(ledger, Key(g, "dex"))
        \/ ledger' = Release(ReleaseLeg(ledger, g, "cex"), Key(g, "dex"))
    BY <1>3 DEF HandleDexReject
  <2> QED
    BY <1>1, <2>1, ReleaseFrees, ReleaseLegFrees
<1> QED
  BY <1>2, <1>3 DEF HandleLegReject

\* What a step leaves of the orders and their fills when it books nothing.
OrdersKept ==
    /\ recorded' = recorded /\ leg' = leg /\ submitted' = submitted /\ copied' = copied

ReportsKept(g) ==
    \A x \in Venues :
        /\ gw[g][x] = "fill_reported" => gw'[g][x] = "fill_reported"
        /\ Executed(g, x) => Executed(g, x)'

StatusKept ==
    \A g \in Groups :
        /\ \A x \in Venues : pairStatus'[g] = FirstFilled(x) => pairStatus[g] = FirstFilled(x)
        /\ Booked(g) <=> Booked(g)'

BooksNothing ==
    /\ Freed(ledger, ledger') /\ OrdersKept /\ StatusKept
    /\ \A g \in Groups : ReportsKept(g)

LEMMA BooksNothingKeepsBooks ==
    ASSUME BooksInv, BooksNothing
    PROVE  BooksInv'
<1> SUFFICES ASSUME NEW g \in Groups PROVE GroupBooks(g)'
  BY DEF BooksInv
<1>1. GroupBooks(g)
  BY DEF BooksInv
<1>2. /\ recorded' = recorded /\ leg' = leg /\ submitted' = submitted /\ copied' = copied
      /\ ledger'.used = ledger.used
  BY DEF BooksNothing, OrdersKept, Freed
<1>3. LegIsLatest(g)'
  BY <1>1, <1>2 DEF GroupBooks, LegIsLatest
<1>4. RecordedIsSent(g)'
  BY <1>1, <1>2 DEF GroupBooks, RecordedIsSent, SentKey, BooksNothing, ReportsKept, StatusKept
<1>5. UsedIsRecorded(g)'
  <2>1. \A k : FillMargin(k)' = FillMargin(k)
    BY DEF FillMargin, Margin
  <2> QED
    BY <1>1, <1>2, <2>1 DEF GroupBooks, UsedIsRecorded, BooksNothing, StatusKept
<1>6. BookedWhole(g)'
  <2>1. \A x \in Venues : SentKey(g, x)' = SentKey(g, x)
                         /\ (FillMargin(SentKey(g, x)))' = FillMargin(SentKey(g, x))
    BY <1>2 DEF SentKey, FillMargin, Margin
  <2>2. Resubmitted(g)' <=> Resubmitted(g)
    BY <1>2 DEF Resubmitted
  <2>3. Booked(g)' <=> Booked(g)
    BY DEF BooksNothing, StatusKept
  <2>4. \A x \in Venues : Executed(g, x) => Executed(g, x)'
    BY DEF BooksNothing, ReportsKept
  <2> QED
    BY <1>1, <1>2, <2>1, <2>2, <2>3, <2>4 DEF GroupBooks, BookedWhole
<1> QED
  BY <1>3, <1>4, <1>5, <1>6 DEF GroupBooks

\* A pair its fills have completed stays so, and is booked by nothing else.
LEMMA BookedStays ==
    ASSUME IInv, ReversalInv, [Next]_vars, NEW g \in Groups, Booked(g)
    PROVE  Booked(g)'
<1>1. FateMap[g] = "hedged"
  BY FateNow DEF FateMap, Booked
<1>2. FateMap'[g] = "hedged"
  BY <1>1, NextPromise, HedgedIsFinal
<1>3. Fate(g)' = "hedged"
  BY <1>2 DEF FateMap
<1> QED
  BY <1>3, FateNext DEF Booked

LEMMA QuietStep ==
    ASSUME IInv, ReversalInv, Next, NEW g \in Groups, Others(g), OrdersKept,
           Freed(ledger, ledger'), ReportsKept(g),
           \/ pairStatus'[g] = pairStatus[g] /\ unwound'[g] = unwound[g]
           \/ pairStatus'[g] \in {"FAILED", "UNWINDING"}
           \/ pairStatus'[g] \in {pairStatus[g], "COMPLETED"} /\ unwound'[g] # 0
    PROVE  BooksNothing
<1>1. ASSUME NEW h \in Groups PROVE ReportsKept(h)
  <2>1. CASE h = g
    BY <2>1
  <2>2. CASE h # g
    BY <2>2 DEF Others, Frame, ReportsKept, Executed
  <2> QED
    BY <2>1, <2>2
<1>2. ASSUME NEW h \in Groups, NEW x \in Venues, pairStatus'[h] = FirstFilled(x)
      PROVE  pairStatus[h] = FirstFilled(x)
  BY <1>2 DEF Others, Frame, FirstFilled
<1>3. ASSUME NEW h \in Groups, Booked(h)' PROVE Booked(h)
  BY <1>3 DEF Booked, Others, Frame
<1>4. StatusKept
  BY <1>2, <1>3, BookedStays DEF StatusKept
<1> QED
  BY <1>1, <1>4 DEF BooksNothing

\* Steps that book nothing: all but a new leg, a dispatch and a recorded fill.
QuietGroupStep(g) ==
    \/ DeadlineFires(g) \/ DispatchTooLate(g) \/ DispatchUnaffordable(g)
    \/ StartRiskWindowMonitor(g) \/ RiskWindowExceeded(g) \/ UnwindStep(g)

QuietVenueStep(g, x) ==
    \/ SendLeg(g, x) \/ GatewayAccepts(g, x) \/ GatewayRefuses(g, x) \/ GatewayFills(g, x)
    \/ GatewayReverts(g, x) \/ AckArrives(g, x) \/ RefusalArrives(g, x)
    \/ RevertArrives(g, x) \/ UnmatchedReport(g, x)

LEMMA QuietGroupStepBooksNothing ==
    ASSUME IInv, ReversalInv, NEW g \in Groups, QuietGroupStep(g)
    PROVE  BooksNothing
<1>1. Next
  BY DEF Next, GroupStep, DispatchStep, QuietGroupStep
<1>2. Others(g)
  BY DeadlineFiresStep, DispatchTooLateStep, DispatchUnaffordableStep,
     StartRiskWindowMonitorStep, RiskWindowExceededStep, UnwindAcceptedStep,
     UnwindRefusedStep, UnwindReportsStep DEF QuietGroupStep, UnwindStep, Others
<1>3. OrdersKept
  BY DEF QuietGroupStep, DeadlineFires, DispatchTooLate, DispatchUnaffordable,
     StartRiskWindowMonitor, RiskWindowExceeded, UnwindStep, UnwindAccepted,
     UnwindRefused, UnwindReports, OrdersKept, pairVars, callVars
<1>4. gw' = gw
  BY DEF QuietGroupStep, DeadlineFires, DispatchTooLate, DispatchUnaffordable,
     StartRiskWindowMonitor, RiskWindowExceeded, UnwindStep, UnwindAccepted,
     UnwindRefused, UnwindReports, exchVars
<1>5. Freed(ledger, ledger')
  <2>0. ledger \in Ledgers /\ Freed(ledger, ledger)
    BY FreedSame DEF IInv, TypeOK
  <2>1. CASE ledger' = ledger
    BY <2>0, <2>1
  <2>2. CASE DeadlineFires(g)
    <3>1. ledger' = ledger \/ ledger' = ReleaseLeg(ReleaseLeg(ledger, g, "cex"), g, "dex")
      BY <2>2 DEF DeadlineFires
    <3> QED
      BY <2>0, <3>1, ReleaseLegFrees
  <2>3. CASE RiskWindowExceeded(g)
    <3>1. \/ ledger' = ledger \/ ledger' = Release(ledger, Key(g, "dex"))
          \/ ledger' = Release(Release(ledger, Key(g, "cex")), Key(g, "dex"))
      BY <2>3 DEF RiskWindowExceeded
    <3> QED
      BY <2>0, <3>1, ReleaseFrees
  <2>4. CASE UnwindReports(g)
    BY <2>0, <2>4, ReleaseFrees DEF UnwindReports
  <2> QED
    BY <2>1, <2>2, <2>3, <2>4 DEF QuietGroupStep, DispatchTooLate, DispatchUnaffordable,
       StartRiskWindowMonitor, UnwindStep, UnwindAccepted, UnwindRefused
<1>6. \/ pairStatus'[g] = pairStatus[g] /\ unwound'[g] = unwound[g]
      \/ pairStatus'[g] \in {"FAILED", "UNWINDING"}
      \/ pairStatus'[g] \in {pairStatus[g], "COMPLETED"} /\ unwound'[g] # 0
  <2>0. /\ pairStatus \in [Groups -> PairStatuses] /\ unwound \in [Groups -> Nat]
        /\ unwinds[g].accepted > 0 => unwound[g] > 0
    BY DEF IInv, TypeOK, GroupInv, UnwindsKnown
  <2>1. CASE UnwindStep(g)
    <3>1. CASE UnwindAccepted(g)
      BY <2>0, <3>1 DEF UnwindAccepted, pairVars
    <3>2. CASE UnwindRefused(g)
      BY <2>0, <3>2 DEF UnwindRefused, pairVars
    <3>3. CASE UnwindReports(g)
      BY <2>0, <3>3 DEF UnwindReports
    <3> QED
      BY <2>1, <3>1, <3>2, <3>3 DEF UnwindStep
  <2>2. CASE ~UnwindStep(g)
    BY <2>0, <2>2 DEF QuietGroupStep, DeadlineFires, DispatchTooLate,
       DispatchUnaffordable, StartRiskWindowMonitor, RiskWindowExceeded, pairVars,
       unwindVars
  <2> QED
    BY <2>1, <2>2
<1>7. ReportsKept(g)
  BY <1>4 DEF ReportsKept, Executed
<1> QED
  BY <1>1, <1>2, <1>3, <1>4, <1>5, <1>6, <1>7, QuietStep

LEMMA QuietVenueStepBooksNothing ==
    ASSUME IInv, ReversalInv, NEW g \in Groups, NEW x \in Venues, QuietVenueStep(g, x)
    PROVE  BooksNothing
<1>0. TypeOK /\ GroupInv(g)
  BY DEF IInv
<1>1. Next
  BY DEF Next, VenueStep, AnswerStep, QuietVenueStep
<1>2. Others(g)
  BY SendLegStep, GatewayAcceptsStep, GatewayRefusesStep, GatewayFillsStep,
     GatewayRevertsStep, AckArrivesStep, RefusalArrivesStep, RevertArrivesStep,
     UnmatchedReportStep DEF QuietVenueStep, Others
<1>3. OrdersKept
  BY DEF QuietVenueStep, SendLeg, GatewayAccepts, GatewayRefuses, GatewayFills,
     GatewayReverts, AckArrives, RefusalArrives, RevertArrives, UnmatchedReport,
     OrdersKept, pairVars, callVars
<1>4. ReportsKept(g)
  <2>1. CASE gw' = gw
    BY <2>1 DEF ReportsKept, Executed
  <2>2. CASE SendLeg(g, x)
    <3>1. gw[g][x] = "idle"
      BY <1>0, <2>2 DEF GroupInv, UnsentIsIdle, SendLeg, Venues
    <3>2. \A y \in Venues : y # x => gw'[g][y] = gw[g][y]
      BY <1>0, <2>2 DEF SendLeg, TypeOK
    <3> QED
      BY <3>1, <3>2 DEF ReportsKept, Executed
  <2>3. CASE ~SendLeg(g, x) /\ gw' # gw
    <3>1. /\ gw[g][x] # "fill_reported"
          /\ gw[g][x] = "filled" => gw' = [gw EXCEPT ![g][x] = "fill_reported"]
          /\ \E s : gw' = [gw EXCEPT ![g][x] = s]
      BY <2>3 DEF QuietVenueStep, GatewayAccepts, GatewayRefuses, GatewayFills,
         GatewayReverts, AckArrives, RefusalArrives, RevertArrives, UnmatchedReport
    <3> QED
      BY <1>0, <3>1 DEF ReportsKept, Executed, TypeOK
  <2> QED
    BY <2>1, <2>2, <2>3
<1>5. Freed(ledger, ledger')
  <2>0. ledger \in Ledgers /\ Freed(ledger, ledger)
    BY <1>0, FreedSame DEF TypeOK
  <2>1. CASE HandleLegReject(g, x)
    BY <2>0, <2>1, LegRejectFrees
  <2>2. CASE ledger' = ledger
    BY <2>0, <2>2
  <2> QED
    BY <2>1, <2>2 DEF QuietVenueStep, SendLeg, GatewayAccepts, GatewayRefuses,
       GatewayFills, GatewayReverts, AckArrives, RefusalArrives, RevertArrives,
       UnmatchedReport
<1>6. \/ pairStatus'[g] = pairStatus[g] /\ unwound'[g] = unwound[g]
      \/ pairStatus'[g] \in {"FAILED", "UNWINDING"}
  <2>1. CASE HandleLegReject(g, x)
    BY <1>0, <2>1, CexRejectEffect, DexRejectEffect, SMTT(20) DEF HandleLegReject, TypeOK
  <2>2. CASE pairStatus' = pairStatus /\ unwound' = unwound
    BY <2>2
  <2> QED
    BY <2>1, <2>2 DEF QuietVenueStep, SendLeg, GatewayAccepts, GatewayRefuses,
       GatewayFills, GatewayReverts, AckArrives, RefusalArrives, RevertArrives,
       UnmatchedReport, pairVars, unwindVars
<1> QED
  BY <1>1, <1>2, <1>3, <1>4, <1>5, <1>6, QuietStep

-----------------------------------------------------------------------------
(* A new leg and a dispatch.                                               *)

\* The others' part of the books, under a step about g.
OthersBooks(g) ==
    \A h \in Groups : h # g =>
        /\ Frame(h) /\ submitted'[h] = submitted[h]
        /\ \A x \in Venues : \A n \in 1 .. MaxSubmits :
               /\ <<h, x, n>> \in recorded' <=> <<h, x, n>> \in recorded
               /\ ledger'.used[<<h, x, n>>] = ledger.used[<<h, x, n>>]

LEMMA SentIsOrder ==
    ASSUME IInv, NEW g \in Groups, Booked(g), NEW x \in Venues
    PROVE  copied[g][x] \in 1 .. MaxSubmits
<1>1. GroupInv(g) /\ TypeOK
  BY DEF IInv
<1>2. Executed(g, x)
  BY <1>1 DEF Booked, GroupInv, CompletedEarned
<1>3. sender[g] # "idle"
  BY <1>1, <1>2 DEF GroupInv, UnsentIsIdle, Executed, Venues
<1>4. copied[g][x] # 0
  BY <1>1, <1>3 DEF GroupInv, LegsPresent
<1> QED
  BY <1>1, <1>4, ArbAssumption DEF TypeOK

LEMMA OtherBooksKept ==
    ASSUME IInv, NEW g \in Groups, OthersBooks(g), NEW h \in Groups, h # g, GroupBooks(h)
    PROVE  GroupBooks(h)'
<1>1. /\ Frame(h) /\ submitted'[h] = submitted[h]
      /\ \A x \in Venues : \A n \in 1 .. MaxSubmits :
               /\ <<h, x, n>> \in recorded' <=> <<h, x, n>> \in recorded
               /\ ledger'.used[<<h, x, n>>] = ledger.used[<<h, x, n>>]
  BY DEF OthersBooks
<1>2. LegIsLatest(h)'
  BY <1>1 DEF GroupBooks, LegIsLatest, Frame
<1>3. RecordedIsSent(h)'
  <2>1. ASSUME NEW x \in Venues, pairStatus'[h] = FirstFilled(x)
        PROVE  SentKey(h, x)' \in recorded'
    <3>1. pairStatus[h] \in InFlight /\ pairStatus[h] = FirstFilled(x)
      BY <1>1, <2>1 DEF Frame, FirstFilled, InFlight
    <3>2. copied[h][x] \in 1 .. MaxSubmits
      BY <3>1, ArbAssumption DEF IInv, GroupInv, LegsPresent, TypeOK
    <3>3. SentKey(h, x) \in recorded
      BY <3>1 DEF GroupBooks, RecordedIsSent
    <3> QED
      BY <1>1, <3>2, <3>3 DEF SentKey, Frame
  <2> QED
    BY <1>1, <2>1 DEF GroupBooks, RecordedIsSent, Frame
<1>4. UsedIsRecorded(h)'
  <2>1. \A k : FillMargin(k)' = FillMargin(k)
    BY DEF FillMargin, Margin
  <2> QED
    BY <1>1, <2>1 DEF GroupBooks, UsedIsRecorded, Frame, Booked
<1>5. BookedWhole(h)'
  <2> SUFFICES ASSUME Booked(h)', ~Resubmitted(h)', NEW x \in Venues
               PROVE  /\ Executed(h, x)'
                      /\ ledger'.used[SentKey(h, x)'] = FillMargin(SentKey(h, x))'
    BY DEF BookedWhole
  <2>1. Booked(h) /\ ~Resubmitted(h)
    BY <1>1 DEF Booked, Resubmitted, Frame
  <2>2. SentKey(h, x)' = SentKey(h, x)
    BY <1>1 DEF SentKey, Frame
  <2>3. Executed(h, x) /\ ledger.used[SentKey(h, x)] = FillMargin(SentKey(h, x))
    BY <2>1 DEF GroupBooks, BookedWhole
  <2>4. ledger'.used[SentKey(h, x)] = ledger.used[SentKey(h, x)]
    BY <1>1, <2>1, SentIsOrder DEF SentKey
  <2>5. FillMargin(SentKey(h, x))' = FillMargin(SentKey(h, x))
    BY <2>2 DEF FillMargin, Margin
  <2> QED
    BY <1>1, <2>2, <2>3, <2>4, <2>5 DEF Executed, Frame
<1> QED
  BY <1>2, <1>3, <1>4, <1>5 DEF GroupBooks

LEMMA BooksStep ==
    ASSUME IInv, BooksInv, NEW g \in Groups, OthersBooks(g), GroupBooks(g)'
    PROVE  BooksInv'
BY OtherBooksKept DEF BooksInv

LEMMA AddLegBooks ==
    ASSUME IInv, BooksInv, NEW g \in Groups, NEW x \in Venues, AddLeg(g, x)
    PROVE  BooksInv'
<1>0. TypeOK /\ GroupBooks(g)
  BY DEF IInv, BooksInv
<1>1. /\ recorded' = recorded /\ copied' = copied /\ gw' = gw /\ unwound' = unwound
      /\ ledger' = ledger
      /\ submitted' = [submitted EXCEPT ![g][x] = @ + 1]
      /\ leg' = [leg EXCEPT ![g][x] = submitted[g][x] + 1]
      /\ pairStatus' = [pairStatus EXCEPT ![g] = IF @ = "NONE" THEN "ASSEMBLING" ELSE @]
  BY DEF AddLeg, exchVars, unwindVars
<1>2. OthersBooks(g)
  BY <1>0, <1>1, AddLegStep DEF OthersBooks, TypeOK
<1>3. LegIsLatest(g)'
  <2> SUFFICES ASSUME NEW y \in Venues
               PROVE  leg'[g][y] = submitted'[g][y] /\ copied'[g][y] <= leg'[g][y]
    BY DEF LegIsLatest
  <2>1. leg[g][y] = submitted[g][y] /\ copied[g][y] <= leg[g][y]
    BY <1>0 DEF GroupBooks, LegIsLatest
  <2>2. leg[g][y] \in Nat /\ submitted[g][y] \in Nat /\ copied[g][y] \in Nat
    BY <1>0, ArbAssumption DEF TypeOK
  <2>3. CASE y = x
    BY <1>0, <1>1, <2>1, <2>2, <2>3 DEF TypeOK
  <2>4. CASE y # x
    BY <1>0, <1>1, <2>1, <2>2, <2>4 DEF TypeOK
  <2> QED
    BY <2>3, <2>4
<1>4. /\ Booked(g)' <=> Booked(g)
      /\ \A y \in Venues : pairStatus'[g] = FirstFilled(y) => pairStatus[g] = FirstFilled(y)
  BY <1>0, <1>1 DEF Booked, FirstFilled, TypeOK
<1>5. RecordedIsSent(g)'
  BY <1>0, <1>1, <1>4 DEF GroupBooks, RecordedIsSent, SentKey
<1>6. UsedIsRecorded(g)'
  <2>1. \A k : FillMargin(k)' = FillMargin(k)
    BY DEF FillMargin, Margin
  <2> QED
    BY <1>0, <1>1, <1>4, <2>1 DEF GroupBooks, UsedIsRecorded
<1>7. BookedWhole(g)'
  <2>1. \A y \in Venues : SentKey(g, y)' = SentKey(g, y)
                         /\ (FillMargin(SentKey(g, y)))' = FillMargin(SentKey(g, y))
                         /\ Executed(g, y)' <=> Executed(g, y)
    BY <1>1 DEF SentKey, FillMargin, Margin, Executed
  <2>2. Resubmitted(g) => Resubmitted(g)'
    <3>1. ASSUME NEW y \in Venues, submitted[g][y] > 1 PROVE submitted'[g][y] > 1
      <4>1. submitted[g][y] \in Nat
        BY <1>0, ArbAssumption DEF TypeOK
      <4>2. submitted'[g][y] = submitted[g][y] \/ submitted'[g][y] = submitted[g][y] + 1
        BY <1>0, <1>1 DEF TypeOK
      <4> QED
        BY <3>1, <4>1, <4>2
    <3> QED
      BY <3>1 DEF Resubmitted
  <2> QED
    BY <1>0, <1>1, <1>4, <2>1, <2>2 DEF GroupBooks, BookedWhole
<1>8. GroupBooks(g)'
  BY <1>3, <1>5, <1>6, <1>7 DEF GroupBooks
<1> QED
  BY <1>2, <1>8, BooksStep

LEMMA DispatchPairBooks ==
    ASSUME IInv, BooksInv, NEW g \in Groups, DispatchPair(g)
    PROVE  BooksInv' /\ ledger'.used = ledger.used /\ ledger'.positions = ledger.positions
<1>0. TypeOK /\ GroupInv(g) /\ GroupBooks(g) /\ ledger \in Ledgers
  BY DEF IInv, BooksInv, TypeOK
<1>1. /\ recorded' = recorded /\ gw' = gw /\ unwound' = unwound /\ leg' = leg
      /\ submitted' = submitted /\ copied' = [copied EXCEPT ![g] = leg[g]]
      /\ pairStatus[g] = "ASSEMBLING" /\ pairStatus' = [pairStatus EXCEPT ![g] = "DISPATCHED"]
      /\ ledger' = Reserve(Reserve(ledger, Key(g, "cex")), Key(g, "dex"))
  BY DEF DispatchPair, ReservePair, exchVars, unwindVars
<1>2. ledger'.used = ledger.used /\ ledger'.positions = ledger.positions
  BY <1>0, <1>1 DEF Reserve, Ledgers
<1>3. OthersBooks(g)
  BY <1>0, <1>1, <1>2, DispatchPairStep DEF OthersBooks
<1>4. LegIsLatest(g)'
  <2>1. copied'[g] = leg[g] /\ \A x \in Venues : leg[g][x] \in Nat
    BY <1>0, <1>1, ArbAssumption DEF TypeOK
  <2> QED
    BY <1>0, <1>1, <2>1 DEF GroupBooks, LegIsLatest
<1>5. ~Booked(g) /\ ~Booked(g)' /\ pairStatus'[g] = "DISPATCHED"
  BY <1>0, <1>1 DEF Booked, TypeOK
<1>6. RecordedIsSent(g)'
  <2>1. \A x \in Venues : gw[g][x] = "idle"
    BY <1>0, <1>1 DEF GroupInv, Undecided, UnsentIsIdle, Venues
  <2> QED
    BY <1>0, <1>1, <1>5, <2>1 DEF GroupBooks, RecordedIsSent, FirstFilled
<1>7. UsedIsRecorded(g)' /\ BookedWhole(g)'
  BY <1>0, <1>2, <1>5 DEF GroupBooks, UsedIsRecorded, BookedWhole
<1>8. GroupBooks(g)'
  BY <1>4, <1>6, <1>7 DEF GroupBooks
<1> QED
  BY <1>2, <1>3, <1>8, BooksStep

-----------------------------------------------------------------------------
(* A recorded fill.                                                        *)

\* What BookLeg writes to the used entry and adds to the position of order k.
Booking(k, filled) == IF k \in filled THEN FillMargin(k) ELSE 0

Traded(k) == IF Sig[k].buy THEN Sig[k].qty ELSE -Sig[k].qty

Moved(k, filled) == IF k \in filled THEN Traded(k) ELSE 0

LEMMA OrderNumbers ==
    ASSUME NEW k \in Keys
    PROVE  /\ Sig[k].qty \in Nat /\ Sig[k].symbol \in Symbols
           /\ Traded(k) \in Int
           /\ FillPrice[k] \in Nat /\ FillMargin(k) \in Nat
<1>1. Sig[k].qty \in Nat /\ Sig[k].symbol \in Symbols /\ FillPrice[k] \in Nat
  BY GuardAssumption, ArbAssumption DEF SignalFields
<1>2. Traded(k) \in Int
  BY <1>1 DEF Traded
<1>3. FillMargin(k) \in Nat
  BY <1>1, MarginType DEF FillMargin
<1> QED
  BY <1>1, <1>2, <1>3

LEMMA NothingHasNoMargin ==
    ASSUME NEW k \in Keys
    PROVE  Margin(k, 0, 0) = 0
<1> DEFINE d == IF Sig[k].options THEN 1 ELSE MaxLeverage
<1>1. d \in Nat /\ d > 0
  BY GuardAssumption
<1> HIDE DEF d
<1>2. (0 * 0) \div d = 0
  BY <1>1
<1> QED
  BY <1>2 DEF Margin, d

\* m is l after order k was booked, at its full quantity if it is in filled.
BookedInto(l, m, k, filled) ==
    /\ k \in Keys /\ k \in Orders
    /\ m \in Ledgers
    /\ m.used = [l.used EXCEPT ![k] = Booking(k, filled)]
    /\ m.reserved[k] = 0
    /\ \A j \in Keys : j # k => m.reserved[j] = l.reserved[j]
    /\ m.positions = [l.positions EXCEPT ![Sig[k].symbol] = @ + Moved(k, filled)]

LEMMA MinusNothing == \A a \in Int : a = 0 => -a = a
<1>1. \A a \in Int : -a = 0 - a
  OBVIOUS
<1>2. \A a \in Int : a = 0 => 0 - a = a
  OBVIOUS
<1> QED
  BY <1>1, <1>2

LEMMA BookLegEffect ==
    ASSUME NEW l \in Ledgers, NEW g \in Groups, NEW x \in Venues, NEW filled,
           leg[g][x] \in 1 .. MaxSubmits, NEW m, m = BookLeg(l, g, x, filled),
           NEW k, k = Key(g, x)
    PROVE  BookedInto(l, m, k, filled)
<1>1. k \in Keys /\ k \in Orders
  BY OrderIsKey DEF Key
<1>2. Sig[k].qty \in Nat /\ FillPrice[k] \in Nat
  BY <1>1, OrderNumbers
<1>3. ASSUME NEW q \in Nat, NEW p \in Nat
      PROVE  LET n == BookFill(l, k, q, p)
             IN  /\ n \in Ledgers
                 /\ n.used = [l.used EXCEPT ![k] = Margin(k, q, p)]
                 /\ n.reserved[k] = 0
                 /\ \A j \in Keys : j # k => n.reserved[j] = l.reserved[j]
                 /\ n.positions = [l.positions EXCEPT ![Sig[k].symbol] =
                                      @ + (IF Sig[k].buy THEN q ELSE -q)]
  <2>1. BookFill(l, k, q, p) \in Ledgers
    BY <1>1, BookFillType
  <2>2. ASSUME NEW j \in Keys, j # k
        PROVE  BookFill(l, k, q, p).reserved[j] = l.reserved[j]
    BY <1>1, <2>2, BookFillType, ZenonT(40)
  <2>3. /\ BookFill(l, k, q, p).reserved[k] = 0
        /\ BookFill(l, k, q, p).used = [l.used EXCEPT ![k] = Margin(k, q, p)]
    BY <1>1, BookFillEntries
  <2>4. BookFill(l, k, q, p).positions =
            [l.positions EXCEPT ![Sig[k].symbol] = @ + (IF Sig[k].buy THEN q ELSE -q)]
    BY <1>1, BookFillPositions
  <2> QED
    BY <2>1, <2>2, <2>3, <2>4
<1>4. CASE k \in filled
  <2>1. m = BookFill(l, k, Sig[k].qty, FillPrice[k])
    BY <1>4 DEF BookLeg
  <2>2. /\ Booking(k, filled) = Margin(k, Sig[k].qty, FillPrice[k])
        /\ Moved(k, filled) = IF Sig[k].buy THEN Sig[k].qty ELSE -Sig[k].qty
    BY <1>4 DEF Booking, Moved, Traded, FillMargin
  <2> QED
    BY <1>1, <1>2, <1>3, <2>1, <2>2 DEF BookedInto
<1>5. CASE k \notin filled
  <2> DEFINE z == 0
  <2>1. z \in Nat /\ m = BookFill(l, k, z, z)
    BY <1>5 DEF BookLeg
  <2>2. Booking(k, filled) = Margin(k, z, z)
    BY <1>1, <1>5, NothingHasNoMargin DEF Booking
  <2>3. z = 0 /\ z \in Int
    OBVIOUS
  <2> HIDE DEF z
  <2>4. -z = z
    BY <2>3, MinusNothing
  <2>5. Moved(k, filled) = IF Sig[k].buy THEN z ELSE -z
    BY <1>5, <2>3, <2>4 DEF Moved
  <2> QED
    BY <1>1, <1>3, <2>1, <2>2, <2>5 DEF BookedInto
<1> QED
  BY <1>4, <1>5

\* Booking a reserved order that executed no dearer commits no more.
LEMMA BookLegCommitsNoMore ==
    ASSUME NEW l \in Ledgers, NEW filled,
           NEW m, NEW k, BookedInto(l, m, k, filled), l.used[k] = 0,
           k \in filled => FillMargin(k) <= l.reserved[k],
           NEW j \in Keys
    PROVE  m.reserved[j] + m.used[j] <= l.reserved[j] + l.used[j]
<1>1. k \in Keys /\ m.used = [l.used EXCEPT ![k] = Booking(k, filled)]
  BY DEF BookedInto
<1>5. m.reserved[k] = 0
  BY DEF BookedInto
<1>6. j # k => m.reserved[j] = l.reserved[j]
  BY DEF BookedInto
<1>2. /\ l.used \in [Keys -> Nat] /\ l.reserved \in [Keys -> Nat]
      /\ FillMargin(k) \in Nat
  BY <1>1, OrderNumbers DEF Ledgers
<1>3. CASE j = k
  <2>1. m.used[j] = Booking(k, filled) /\ m.reserved[j] = 0
    BY <1>1, <1>2, <1>3, <1>5
  <2>2. Booking(k, filled) <= l.reserved[k] /\ Booking(k, filled) \in Nat
    BY <1>1, <1>2 DEF Booking
  <2> QED
    BY <1>1, <1>2, <1>3, <2>1, <2>2
<1>4. CASE j # k
  BY <1>1, <1>2, <1>4, <1>6
<1> QED
  BY <1>3, <1>4

\* What the used entries say about the position in s.
UsedIn(l, s) == [k \in Keys |-> IF l.used[k] # 0 /\ Sig[k].symbol = s THEN Traded(k) ELSE 0]

Balanced(l, s) == l.positions[s] = SumFunction(UsedIn(l, s))

\* Booking an order keeps used margin and positions in step.
LEMMA BookLegBalances ==
    ASSUME NEW l \in Ledgers, NEW filled,
           NEW m, NEW k, BookedInto(l, m, k, filled), l.used[k] = 0,
           FillMargin(k) # 0,
           NEW s \in Symbols, Balanced(l, s)
    PROVE  Balanced(m, s)
<1>1. /\ k \in Keys
      /\ m \in Ledgers
      /\ m.used = [l.used EXCEPT ![k] = Booking(k, filled)]
      /\ m.positions = [l.positions EXCEPT ![Sig[k].symbol] = @ + Moved(k, filled)]
  BY DEF BookedInto
<1> DEFINE f == UsedIn(l, s)
           h == UsedIn(m, s)
           d == IF Sig[k].symbol = s THEN Moved(k, filled) ELSE 0
<1>2. /\ f \in [Keys -> Int] /\ h \in [Keys -> Int] /\ IsFiniteSet(Keys)
      /\ Moved(k, filled) \in Int
  BY <1>1, OrderNumbers, GuardAssumption DEF UsedIn, Moved
<1>3. /\ f[k] = 0 /\ h[k] = d
      /\ \A j \in Keys : j # k => f[j] = h[j]
  BY <1>1 DEF UsedIn, Ledgers, Booking, Moved
<1>4. m.positions[s] = l.positions[s] + d
  BY <1>1, <1>2 DEF Ledgers
<1>5. l.positions[s] = SumFunction(f)
  BY DEF Balanced
<1>6. l.positions[s] \in Int /\ d \in Int
  BY <1>2 DEF Ledgers
<1> HIDE DEF f, h, d
<1>7. SumFunction(h) = SumFunction(f) - f[k] + h[k]
  BY <1>1, <1>2, <1>3, SumUpdate
<1>8. m.positions[s] = SumFunction(h)
  BY <1>3, <1>4, <1>5, <1>6, <1>7
<1> QED
  BY <1>8 DEF Balanced, h

\* What a fill finds and leaves, whatever it does to the pair.
LEMMA FillRecords ==
    ASSUME IInv, BooksInv, NEW g \in Groups, NEW x \in Venues, FillArrives(g, x)
    PROVE  /\ TypeOK /\ GroupInv(g) /\ GroupBooks(g) /\ Others(g)
           /\ leg[g][x] = copied[g][x] /\ copied[g][x] \in 1 .. MaxSubmits
           /\ leg' = leg /\ submitted' = submitted /\ copied' = copied /\ unwound' = unwound
           /\ recorded' = recorded \cup {SentKey(g, x)}
           /\ \A y \in Venues : Executed(g, y) => Executed(g, y)'
<1>1. TypeOK /\ GroupInv(g) /\ GroupBooks(g)
  BY DEF IInv, BooksInv
<1>2. /\ leg[g][x] = copied[g][x] /\ leg' = leg /\ submitted' = submitted
      /\ copied' = copied /\ unwound' = unwound
      /\ recorded' = recorded \cup {Key(g, x)}
      /\ gw[g][x] = "filled" /\ gw' = [gw EXCEPT ![g][x] = "fill_reported"]
  BY DEF FillArrives, Matches, callVars, unwindVars
<1>3. sender[g] # "idle"
  BY <1>1, <1>2 DEF GroupInv, UnsentIsIdle, Venues
<1>4. copied[g][x] \in 1 .. MaxSubmits
  BY <1>1, <1>3, ArbAssumption DEF GroupInv, LegsPresent, TypeOK
<1>5. \A y \in Venues : Executed(g, y) => Executed(g, y)'
  BY <1>1, <1>2 DEF Executed, TypeOK
<1>6. Others(g)
  BY FillArrivesStep DEF Others
<1>7. Key(g, x) = SentKey(g, x)
  BY <1>2 DEF Key, SentKey
<1> QED
  BY <1>1, <1>2, <1>4, <1>5, <1>6, <1>7

LEMMA FillKeepsRecordedSent ==
    ASSUME IInv, BooksInv, NEW g \in Groups, NEW x \in Venues, FillArrives(g, x)
    PROVE  LegIsLatest(g)' /\ RecordedIsSent(g)'
<1>1. /\ TypeOK /\ GroupBooks(g) /\ leg' = leg /\ submitted' = submitted /\ copied' = copied
      /\ recorded' = recorded \cup {SentKey(g, x)}
  BY FillRecords
<1>2. LegIsLatest(g)'
  BY <1>1 DEF GroupBooks, LegIsLatest
<1>3. /\ gw'[g][x] = "fill_reported"
      /\ \A y \in Venues : gw[g][y] = "fill_reported" => gw'[g][y] = "fill_reported"
  BY <1>1 DEF FillArrives, TypeOK
<1>4. \A y \in Venues : SentKey(g, y)' = SentKey(g, y)
  BY <1>1 DEF SentKey
<1>5. \A y \in Venues :
          pairStatus'[g] = FirstFilled(y) => y = x \/ pairStatus[g] = FirstFilled(y)
  BY <1>1 DEF FillArrives, FinalizePair, FirstFilled, TypeOK, Venues
<1>6. RecordedIsSent(g)'
  <2>1. ASSUME NEW y \in Venues, NEW n \in 1 .. MaxSubmits, <<g, y, n>> \in recorded'
        PROVE  n = copied'[g][y] /\ gw'[g][y] = "fill_reported"
    <3>1. CASE <<g, y, n>> \in recorded
      BY <1>1, <1>3, <3>1 DEF GroupBooks, RecordedIsSent
    <3>2. CASE <<g, y, n>> = SentKey(g, x)
      <4>1. y = x /\ n = copied[g][x]
        BY <3>2 DEF SentKey
      <4> QED
        BY <1>1, <1>3, <4>1
    <3> QED
      BY <1>1, <2>1, <3>1, <3>2
  <2>2. ASSUME NEW y \in Venues, pairStatus'[g] = FirstFilled(y)
        PROVE  SentKey(g, y)' \in recorded'
    BY <1>1, <1>4, <1>5, <2>2 DEF GroupBooks, RecordedIsSent
  <2> QED
    BY <2>1, <2>2 DEF RecordedIsSent
<1> QED
  BY <1>2, <1>6

\* A fill that completes nothing.
LEMMA FillWaitsBooks ==
    ASSUME IInv, BooksInv, NEW g \in Groups, NEW x \in Venues, FillArrives(g, x),
           ledger' = ledger, pairStatus'[g] = "COMPLETED" => pairStatus[g] = "COMPLETED"
    PROVE  BooksInv'
<1>1. /\ TypeOK /\ GroupBooks(g) /\ Others(g)
      /\ leg' = leg /\ submitted' = submitted /\ copied' = copied /\ unwound' = unwound
      /\ recorded' = recorded \cup {SentKey(g, x)}
      /\ \A y \in Venues : Executed(g, y) => Executed(g, y)'
  BY FillRecords
<1>2. OthersBooks(g)
  BY <1>1 DEF OthersBooks, Others, SentKey
<1>3. Booked(g)' <=> Booked(g)
  <2>1. pairStatus[g] = "COMPLETED" => pairStatus'[g] = "COMPLETED"
    BY <1>1 DEF FillArrives, FinalizePair, FirstFilled, TypeOK
  <2> QED
    BY <1>1, <2>1 DEF Booked
<1>4. \A k : FillMargin(k)' = FillMargin(k)
  BY DEF FillMargin, Margin
<1>5. UsedIsRecorded(g)'
  BY <1>1, <1>3, <1>4 DEF GroupBooks, UsedIsRecorded
<1>6. BookedWhole(g)'
  <2>1. \A y \in Venues : SentKey(g, y)' = SentKey(g, y)
                         /\ (FillMargin(SentKey(g, y)))' = FillMargin(SentKey(g, y))
    BY <1>1 DEF SentKey, FillMargin, Margin
  <2>2. Resubmitted(g)' <=> Resubmitted(g)
    BY <1>1 DEF Resubmitted
  <2> QED
    BY <1>1, <1>3, <2>1, <2>2 DEF GroupBooks, BookedWhole
<1> QED
  BY <1>2, <1>5, <1>6, FillKeepsRecordedSent, BooksStep DEF GroupBooks

\* The fill that completes the pair books both legs, each as an order that had no
\* used margin and, if its fill is on record, that still has its reservation.
Completing(g, x) ==
    FillArrives(g, x) /\ pairStatus[g] = FirstFilled(Other(x)) /\ FinalizePair(g, recorded')

Half(g) == BookLeg(ledger, g, "cex", recorded')

LEMMA CompletingBooks ==
    ASSUME IInv, BooksInv, NEW g \in Groups, NEW x \in Venues, Completing(g, x)
    PROVE  /\ BookedInto(ledger, Half(g), Key(g, "cex"), recorded')
           /\ BookedInto(Half(g), ledger', Key(g, "dex"), recorded')
           /\ \A y \in Venues : \A n \in 1 .. MaxSubmits : ledger.used[<<g, y, n>>] = 0
           /\ \A y \in Venues : /\ leg[g][y] \in 1 .. MaxSubmits
                                /\ copied[g][y] \in 1 .. MaxSubmits
           /\ Half(g).used[Key(g, "dex")] = 0
           /\ Half(g).reserved[Key(g, "dex")] = ledger.reserved[Key(g, "dex")]
<1>1. TypeOK /\ GroupInv(g) /\ GroupBooks(g) /\ ledger \in Ledgers
  BY DEF IInv, BooksInv, TypeOK
<1>2. pairStatus[g] \in InFlight
  BY DEF Completing, InFlight, FirstFilled
<1>3. \A y \in Venues : leg[g][y] \in 1 .. MaxSubmits /\ copied[g][y] \in 1 .. MaxSubmits
  BY <1>1, <1>2, ArbAssumption DEF GroupInv, LegsPresent, TypeOK
<1>4. ~Booked(g)
  BY <1>2 DEF Booked, InFlight
<1>5. \A y \in Venues : \A n \in 1 .. MaxSubmits : ledger.used[<<g, y, n>>] = 0
  BY <1>1, <1>4 DEF GroupBooks, UsedIsRecorded
<1>6. "cex" \in Venues /\ "dex" \in Venues
  BY DEF Venues
<1>7. BookedInto(ledger, Half(g), Key(g, "cex"), recorded')
  BY <1>1, <1>3, <1>6, BookLegEffect DEF Half
<1>8. Half(g) \in Ledgers
  BY <1>7 DEF BookedInto
<1>9. ledger' = BookLeg(Half(g), g, "dex", recorded')
  BY DEF Completing, FinalizePair, Half
<1>10. BookedInto(Half(g), ledger', Key(g, "dex"), recorded')
  BY <1>3, <1>6, <1>8, <1>9, BookLegEffect
<1>11. Key(g, "dex") # Key(g, "cex") /\ Key(g, "dex") \in Keys
  BY <1>10 DEF Key, BookedInto
<1>12. Half(g).used[Key(g, "dex")] = ledger.used[Key(g, "dex")]
  BY <1>1, <1>7, <1>11 DEF BookedInto, Ledgers
<1>13. ledger.used[Key(g, "dex")] = 0
  BY <1>3, <1>5, <1>6 DEF Key
<1>14. Half(g).reserved[Key(g, "dex")] = ledger.reserved[Key(g, "dex")]
  BY <1>7, <1>11 DEF BookedInto
<1> QED
  BY <1>3, <1>5, <1>7, <1>10, <1>12, <1>13, <1>14

\* Which entries of used differ afterwards.
LEMMA CompletingUsed ==
    ASSUME IInv, BooksInv, NEW g \in Groups, NEW x \in Venues, Completing(g, x)
    PROVE  /\ \A y \in Venues : ledger'.used[Key(g, y)] = Booking(Key(g, y), recorded')
           /\ \A k \in Keys : (\A y \in Venues : k # Key(g, y)) =>
                  ledger'.used[k] = ledger.used[k]
<1>1. /\ BookedInto(ledger, Half(g), Key(g, "cex"), recorded')
      /\ BookedInto(Half(g), ledger', Key(g, "dex"), recorded')
  BY CompletingBooks
<1>2. ledger \in Ledgers
  BY DEF IInv, TypeOK
<1> DEFINE c == Key(g, "cex")
           d == Key(g, "dex")
           bc == Booking(c, recorded')
           bd == Booking(d, recorded')
<1>3. c # d
  BY DEF Key
<1>4. c \in Keys /\ d \in Keys /\ Half(g).used = [ledger.used EXCEPT ![c] = bc]
  BY <1>1 DEF BookedInto
<1>5. ledger'.used = [Half(g).used EXCEPT ![d] = bd]
  BY <1>1 DEF BookedInto
<1>6. ledger.used \in [Keys -> Nat]
  BY <1>2 DEF Ledgers
<1> HIDE DEF c, d, bc, bd
<1>7. /\ ledger'.used[c] = bc /\ ledger'.used[d] = bd
      /\ \A k \in Keys : k # c /\ k # d => ledger'.used[k] = ledger.used[k]
  BY <1>3, <1>4, <1>5, <1>6
<1> QED
  BY <1>7 DEF c, d, bc, bd, Venues

LEMMA CompletingKeepsBooks ==
    ASSUME IInv, BooksInv, NEW g \in Groups, NEW x \in Venues, Completing(g, x)
    PROVE  BooksInv'
<1>1. /\ TypeOK /\ GroupInv(g) /\ GroupBooks(g) /\ Others(g)
      /\ leg[g][x] = copied[g][x]
      /\ leg' = leg /\ submitted' = submitted /\ copied' = copied /\ unwound' = unwound
      /\ recorded' = recorded \cup {SentKey(g, x)}
      /\ \A y \in Venues : Executed(g, y) => Executed(g, y)'
  BY FillRecords DEF Completing
<1>2. /\ \A y \in Venues : ledger'.used[Key(g, y)] = Booking(Key(g, y), recorded')
      /\ \A k \in Keys : (\A y \in Venues : k # Key(g, y)) =>
             ledger'.used[k] = ledger.used[k]
  BY CompletingUsed
<1>3. /\ \A y \in Venues : \A n \in 1 .. MaxSubmits : ledger.used[<<g, y, n>>] = 0
      /\ \A y \in Venues : leg[g][y] \in 1 .. MaxSubmits /\ copied[g][y] \in 1 .. MaxSubmits
  BY CompletingBooks
<1>4. OthersBooks(g)
  <2>1. ASSUME NEW h \in Groups, h # g, NEW y \in Venues, NEW n \in 1 .. MaxSubmits
        PROVE  /\ <<h, y, n>> \in recorded' <=> <<h, y, n>> \in recorded
               /\ ledger'.used[<<h, y, n>>] = ledger.used[<<h, y, n>>]
    <3>1. <<h, y, n>> \in Keys /\ \A z \in Venues : <<h, y, n>> # Key(g, z)
      BY <2>1, OrderIsKey DEF Key
    <3>2. <<h, y, n>> # SentKey(g, x)
      BY <2>1 DEF SentKey
    <3> QED
      BY <1>1, <1>2, <3>1, <3>2
  <2> QED
    BY <1>1, <2>1 DEF OthersBooks, Others
<1>5. Booked(g)'
  <2>1. pairStatus[g] \in InFlight /\ pairStatus'[g] = "COMPLETED"
    BY <1>1 DEF Completing, FinalizePair, FirstFilled, InFlight, TypeOK
  <2>2. unwound[g] \in Nat /\ unwinds[g].queued \in Nat /\ unwinds[g].refused \in Nat
    BY <1>1 DEF TypeOK, UnwindThreads
  <2>3. ~(unwound[g] + unwinds[g].queued + unwinds[g].refused > 0)
    BY <1>1, <2>1 DEF GroupInv, UnwindsKnown, InFlight
  <2>4. unwound[g] = 0
    BY <2>2, <2>3
  <2> QED
    BY <1>1, <2>1, <2>4 DEF Booked
<1>6. \A k : FillMargin(k)' = FillMargin(k)
  BY DEF FillMargin, Margin
<1>7. UsedIsRecorded(g)'
  <2> SUFFICES ASSUME NEW y \in Venues, NEW n \in 1 .. MaxSubmits,
                      ledger'.used[<<g, y, n>>] # 0
               PROVE  /\ <<g, y, n>> \in recorded'
                      /\ ledger'.used[<<g, y, n>>] = FillMargin(<<g, y, n>>)
    BY <1>5, <1>6 DEF UsedIsRecorded
  <2>1. <<g, y, n>> \in Keys /\ ledger.used[<<g, y, n>>] = 0
    BY <1>3, OrderIsKey
  <2>2. PICK z \in Venues : <<g, y, n>> = Key(g, z)
    BY <1>2, <2>1
  <2> DEFINE k == Key(g, z)
  <2>3. ledger'.used[k] = Booking(k, recorded') /\ ledger'.used[k] # 0
    BY <1>2, <2>2
  <2> HIDE DEF k
  <2>4. k \in recorded' /\ ledger'.used[k] = FillMargin(k)
    BY <2>3 DEF Booking
  <2> QED
    BY <2>2, <2>4 DEF k
<1>8. BookedWhole(g)'
  <2> SUFFICES ASSUME ~Resubmitted(g), NEW y \in Venues
               PROVE  /\ Executed(g, y)'
                      /\ ledger'.used[SentKey(g, y)'] = FillMargin(SentKey(g, y))'
    BY <1>1 DEF BookedWhole, Resubmitted
  <2>1. SentKey(g, y) \in recorded' /\ Executed(g, y)'
    <3>1. CASE y = x
      <4>1. Executed(g, x)
        BY DEF Completing, FillArrives, Executed
      <4> QED
        BY <1>1, <3>1, <4>1
    <3>2. CASE y # x
      <4>1. y = Other(x)
        BY <3>2 DEF Other, Venues
      <4>2. pairStatus[g] = FirstFilled(y)
        BY <4>1 DEF Completing
      <4>3. Executed(g, y) /\ SentKey(g, y) \in recorded
        BY <1>1, <4>2 DEF GroupInv, FilledIsReported, GroupBooks, RecordedIsSent, Executed
      <4> QED
        BY <1>1, <4>3
    <3> QED
      BY <3>1, <3>2
  <2>2. Key(g, y) = SentKey(g, y)
    <3>1. /\ leg[g][y] = submitted[g][y] /\ copied[g][y] <= leg[g][y]
          /\ ~(submitted[g][y] > 1)
      BY <1>1 DEF GroupBooks, LegIsLatest, Resubmitted
    <3>2. leg[g][y] \in 1 .. MaxSubmits /\ copied[g][y] \in 1 .. MaxSubmits
      BY <1>3
    <3>3. leg[g][y] = copied[g][y]
      BY <3>1, <3>2, ArbAssumption
    <3> QED
      BY <3>3 DEF Key, SentKey
  <2>3. ledger'.used[SentKey(g, y)] = FillMargin(SentKey(g, y))
    BY <1>2, <2>1, <2>2 DEF Booking
  <2>4. SentKey(g, y)' = SentKey(g, y) /\ FillMargin(SentKey(g, y))' = FillMargin(SentKey(g, y))
    BY <1>1 DEF SentKey, FillMargin, Margin
  <2> QED
    BY <2>1, <2>3, <2>4
<1> QED
  BY <1>4, <1>7, <1>8, FillKeepsRecordedSent, BooksStep DEF GroupBooks, Completing

LEMMA FillCases ==
    ASSUME IInv, NEW g \in Groups, NEW x \in Venues, FillArrives(g, x)
    PROVE  \/ Completing(g, x)
           \/ /\ ledger' = ledger
              /\ pairStatus'[g] = "COMPLETED" => pairStatus[g] = "COMPLETED"
BY DEF IInv, TypeOK, FillArrives, Completing, FirstFilled

-----------------------------------------------------------------------------
(* Every step, by what it does to the books.                               *)

LEMMA StepKinds ==
    ASSUME IInv, ReversalInv, BooksInv, [Next]_vars
    PROVE  \/ BooksNothing
           \/ \E g \in Groups : DispatchPair(g)
           \/ \E g \in Groups, x \in Venues : AddLeg(g, x)
           \/ \E g \in Groups, x \in Venues : FillArrives(g, x)
<1>1. CASE UNCHANGED vars
  <2>1. ledger \in Ledgers /\ ledger' = ledger
    BY <1>1 DEF IInv, TypeOK, vars
  <2>2. Freed(ledger, ledger') /\ OrdersKept
    BY <1>1, <2>1, FreedSame DEF vars, pairVars, callVars, OrdersKept
  <2>3. StatusKept
    BY <1>1 DEF vars, pairVars, unwindVars, StatusKept, Booked
  <2>4. \A g \in Groups : ReportsKept(g)
    BY <1>1 DEF vars, exchVars, ReportsKept, Executed
  <2> QED
    BY <2>2, <2>3, <2>4 DEF BooksNothing
<1>2. ASSUME NEW g \in Groups, GroupStep(g) PROVE DispatchPair(g) \/ QuietGroupStep(g)
  BY <1>2 DEF GroupStep, DispatchStep, QuietGroupStep
<1>3. ASSUME NEW g \in Groups, NEW x \in Venues, VenueStep(g, x)
      PROVE  AddLeg(g, x) \/ FillArrives(g, x) \/ QuietVenueStep(g, x)
  BY <1>3 DEF VenueStep, AnswerStep, QuietVenueStep
<1> QED
  BY <1>1, <1>2, <1>3, QuietGroupStepBooksNothing, QuietVenueStepBooksNothing DEF Next

LEMMA InitBooks == Init => BooksInv
<1> SUFFICES ASSUME Init, NEW g \in Groups PROVE GroupBooks(g)
  BY DEF BooksInv
<1>1. /\ pairStatus[g] = "NONE" /\ recorded = {}
      /\ \A x \in Venues : leg[g][x] = 0 /\ submitted[g][x] = 0 /\ copied[g][x] = 0
      /\ ledger = EmptyLedger
  BY DEF Init, PerLeg
<1>2. \A x \in Venues : \A n \in 1 .. MaxSubmits : ledger.used[<<g, x, n>>] = 0
  BY <1>1, OrderIsKey DEF EmptyLedger
<1> QED
  BY <1>1, <1>2 DEF GroupBooks, LegIsLatest, RecordedIsSent, UsedIsRecorded, BookedWhole,
     Booked, FirstFilled

LEMMA NextBooks == IInv /\ ReversalInv /\ BooksInv /\ [Next]_vars => BooksInv'
BY StepKinds, BooksNothingKeepsBooks, DispatchPairBooks, AddLegBooks, FillCases,
   FillWaitsBooks, CompletingKeepsBooks

\* What has been booked, and for which order, stays what BooksInv says.
THEOREM BooksInvariance == Spec => []BooksInv
<1>1. Init => BooksInv
  BY InitBooks
<1>2. IInv /\ ReversalInv /\ BooksInv /\ [Next]_vars => BooksInv'
  BY NextBooks
<1> QED
  BY <1>1, <1>2, Invariance, ReverseInvariance, PTL DEF Spec

\* A leg is in the books only together with its partner, both executed and in full,
\* unless a second add_leg took a slot of the group: FinalizePair runs once, and no
\* other step of any thread books or unbooks.
THEOREM HedgesAreWhole == Spec => []BookedTogether
<1>1. IInv /\ BooksInv => BookedTogether
  <2> SUFFICES ASSUME BooksInv, NEW o \in Orders, ledger.used[o] # 0, ~Resubmitted(o[1]),
                      NEW y \in Venues
               PROVE  /\ Executed(o[1], y)
                      /\ ledger.used[SentKey(o[1], y)] = FillMargin(SentKey(o[1], y))
    BY DEF BookedTogether
  <2>1. PICK g \in Groups, x \in Venues, n \in 1 .. MaxSubmits : o = <<g, x, n>>
    BY DEF Orders
  <2>2. o[1] = g /\ GroupBooks(g)
    BY <2>1 DEF BooksInv
  <2>3. Booked(g)
    BY <2>1, <2>2 DEF GroupBooks, UsedIsRecorded
  <2> QED
    BY <2>2, <2>3 DEF GroupBooks, BookedWhole
<1> QED
  BY <1>1, Invariance, ReverseInvariance, BooksInvariance, PTL

-----------------------------------------------------------------------------
(* The margin that is left, and the positions.                             *)

LEMMA RecordedIsReserved ==
    ASSUME IInv, BooksInv, NEW g \in Groups, NEW x \in Venues, Completing(g, x),
           NEW y \in Venues, Key(g, y) \in recorded'
    PROVE  ledger.reserved[Key(g, y)] = RequiredMargin(Key(g, y))
<1>1. /\ GroupInv(g) /\ leg' = leg /\ copied' = copied
      /\ leg[g][y] \in 1 .. MaxSubmits /\ RecordedIsSent(g)'
  BY FillRecords, FillKeepsRecordedSent, CompletingBooks DEF Completing
<1>2. Key(g, y) = SentKey(g, y)
  BY <1>1 DEF RecordedIsSent, Key, SentKey
<1>3. pairStatus[g] \in InFlight
  BY DEF Completing, InFlight, FirstFilled
<1> QED
  BY <1>1, <1>2, <1>3 DEF GroupInv, ReservedInFlight

LEMMA CompletingCommitsNoMore ==
    ASSUME IInv, BooksInv, NEW g \in Groups, NEW x \in Venues, Completing(g, x),
           \A k \in Keys : FillMargin(k) <= RequiredMargin(k)
    PROVE  AvailableMargin(ledger') >= AvailableMargin(ledger)
<1>1. /\ BookedInto(ledger, Half(g), Key(g, "cex"), recorded')
      /\ BookedInto(Half(g), ledger', Key(g, "dex"), recorded')
      /\ Half(g).used[Key(g, "dex")] = 0
      /\ Half(g).reserved[Key(g, "dex")] = ledger.reserved[Key(g, "dex")]
  BY CompletingBooks
<1>2. ledger.used[Key(g, "cex")] = 0
  BY CompletingBooks DEF Key, Venues
<1>3. /\ ledger \in Ledgers /\ Half(g) \in Ledgers /\ ledger' \in Ledgers
      /\ Key(g, "cex") \in Keys /\ Key(g, "dex") \in Keys
  BY <1>1 DEF IInv, TypeOK, BookedInto
<1>4. Key(g, "cex") \in recorded' => FillMargin(Key(g, "cex")) <= ledger.reserved[Key(g, "cex")]
  BY <1>3, RecordedIsReserved DEF Venues
<1>5. Key(g, "dex") \in recorded' => FillMargin(Key(g, "dex")) <= Half(g).reserved[Key(g, "dex")]
  BY <1>1, <1>3, RecordedIsReserved DEF Venues
<1>6. \A j \in Keys : Half(g).reserved[j] + Half(g).used[j] <= ledger.reserved[j] + ledger.used[j]
  BY <1>1, <1>2, <1>3, <1>4, BookLegCommitsNoMore
<1>7. \A j \in Keys : ledger'.reserved[j] + ledger'.used[j] <= Half(g).reserved[j] + Half(g).used[j]
  BY <1>1, <1>3, <1>5, BookLegCommitsNoMore
<1>8. AvailableMargin(Half(g)) >= AvailableMargin(ledger)
  BY <1>3, <1>6, LessCommitted
<1>9. AvailableMargin(ledger') >= AvailableMargin(Half(g))
  BY <1>3, <1>7, LessCommitted
<1>10. /\ AvailableMargin(Half(g)) \in Int /\ AvailableMargin(ledger) \in Int
       /\ AvailableMargin(ledger') \in Int
  BY <1>3, SumsOfEntries
<1> QED
  BY <1>8, <1>9, <1>10

LEMMA DispatchPairAffords ==
    ASSUME IInv, NEW g \in Groups, DispatchPair(g)
    PROVE  AvailableMargin(ledger') >= 0
<1> DEFINE c == Key(g, "cex")
           d == Key(g, "dex")
<1>1. TypeOK /\ GroupInv(g) /\ ledger \in Ledgers
  BY DEF IInv, TypeOK
<1>2. \A x \in Venues : leg[g][x] \in 1 .. MaxSubmits
  BY <1>1, ArbAssumption DEF DispatchPair, GroupInv, LegsPresent, HasBothLegs, TypeOK
<1>3. c \in Keys /\ d \in Keys
  BY <1>2, OrderIsKey DEF Key, Venues
<1>4. /\ RequiredMargin(c) + RequiredMargin(d) <= AvailableMargin(ledger)
      /\ ledger' = Reserve(Reserve(ledger, c), d)
  BY DEF DispatchPair, AffordablePair, ReservePair
<1> HIDE DEF c, d
<1>5. Reserve(ledger, c) \in Ledgers
  BY <1>1, <1>3, ReserveType
<1>6. AvailableMargin(Reserve(ledger, c)) = AvailableMargin(ledger) - RequiredMargin(c)
  BY <1>1, <1>3, ReserveCommits
<1>7. AvailableMargin(ledger') = AvailableMargin(Reserve(ledger, c)) - RequiredMargin(d)
  BY <1>3, <1>4, <1>5, ReserveCommits
<1>8. RequiredMargin(c) \in Nat /\ RequiredMargin(d) \in Nat /\ AvailableMargin(ledger) \in Int
  BY <1>1, <1>3, RequiredMarginType, SumsOfEntries
<1> QED
  BY <1>4, <1>6, <1>7, <1>8

LEMMA MarginStep ==
    ASSUME IInv, ReversalInv, BooksInv, [Next]_vars, AvailableMargin(ledger) >= 0,
           \A k \in Keys : FillMargin(k) <= RequiredMargin(k)
    PROVE  AvailableMargin(ledger') >= 0
<1>1. ledger \in Ledgers /\ ledger' \in Ledgers
  BY NextInv DEF IInv, TypeOK
<1>2. AvailableMargin(ledger) \in Int /\ AvailableMargin(ledger') \in Int
  BY <1>1, SumsOfEntries
<1>3. CASE BooksNothing
  <2>1. ledger'.used = ledger.used /\ \A k \in Keys : ledger'.reserved[k] <= ledger.reserved[k]
    BY <1>3 DEF BooksNothing, Freed
  <2>2. \A k \in Keys : ledger'.reserved[k] + ledger'.used[k] <= ledger.reserved[k] + ledger.used[k]
    BY <1>1, <2>1 DEF Ledgers
  <2>3. AvailableMargin(ledger') >= AvailableMargin(ledger)
    BY <1>1, <2>2, LessCommitted
  <2> QED
    BY <1>2, <2>3
<1>4. CASE \E g \in Groups : DispatchPair(g)
  BY <1>4, DispatchPairAffords
<1>5. CASE ledger' = ledger
  BY <1>5
<1>6. CASE \E g \in Groups, x \in Venues : Completing(g, x)
  <2>1. AvailableMargin(ledger') >= AvailableMargin(ledger)
    BY <1>6, CompletingCommitsNoMore
  <2> QED
    BY <1>2, <2>1
<1>7. ASSUME NEW g \in Groups, NEW x \in Venues, AddLeg(g, x) PROVE ledger' = ledger
  BY <1>7 DEF AddLeg
<1> QED
  BY <1>3, <1>4, <1>5, <1>6, <1>7, StepKinds, FillCases

\* Reserved and used margin never exceed the cash, however many pairs the threads
\* dispatch, fill, reject and unwind at once, if orders execute no dearer than margined.
THEOREM CashSuffices == Spec => []NoOvercommit
<1>1. Init => NoOvercommit
  BY EmptyAvailable, GuardAssumption DEF Init, NoOvercommit
<1>2. IInv /\ ReversalInv /\ BooksInv /\ NoOvercommit /\ [Next]_vars => NoOvercommit'
  <2> SUFFICES ASSUME IInv, ReversalInv, BooksInv, NoOvercommit, [Next]_vars,
                      \A k \in Keys : FillMargin(k)' <= RequiredMargin(k)'
               PROVE  AvailableMargin(ledger') >= 0
    BY DEF NoOvercommit, AvailableMargin
  <2>1. \A k \in Keys : FillMargin(k) <= RequiredMargin(k)
    BY DEF FillMargin, RequiredMargin, Margin
  <2> QED
    BY <2>1, MarginStep DEF NoOvercommit
<1> QED
  BY <1>1, <1>2, Invariance, BooksInvariance, ReverseInvariance, PTL DEF Spec

LEMMA CompletingBalances ==
    ASSUME IInv, BooksInv, NEW g \in Groups, NEW x \in Venues, Completing(g, x),
           \A o \in Orders : FillMargin(o) # 0, NEW s \in Symbols, Balanced(ledger, s)
    PROVE  Balanced(ledger', s)
<1>1. /\ BookedInto(ledger, Half(g), Key(g, "cex"), recorded')
      /\ BookedInto(Half(g), ledger', Key(g, "dex"), recorded')
      /\ Half(g).used[Key(g, "dex")] = 0
  BY CompletingBooks
<1>2. ledger.used[Key(g, "cex")] = 0
  BY CompletingBooks DEF Key, Venues
<1>3. /\ ledger \in Ledgers /\ Half(g) \in Ledgers
      /\ FillMargin(Key(g, "cex")) # 0 /\ FillMargin(Key(g, "dex")) # 0
  BY <1>1 DEF IInv, TypeOK, BookedInto
<1>4. Balanced(Half(g), s)
  BY <1>1, <1>2, <1>3, BookLegBalances
<1> QED
  BY <1>1, <1>3, <1>4, BookLegBalances

LEMMA BalanceStep ==
    ASSUME IInv, ReversalInv, BooksInv, [Next]_vars, \A o \in Orders : FillMargin(o) # 0,
           NEW s \in Symbols, Balanced(ledger, s)
    PROVE  Balanced(ledger', s)
<1>1. CASE ledger'.used = ledger.used /\ ledger'.positions = ledger.positions
  <2>1. UsedIn(ledger', s) = UsedIn(ledger, s)
    BY <1>1 DEF UsedIn
  <2> QED
    BY <1>1, <2>1 DEF Balanced
<1>2. BooksNothing => ledger'.used = ledger.used /\ ledger'.positions = ledger.positions
  BY DEF BooksNothing, Freed
<1>3. ASSUME NEW g \in Groups, NEW x \in Venues, AddLeg(g, x) PROVE ledger' = ledger
  BY <1>3 DEF AddLeg
<1> QED
  BY <1>1, <1>2, <1>3, StepKinds, DispatchPairBooks, FillCases, CompletingBalances

\* The positions are the sums of the orders that hold used margin: on_fill books each
\* order into both maps, once, if no order executes at a margin of zero.
THEOREM PositionsAreUsed == Spec => []PositionsMatchUsed
<1>0. PositionsMatchUsed <=>
          ((\A o \in Orders : FillMargin(o) # 0) => \A s \in Symbols : Balanced(ledger, s))
  BY DEF PositionsMatchUsed, Balanced, UsedIn, Traded
<1>1. Init => PositionsMatchUsed
  <2> SUFFICES ASSUME Init, NEW s \in Symbols PROVE Balanced(ledger, s)
    BY <1>0
  <2>1. ledger = EmptyLedger
    BY DEF Init
  <2>2. UsedIn(ledger, s) = [k \in Keys |-> 0] /\ ledger.positions[s] = 0
    BY <2>1 DEF UsedIn, EmptyLedger
  <2>3. SumFunction([k \in Keys |-> 0]) = 0
    BY SumOfZeros, GuardAssumption
  <2> QED
    BY <2>2, <2>3 DEF Balanced
<1>2. IInv /\ ReversalInv /\ BooksInv /\ PositionsMatchUsed /\ [Next]_vars => PositionsMatchUsed'
  <2> SUFFICES ASSUME IInv, ReversalInv, BooksInv, PositionsMatchUsed, [Next]_vars,
                      \A o \in Orders : FillMargin(o)' # 0, NEW s \in Symbols
               PROVE  Balanced(ledger', s)
    BY DEF PositionsMatchUsed, Balanced, UsedIn, Traded
  <2>1. \A o \in Orders : FillMargin(o) # 0
    BY DEF FillMargin, Margin
  <2> QED
    BY <1>0, <2>1, BalanceStep
<1> QED
  BY <1>1, <1>2, Invariance, BooksInvariance, ReverseInvariance, PTL DEF Spec
=============================================================================
