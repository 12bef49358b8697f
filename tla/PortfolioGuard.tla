--------------------------- MODULE PortfolioGuard ---------------------------
(***************************************************************************)
(* The margin ledger (src/core/portfolio_guard.h over src/model/           *)
(* portfolio.h).  A signal is known to the ledger by its key, the code's   *)
(* "symbol:signal_id".  A map entry that is absent and one of value 0 are  *)
(* the same here: no operation of the ledger tells them apart.  Amounts    *)
(* are integers; the configurations choose them so that every division is  *)
(* exact.                                                                  *)
(*                                                                         *)
(* Every operation of the guard holds its spin lock from start to end, so  *)
(* each is a function from ledgers to ledgers, and a handler that calls    *)
(* several of them applies one after the other.  The variable that holds   *)
(* the ledger belongs to the module whose actions make the calls.          *)
(***************************************************************************)
EXTENDS Integers, FiniteSets, Functions

CONSTANTS
    Keys,            \* signals the ledger may be asked about
    Symbols,         \* traded symbols
    Sig,             \* Keys -> the fields of the signal the ledger reads
    ReferencePrice,  \* Symbols -> price assumed for a market order
    InitialCash,
    MaxLeverage

SignalFields == [symbol : Symbols, buy : BOOLEAN, qty : Nat, price : Nat,
                 options : BOOLEAN]

ASSUME GuardAssumption ==
    /\ IsFiniteSet(Keys)
    /\ Sig \in [Keys -> SignalFields]
    /\ ReferencePrice \in [Symbols -> Nat]
    /\ InitialCash \in Nat
    /\ MaxLeverage \in Nat \ {0}

Ledgers == [reserved : [Keys -> Nat],        \* margin_reserved
            used : [Keys -> Nat],            \* margin_used
            positions : [Symbols -> Int]]

EmptyLedger == [reserved |-> [k \in Keys |-> 0],
                used |-> [k \in Keys |-> 0],
                positions |-> [s \in Symbols |-> 0]]

Margin(k, qty, price) ==
    (qty * price) \div (IF Sig[k].options THEN 1 ELSE MaxLeverage)

\* A market order carries price 0 and is margined at the reference price.
RequiredMargin(k) ==
    Margin(k, Sig[k].qty, IF Sig[k].price = 0 THEN ReferencePrice[Sig[k].symbol]
                                              ELSE Sig[k].price)

AvailableMargin(l) == InitialCash - SumFunction(l.reserved) - SumFunction(l.used)

\* Mutant of Affordable: what is only reserved does not count as taken.
AffordableAlone(l, k) == RequiredMargin(k) <= InitialCash - SumFunction(l.used)

Affordable(l, k) == RequiredMargin(k) <= AvailableMargin(l)

\* Mutant of AffordablePair: what is only reserved does not count as taken.
AffordableUnreserved(l, c, d) ==
    RequiredMargin(c) + RequiredMargin(d) <= InitialCash - SumFunction(l.used)

AffordablePair(l, c, d) == RequiredMargin(c) + RequiredMargin(d) <= AvailableMargin(l)

\* The entry is added to, so a second reservation under one key accumulates.
Reserve(l, k) == [l EXCEPT !.reserved[k] = @ + RequiredMargin(k)]

\* Mutant of ReservePair: one reservation for the pair.
ReserveFirstOnly(l, c, d) == Reserve(l, c)

ReservePair(l, c, d) == Reserve(Reserve(l, c), d)

\* Mutant of Release: the margin is subtracted from the entry, reserved or not.
ReleaseSubtracting(l, k) == [l EXCEPT !.reserved[k] = @ - RequiredMargin(k)]

\* The whole entry is erased, whatever has accumulated in it.
Release(l, k) == [l EXCEPT !.reserved[k] = 0]

\* Mutant of BookFill: the position is assigned like the used entry.
BookFillAssigning(l, k, qty, price) ==
    [Release(l, k) EXCEPT
        !.used[k] = Margin(k, qty, price),
        !.positions[Sig[k].symbol] = IF Sig[k].buy THEN qty ELSE -qty]

\* The used entry is assigned, not added to; the position is added to.
BookFill(l, k, qty, price) ==
    [Release(l, k) EXCEPT
        !.used[k] = Margin(k, qty, price),
        !.positions[Sig[k].symbol] = @ + (IF Sig[k].buy THEN qty ELSE -qty)]

=============================================================================
