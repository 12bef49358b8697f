----------------------------- MODULE MCResolver -----------------------------
(* Values for TLC: buys of one symbol, one for each way a cancel may go, and *)
(* two signals to sell.                                                     *)
EXTENDS ConflictResolver

CONSTANTS quick, slow, unknown

MCSymbol == [k \in Orders \cup Signals |-> "BTC"]
=============================================================================
