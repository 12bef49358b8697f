----------------------------- MODULE MCManager -----------------------------
(* Values for TLC: orders in one symbol, buys and sells on both kinds of   *)
(* exchange, one of them for an exchange without a gateway.  sell is a     *)
(* market order: it is margined at the reference price, for 2 units where  *)
(* the others take 1, and the mock gateways fill it at its own price of 0. *)
(* swap comes 0.9 ms over its limit, late 1 ms; the clock of stray's       *)
(* sender is ahead.                                                        *)
EXTENDS OrderManager

CONSTANTS buy, sell, swap, stray, late

MCSig == [o \in Keys |-> [symbol |-> "BTC", buy |-> o \in {buy, swap}, qty |-> 1,
                          price |-> IF o = sell THEN 0 ELSE 10, options |-> FALSE]]

MCReceived == [o \in Keys |->
    [has |-> {"signal_id", "symbol"},
     direct |-> o \in {swap, late},
     age |-> CASE o = swap -> 200900 [] o = late -> 201000
               [] o = stray -> -6000000 [] OTHER -> 5000999]]

MCVenue == [o \in Keys |-> IF o = swap THEN "dex" ELSE "cex"]

MCRouted == Keys \ {stray}

MCFillPrice == [o \in Keys |-> IF o = sell THEN 0 ELSE 10]

MCReferencePrice == [s \in Symbols |-> 20]
=============================================================================
