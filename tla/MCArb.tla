------------------------------- MODULE MCArb -------------------------------
(* Values for TLC.  Every group trades the same symbol, buying on the CEX  *)
(* and selling on the DEX; one leg takes 1 unit of margin.                 *)
EXTENDS ArbCoordinator, TLC

MCOrders == Groups \X Venues \X (1 .. MaxSubmits)

MCSig == [k \in MCOrders |->
            [symbol |-> "BTC", buy |-> k[2] = "cex", qty |-> 1, price |-> 10,
             options |-> FALSE]]

MCFillPrice == [k \in MCOrders |-> 10]

MCReferencePrice == [s \in Symbols |-> 20]
MCSymmetry == Permutations(Groups)
=============================================================================
