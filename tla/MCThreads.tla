------------------------------ MODULE MCThreads ------------------------------
(* Values for TLC: a pair with both legs, and the first leg of another.     *)
EXTENDS ArbThreads

MCSignals == {<<"g1", "cex">>, <<"g1", "dex">>, <<"g2", "cex">>}
=============================================================================
