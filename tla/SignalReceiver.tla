--------------------------- MODULE SignalReceiver ---------------------------
(***************************************************************************)
(* The validation of src/transport/signal_receiver.h: which signals        *)
(* process_signal goes on with.  It keeps no state.                        *)
(*                                                                         *)
(* A signal comes with the optional fields it has, its source, and its age *)
(* when validate reads the clock, in microseconds.  The age is negative    *)
(* when the clock of the sender is ahead.                                  *)
(***************************************************************************)
EXTENDS Integers

CONSTANTS
    DirectFreshness,     \* direct_freshness_ms
    BacktestFreshness    \* backtest_freshness_ms

ASSUME FreshnessAssumption == DirectFreshness \in Nat /\ BacktestFreshness \in Nat

OptionFields == {"strike_price", "expiry", "option_type"}

Fields == {"signal_id", "symbol"} \cup OptionFields

ReceivedSignals == [has : SUBSET Fields, direct : BOOLEAN, age : Int]

Complete(r, qty, options) ==
    /\ {"signal_id", "symbol"} \subseteq r.has
    /\ qty > 0
    /\ options => OptionFields \subseteq r.has

\* Integer division truncates towards zero.
AgeMs(age) == IF age >= 0 THEN age \div 1000 ELSE -((-age) \div 1000)

Threshold(r) == IF r.direct THEN DirectFreshness ELSE BacktestFreshness

\* Mutant of Fresh: the age is compared before it is cut to milliseconds.
FreshToTheMicrosecond(r) == r.age <= 1000 * Threshold(r)

Fresh(r) == AgeMs(r.age) <= Threshold(r)

Valid(r, qty, options) == Complete(r, qty, options) /\ Fresh(r)

=============================================================================
