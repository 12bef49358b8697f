----------------------------- MODULE ArbPromise -----------------------------
(***************************************************************************)
(* What the coordinator promises about an arbitrage group, without         *)
(* threads, statuses or timers.  A group is decided once: either nothing   *)
(* of it is ever sent, or both its legs are committed.  Of a committed     *)
(* group each leg executes at most once, in any order and at any later     *)
(* time.  It is called hedged only when both legs have executed, and that  *)
(* is final; otherwise it is broken, and only then, and only for an        *)
(* executed CEX leg, are reverse orders placed, two at most.  A leg of a   *)
(* broken group may still be sent and may still execute: the code does     *)
(* nothing against that, so nothing is promised about it.                  *)
(***************************************************************************)
EXTENDS Integers

CONSTANTS Groups, Venues

VARIABLES
    fate,            \* Groups -> where the group stands
    executed,        \* legs the exchanges have executed
    reversed         \* Groups -> reverse orders placed for its CEX leg

promiseVars == <<fate, executed, reversed>>

Fates == {"open", "void", "live", "hedged", "broken"}

Init ==
    /\ fate = [g \in Groups |-> "open"]
    /\ executed = {}
    /\ reversed = [g \in Groups |-> 0]

Decide(g, decision) ==
    /\ fate[g] = "open"
    /\ decision \in {"void", "live"}
    /\ fate' = [fate EXCEPT ![g] = decision]
    /\ UNCHANGED <<executed, reversed>>

Execute(g, x) ==
    /\ fate[g] \in {"live", "broken"}
    /\ <<g, x>> \notin executed
    /\ executed' = executed \cup {<<g, x>>}
    /\ UNCHANGED <<fate, reversed>>

Hedge(g) ==
    /\ fate[g] = "live"
    /\ \A x \in Venues : <<g, x>> \in executed
    /\ fate' = [fate EXCEPT ![g] = "hedged"]
    /\ UNCHANGED <<executed, reversed>>

Break(g) ==
    /\ fate[g] = "live"
    /\ fate' = [fate EXCEPT ![g] = "broken"]
    /\ UNCHANGED <<executed, reversed>>

Reverse(g) ==
    /\ fate[g] = "broken"
    /\ <<g, "cex">> \in executed
    /\ reversed[g] < 2
    /\ reversed' = [reversed EXCEPT ![g] = @ + 1]
    /\ UNCHANGED <<fate, executed>>

Next ==
    \E g \in Groups :
        \/ \E decision \in Fates : Decide(g, decision)
        \/ \E x \in Venues : Execute(g, x)
        \/ Hedge(g)
        \/ Break(g)
        \/ Reverse(g)

Spec == Init /\ [][Next]_promiseVars
=============================================================================
