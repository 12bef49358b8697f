----------------------------- MODULE KeyedStore -----------------------------
(***************************************************************************)
(* What a user of a map relies on: an operation on one key leaves every    *)
(* other key's entry as it was, and a key is there from the time it is     *)
(* written until it is erased.  An erase may take a while; nothing changes *)
(* in that time.  A store of bounded capacity accepts no new key when it   *)
(* is full.  Which value a write leaves is the writer's business.          *)
(***************************************************************************)
EXTENDS Integers, FiniteSets

CONSTANTS Keys, Values, CAP, Absent

VARIABLES
    store,           \* Keys -> a value, or Absent
    erasing          \* an erase has not returned yet

storeVars == <<store, erasing>>

Present == {k \in Keys : store[k] # Absent}

Init ==
    /\ store = [k \in Keys |-> Absent]
    /\ erasing = FALSE

Write(k, v) ==
    /\ ~erasing
    /\ k \in Present \/ Cardinality(Present) < CAP
    /\ store' = [store EXCEPT ![k] = v]
    /\ UNCHANGED erasing

Erase(k) ==
    /\ ~erasing
    /\ k \in Present
    /\ store' = [store EXCEPT ![k] = Absent]
    /\ erasing' = TRUE

EraseReturns ==
    /\ erasing
    /\ erasing' = FALSE
    /\ UNCHANGED store

Clear ==
    /\ ~erasing
    /\ store' = [k \in Keys |-> Absent]
    /\ UNCHANGED erasing

Next ==
    \/ \E k \in Keys : Erase(k) \/ \E v \in Values : Write(k, v)
    \/ EraseReturns
    \/ Clear

Spec == Init /\ [][Next]_storeVars
=============================================================================
