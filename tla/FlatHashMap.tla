---------------------------- MODULE FlatHashMap ----------------------------
(***************************************************************************)
(* The open-addressing table of src/util/flat_hash_map.h, under the calls  *)
(* the margin ledger makes: m[k] += v (reservations, positions), m[k] = v  *)
(* (used margin), erase and clear.                                         *)
(*                                                                         *)
(* The ledger's lock is held throughout, so operations do not overlap; an  *)
(* erase is still taken apart, one action per turn of its loop, because    *)
(* what is asked is where that loop goes.  find and for_each only read.    *)
(***************************************************************************)
EXTENDS Integers, FiniteSets, FiniteSetsExt

CONSTANTS
    Keys,
    NoKey,           \* the cleared key field
    CAP,             \* number of slots
    Hash,            \* Keys -> slot where the probing of a key begins
    Amount,          \* Keys -> what the ledger adds or assigns under the key
    MaxValue,        \* bound: largest sum an entry is let grow to
    Operations       \* calls the table gets: "add", "assign", "erase", "clear"

ASSUME TableAssumption ==
    /\ NoKey \notin Keys
    /\ CAP \in Nat \ {0}
    /\ Hash \in [Keys -> 0 .. CAP - 1]
    /\ Amount \in [Keys -> Nat]
    /\ MaxValue \in Nat
    /\ Operations \subseteq {"add", "assign", "erase", "clear"}

VARIABLES
    slots,           \* the array of slots
    size,
    dummy,           \* the static value a full table answers with
    next             \* where erase's loop is, Idle between operations

vars == <<slots, size, dummy, next>>

Positions == 0 .. CAP - 1

Idle == CAP

Nowhere == CAP

Slots == [key : Keys \cup {NoKey}, value : 0 .. MaxValue, occupied : BOOLEAN]

TypeOK ==
    /\ slots \in [Positions -> Slots]
    /\ size \in 0 .. CAP
    /\ dummy \in 0 .. MaxValue
    /\ next \in Positions \cup {Idle}

EmptySlot == [key |-> NoKey, value |-> 0, occupied |-> FALSE]

Init ==
    /\ slots = [p \in Positions |-> EmptySlot]
    /\ size = 0
    /\ dummy = 0
    /\ next = Idle

-----------------------------------------------------------------------------
(* Probing.                                                                *)

Probe(k, i) == (Hash[k] + i) % CAP

\* Offsets at which a probe for k ends in table s: a free slot, or k itself.
Ends(s, k) == {i \in Positions : LET p == s[Probe(k, i)] IN ~p.occupied \/ p.key = k}

\* The slot a probe ends at; Nowhere in a full table without k.
Landing(s, k) == IF Ends(s, k) = {} THEN Nowhere ELSE Probe(k, Min(Ends(s, k)))

Found(s, k) == Landing(s, k) # Nowhere /\ s[Landing(s, k)].occupied

\* get_or_insert: a free slot gets the key, and keeps the value it had.
Inserted(s, k) ==
    [s EXCEPT ![Landing(s, k)].key = k, ![Landing(s, k)].occupied = TRUE]

SizeAfterInsert(s, n, k) == IF Found(s, k) THEN n ELSE n + 1

-----------------------------------------------------------------------------
(* The operations.                                                         *)

\* What the caller stores through the reference that get_or_insert returns.
Stored(k, old, adding) == IF adding THEN old + Amount[k] ELSE Amount[k]

WriteThrough(k, adding) ==
    /\ next = Idle
    /\ LET p == Landing(slots, k)
           old == IF p = Nowhere THEN dummy ELSE slots[p].value
           new == Stored(k, old, adding)
       IN  /\ new <= MaxValue
           /\ IF p = Nowhere
              THEN /\ dummy' = new
                   /\ UNCHANGED <<slots, size>>
              ELSE /\ slots' = [Inserted(slots, k) EXCEPT ![p].value = new]
                   /\ size' = SizeAfterInsert(slots, size, k)
                   /\ UNCHANGED dummy
    /\ UNCHANGED next

Add(k) == "add" \in Operations /\ WriteThrough(k, TRUE)

Assign(k) == "assign" \in Operations /\ WriteThrough(k, FALSE)

\* Mutant of Erase: the entries behind the erased one are left where they are.
EraseLeavingHole(k) ==
    /\ "erase" \in Operations
    /\ next = Idle
    /\ Found(slots, k)
    /\ slots' = [slots EXCEPT ![Landing(slots, k)] = EmptySlot]
    /\ size' = size - 1
    /\ UNCHANGED <<dummy, next>>

\* Mutant of Erase: the slot is marked free and keeps its value.
EraseKeepingValue(k) ==
    /\ "erase" \in Operations
    /\ next = Idle
    /\ Found(slots, k)
    /\ slots' = [slots EXCEPT ![Landing(slots, k)].key = NoKey,
                             ![Landing(slots, k)].occupied = FALSE]
    /\ size' = size - 1
    /\ next' = (Landing(slots, k) + 1) % CAP
    /\ UNCHANGED dummy

\* erase up to its loop: the slot of the key is emptied.
Erase(k) ==
    /\ "erase" \in Operations
    /\ next = Idle
    /\ Found(slots, k)
    /\ slots' = [slots EXCEPT ![Landing(slots, k)] = EmptySlot]
    /\ size' = size - 1
    /\ next' = (Landing(slots, k) + 1) % CAP
    /\ UNCHANGED dummy

\* Mutant of Reinsert: the value stays behind.
ReinsertKeyOnly ==
    /\ next # Idle
    /\ slots[next].occupied
    /\ LET e == slots[next]
           rest == [slots EXCEPT ![next].key = NoKey, ![next].occupied = FALSE]
       IN  /\ slots' = Inserted(rest, e.key)
           /\ size' = SizeAfterInsert(rest, size - 1, e.key)
    /\ next' = (next + 1) % CAP
    /\ UNCHANGED dummy

\* Mutant of Reinsert: taking the entry out is not counted.
ReinsertCountingTwice ==
    /\ next # Idle
    /\ slots[next].occupied
    /\ LET e == slots[next]
           rest == [slots EXCEPT ![next].key = NoKey, ![next].occupied = FALSE]
       IN  /\ slots' = [Inserted(rest, e.key) EXCEPT ![Landing(rest, e.key)].value = e.value]
           /\ size' = SizeAfterInsert(rest, size, e.key)
    /\ next' = (next + 1) % CAP
    /\ UNCHANGED dummy

\* Mutant of Reinsert: the loop does not advance.
ReinsertInPlace ==
    /\ next # Idle
    /\ slots[next].occupied
    /\ LET e == slots[next]
           rest == [slots EXCEPT ![next].key = NoKey, ![next].occupied = FALSE]
       IN  /\ slots' = [Inserted(rest, e.key) EXCEPT ![Landing(rest, e.key)].value = e.value]
           /\ size' = SizeAfterInsert(rest, size - 1, e.key)
    /\ next' = next
    /\ UNCHANGED dummy

\* One turn of the loop: the entry at next is taken out and inserted again.  The
\* slot it leaves is marked free and loses its key, but not its value.
Reinsert ==
    /\ next # Idle
    /\ slots[next].occupied
    /\ LET e == slots[next]
           rest == [slots EXCEPT ![next].key = NoKey, ![next].occupied = FALSE]
       IN  /\ slots' = [Inserted(rest, e.key) EXCEPT ![Landing(rest, e.key)].value = e.value]
           /\ size' = SizeAfterInsert(rest, size - 1, e.key)
    /\ next' = (next + 1) % CAP
    /\ UNCHANGED dummy

EraseReturns ==
    /\ next # Idle
    /\ ~slots[next].occupied
    /\ next' = Idle
    /\ UNCHANGED <<slots, size, dummy>>

\* Mutant of Clear: the counter is not reset.
ClearKeepingSize ==
    /\ "clear" \in Operations
    /\ next = Idle
    /\ slots' = [p \in Positions |-> EmptySlot]
    /\ UNCHANGED <<size, dummy, next>>

Clear ==
    /\ "clear" \in Operations
    /\ next = Idle
    /\ slots' = [p \in Positions |-> EmptySlot]
    /\ size' = 0
    /\ UNCHANGED <<dummy, next>>

EraseLoop == Reinsert \/ EraseReturns

Next ==
    \/ \E k \in Keys : Add(k) \/ Assign(k) \/ Erase(k)
    \/ EraseLoop
    \/ Clear

Spec == Init /\ [][Next]_vars

\* The thread that erases goes on.
FairSpec == Spec /\ WF_vars(EraseLoop)

-----------------------------------------------------------------------------
(* What is checked.                                                        *)

Holders(k) == {p \in Positions : slots[p].occupied /\ slots[p].key = k}

\* Between operations a probe for a stored key ends at its entry, and there is no
\* second one: re-inserting the entries behind an erased one leaves no probing
\* chain with a hole in it, around the end of the array too.
EveryEntryIsFound ==
    next = Idle =>
        \A k \in Keys : Holders(k) # {} => Holders(k) = {Landing(slots, k)}

\* The counter is the number of occupied slots, also within an erase.
SizeIsExact == size = Cardinality({p \in Positions : slots[p].occupied})

Absent == -1

Entry(k) == IF Holders(k) = {} THEN Absent
            ELSE slots[CHOOSE p \in Holders(k) : TRUE].value

Store == INSTANCE KeyedStore WITH
    Values <- 0 .. MaxValue,
    store <- [k \in Keys |-> Entry(k)],
    erasing <- next # Idle

\* The table is a map: an operation on one key, the moves of an erase included,
\* neither loses nor changes nor doubles another key's entry.
OthersUndisturbed == Store!Spec

\* erase's loop, which stops only at a free slot, does not go round for ever,
\* not even in a full table.
EraseEnds == next # Idle ~> next = Idle

\* What a free slot still holds, for the next key that gets it.
Leftover(p) == IF slots[p].occupied THEN 0 ELSE slots[p].value

\* A first reservation under a key reserves its amount and what the slot still holds,
\* and a free slot comes to hold something in one way only: the loop of an erase of
\* another key has moved the slot's entry away.  Nothing else ever makes a sum too
\* large, and no write, erase or clear leaves a value behind.
SurplusIsLeftover ==
    [][/\ \A k \in Keys : Entry(k) = Absent /\ size < CAP /\ Add(k) =>
              Entry(k)' = Amount[k] + Leftover(Landing(slots, k))
       /\ \A p \in Positions : Leftover(p)' \notin {0, Leftover(p)} =>
              Reinsert /\ p = next /\ Leftover(p)' = slots[p].value]_vars

=============================================================================
