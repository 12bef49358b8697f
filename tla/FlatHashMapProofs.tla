-------------------------- MODULE FlatHashMapProofs --------------------------
(***************************************************************************)
(* Theorems about the table, for every capacity, hash and set of keys.     *)
(***************************************************************************)
EXTENDS FlatHashMap, FiniteSetTheorems, WellFoundedInduction, TLAPS

-----------------------------------------------------------------------------
(* Positions round the array.                                              *)

\* x is met on the way round from a to b, b not included.
Between(a, x, b) == IF a <= b THEN a <= x /\ x < b ELSE a <= x \/ x < b

After(p) == IF p + 1 = CAP THEN 0 ELSE p + 1

LEMMA WrapsOnce ==
    ASSUME NEW a \in Positions, NEW i \in 0 .. CAP
    PROVE  (a + i) % CAP = IF a + i < CAP THEN a + i ELSE a + i - CAP
BY TableAssumption, SMTT(30) DEF Positions

LEMMA NextPosition ==
    ASSUME NEW p \in Positions
    PROVE  (p + 1) % CAP = After(p) /\ After(p) \in Positions
<1>1. CAP \in Nat \ {0} /\ 1 \in 0 .. CAP
  BY TableAssumption
<1>2. (p + 1) % CAP = IF p + 1 < CAP THEN p + 1 ELSE p + 1 - CAP
  BY <1>1, WrapsOnce
<1> QED
  BY <1>1, <1>2 DEF Positions, After

LEMMA LeastExists ==
    ASSUME NEW S \in SUBSET Nat, S # {}
    PROVE  Min(S) \in S /\ \A y \in S : Min(S) <= y
<1>1. PICK x \in S : \A y \in S : ~ (<<y, x>> \in OpToRel(<, Nat))
  BY NatLessThanWellFounded, WFMin
<1>2. \A y \in S : x <= y
  <2> SUFFICES ASSUME NEW y \in S, y < x PROVE FALSE
    OBVIOUS
  <2>1. <<y, x>> \in Nat \X Nat /\ <<y, x>>[1] < <<y, x>>[2]
    OBVIOUS
  <2>2. <<y, x>> \in {ss \in Nat \X Nat : ss[1] < ss[2]}
    BY <2>1, Zenon
  <2> QED
    BY <1>1, <2>2, Zenon DEF OpToRel
<1> QED
  BY <1>2 DEF Min

-----------------------------------------------------------------------------
(* What the probe for a key ends at.                                       *)

\* p is the first slot from the hash of k on that is free or holds k.
Lands(s, k, p) ==
    /\ p \in Positions
    /\ ~s[p].occupied \/ s[p].key = k
    /\ \A x \in Positions : Between(Hash[k], x, p) => s[x].occupied /\ s[x].key # k

Offset(k, p) == IF Hash[k] <= p THEN p - Hash[k] ELSE p - Hash[k] + CAP

LEMMA OffsetProbes ==
    ASSUME NEW k \in Keys, NEW p \in Positions
    PROVE  /\ Offset(k, p) \in Positions
           /\ Probe(k, Offset(k, p)) = p
<1>1. Hash[k] \in Positions /\ CAP \in Nat \ {0}
  BY TableAssumption DEF Positions
<1>2. Offset(k, p) \in Positions
  BY <1>1 DEF Offset, Positions
<1>3. Offset(k, p) \in 0 .. CAP
  BY <1>1, <1>2 DEF Positions
<1>4. Probe(k, Offset(k, p)) = IF Hash[k] + Offset(k, p) < CAP THEN Hash[k] + Offset(k, p)
                               ELSE Hash[k] + Offset(k, p) - CAP
  BY <1>1, <1>3, WrapsOnce DEF Probe
<1> QED
  BY <1>1, <1>2, <1>4 DEF Offset, Positions

LEMMA ProbeOffsets ==
    ASSUME NEW k \in Keys, NEW i \in Positions
    PROVE  Probe(k, i) \in Positions /\ Offset(k, Probe(k, i)) = i
<1>1. Hash[k] \in Positions /\ CAP \in Nat \ {0} /\ i \in 0 .. CAP
  BY TableAssumption DEF Positions
<1>2. Probe(k, i) = IF Hash[k] + i < CAP THEN Hash[k] + i ELSE Hash[k] + i - CAP
  BY <1>1, WrapsOnce DEF Probe
<1> QED
  BY <1>1, <1>2 DEF Offset, Positions

LEMMA BetweenIsNearer ==
    ASSUME NEW k \in Keys, NEW x \in Positions, NEW p \in Positions
    PROVE  Between(Hash[k], x, p) <=> Offset(k, x) < Offset(k, p)
<1>1. Hash[k] \in Positions /\ CAP \in Nat \ {0}
  BY TableAssumption DEF Positions
<1> QED
  BY <1>1 DEF Between, Offset, Positions

LEMMA LandingLands ==
    ASSUME NEW s, NEW k \in Keys, NEW q \in Positions, ~s[q].occupied \/ s[q].key = k
    PROVE  Lands(s, k, Landing(s, k))
<1> DEFINE m == Min(Ends(s, k))
<1>1. Offset(k, q) \in Ends(s, k)
  BY OffsetProbes DEF Ends
<1>2. m \in Ends(s, k) /\ \A i \in Ends(s, k) : m <= i
  <2>1. Ends(s, k) \in SUBSET Nat
    BY DEF Ends, Positions
  <2> QED
    BY <1>1, <2>1, LeastExists
<1>3. m \in Positions /\ Landing(s, k) = Probe(k, m)
  BY <1>1, <1>2 DEF Landing, Ends
<1> HIDE DEF m
<1>4. Probe(k, m) \in Positions /\ Offset(k, Probe(k, m)) = m
  BY <1>3, ProbeOffsets
<1>5. ASSUME NEW x \in Positions, Between(Hash[k], x, Probe(k, m))
      PROVE  s[x].occupied /\ s[x].key # k
  <2>1. Offset(k, x) < m
    BY <1>4, <1>5, BetweenIsNearer
  <2>2. Offset(k, x) \in Positions /\ Probe(k, Offset(k, x)) = x
    BY OffsetProbes
  <2>3. Offset(k, x) \notin Ends(s, k)
    BY <1>2, <1>3, <2>1, <2>2 DEF Positions
  <2> QED
    BY <2>2, <2>3 DEF Ends
<1> QED
  BY <1>2, <1>3, <1>4, <1>5 DEF Lands, Ends

LEMMA LandingIsUnique ==
    ASSUME NEW s, NEW k \in Keys, NEW p, Lands(s, k, p)
    PROVE  Landing(s, k) = p
<1> DEFINE q == Landing(s, k)
<1>1. Lands(s, k, q) /\ p \in Positions
  BY LandingLands DEF Lands
<1> HIDE DEF q
<1>2. p # q => Between(Hash[k], p, q) \/ Between(Hash[k], q, p)
  <2>1. q \in Positions /\ Hash[k] \in Positions /\ CAP \in Nat
    BY <1>1, TableAssumption DEF Lands, Positions
  <2> QED
    BY <1>1, <2>1 DEF Between, Positions
<1> QED
  BY <1>1, <1>2 DEF Lands, q

\* A probe that ends nowhere has seen the table full, without k.
LEMMA NowhereIsFull ==
    ASSUME NEW s, NEW k \in Keys
    PROVE  /\ Landing(s, k) = Nowhere <=> \A q \in Positions : s[q].occupied /\ s[q].key # k
           /\ Landing(s, k) # Nowhere => Lands(s, k, Landing(s, k))
<1>1. ASSUME NEW q \in Positions, ~s[q].occupied \/ s[q].key = k
      PROVE  Landing(s, k) # Nowhere /\ Lands(s, k, Landing(s, k))
  <2>1. Lands(s, k, Landing(s, k))
    BY <1>1, LandingLands
  <2> QED
    BY <2>1, TableAssumption DEF Lands, Positions, Nowhere
<1>2. ASSUME \A q \in Positions : s[q].occupied /\ s[q].key # k
      PROVE  Landing(s, k) = Nowhere
  BY <1>2, ProbeOffsets DEF Landing, Ends
<1> QED
  BY <1>1, <1>2

-----------------------------------------------------------------------------
(* The inductive invariant.                                                *)

KeysAreReal == \A p \in Positions : slots[p].occupied => slots[p].key \in Keys

OneEntryPerKey ==
    \A p, q \in Positions :
        slots[p].occupied /\ slots[q].occupied /\ slots[p].key = slots[q].key => p = q

\* erase's loop has yet to come, without a break, to the entry at p, and is past x.
LoopWillReach(x, p) ==
    /\ next # Idle
    /\ next = p \/ (Between(x, next, p) /\ next # x)
    /\ \A y \in Positions : Between(next, y, p) => slots[y].occupied

\* A free slot between the hash of an entry and the entry is one that erase has left
\* and whose followers it is still to move.
Chained ==
    \A p, x \in Positions :
        /\ slots[p].occupied /\ ~slots[x].occupied
        /\ Between(Hash[slots[p].key], x, p)
        => LoopWillReach(x, p)

IInv == TypeOK /\ KeysAreReal /\ OneEntryPerKey /\ Chained /\ SizeIsExact

Occupied(s) == {p \in Positions : s[p].occupied}

LEMMA PositionsAreFinite ==
    /\ IsFiniteSet(Positions) /\ Cardinality(Positions) = CAP
    /\ \A s : IsFiniteSet(Occupied(s)) /\ Cardinality(Occupied(s)) \in 0 .. CAP
<1>1. IsFiniteSet(Positions) /\ Cardinality(Positions) = CAP
  BY FS_Interval, TableAssumption DEF Positions
<1>2. ASSUME NEW s
      PROVE  IsFiniteSet(Occupied(s)) /\ Cardinality(Occupied(s)) \in 0 .. CAP
  <2>1. Occupied(s) \in SUBSET Positions
    BY DEF Occupied
  <2>2. IsFiniteSet(Occupied(s)) /\ Cardinality(Occupied(s)) <= CAP
    BY <1>1, <2>1, FS_Subset
  <2> QED
    BY <2>2, FS_CardinalityType, TableAssumption
<1> QED
  BY <1>1, <1>2

\* Counting is right for a table t that is s with k put where it lands.
LEMMA InsertIsCounted ==
    ASSUME NEW s, NEW t, NEW k \in Keys, Landing(s, k) # Nowhere,
           \A p \in Positions : t[p].occupied <=> s[p].occupied \/ p = Landing(s, k)
    PROVE  Cardinality(Occupied(t)) = SizeAfterInsert(s, Cardinality(Occupied(s)), k)
<1>1. Landing(s, k) \in Positions
  BY NowhereIsFull DEF Lands
<1>2. Occupied(t) = Occupied(s) \cup {Landing(s, k)}
  BY <1>1 DEF Occupied
<1>3. Landing(s, k) \in Occupied(s) <=> Found(s, k)
  BY <1>1 DEF Occupied, Found
<1> QED
  BY <1>2, <1>3, PositionsAreFinite, FS_AddElement DEF SizeAfterInsert

LEMMA RemovalIsCounted ==
    ASSUME NEW s, NEW t, NEW q \in Positions, s[q].occupied,
           \A p \in Positions : t[p].occupied <=> s[p].occupied /\ p # q
    PROVE  Cardinality(Occupied(t)) = Cardinality(Occupied(s)) - 1
<1>1. Occupied(t) = Occupied(s) \ {q} /\ q \in Occupied(s)
  BY DEF Occupied
<1> QED
  BY <1>1, PositionsAreFinite, FS_RemoveElement

\* Between operations an entry is where the probe for its key ends.
LEMMA EntryIsLanding ==
    ASSUME IInv, next = Idle, NEW k \in Keys, NEW q \in Positions,
           slots[q].occupied, slots[q].key = k
    PROVE  Lands(slots, k, q) /\ Landing(slots, k) = q
<1>1. Lands(slots, k, q)
  <2>1. ASSUME NEW x \in Positions, Between(Hash[k], x, q)
        PROVE  slots[x].occupied /\ slots[x].key # k
    <3>1. x # q
      BY <2>1, TableAssumption DEF Between, Positions
    <3>2. slots[x].occupied
      BY <2>1 DEF IInv, Chained, LoopWillReach
    <3> QED
      BY <3>1, <3>2 DEF IInv, OneEntryPerKey
  <2> QED
    BY <2>1 DEF Lands
<1> QED
  BY <1>1, LandingIsUnique

-----------------------------------------------------------------------------
(* The steps.                                                              *)

LEMMA Initially == Init => IInv
<1> SUFFICES ASSUME Init PROVE IInv
  OBVIOUS
<1>1. Occupied(slots) = {}
  BY DEF Init, Occupied, EmptySlot
<1>2. SizeIsExact
  BY <1>1, FS_EmptySet DEF Init, SizeIsExact, Occupied
<1>3. TypeOK
  BY TableAssumption DEF Init, TypeOK, Slots, EmptySlot, Positions, Idle
<1> QED
  BY <1>2, <1>3
     DEF Init, IInv, KeysAreReal, OneEntryPerKey, Chained, EmptySlot

LEMMA WriteStep ==
    ASSUME IInv, NEW k \in Keys, NEW adding \in BOOLEAN, WriteThrough(k, adding)
    PROVE  IInv'
<1> DEFINE p == Landing(slots, k)
           old == IF p = Nowhere THEN dummy ELSE slots[p].value
           new == Stored(k, old, adding)
<1>1. next = Idle /\ next' = Idle /\ new <= MaxValue
  BY DEF WriteThrough, Idle
<1>2. p # Nowhere => p \in Positions
  BY NowhereIsFull DEF Lands
<1>3. new \in 0 .. MaxValue
  <2>1. old \in Nat
    BY <1>2, TableAssumption DEF IInv, TypeOK, Slots
  <2> QED
    BY <1>1, <2>1, TableAssumption DEF Stored
<1> HIDE DEF new
<1>4. CASE p = Nowhere
  <2>1. slots' = slots /\ size' = size /\ dummy' = new
    BY <1>4 DEF WriteThrough, new
  <2> QED
    BY <1>1, <1>3, <2>1 DEF IInv, TypeOK, KeysAreReal, OneEntryPerKey, Chained, LoopWillReach,
                            SizeIsExact
<1>5. CASE p # Nowhere
  <2>1. /\ slots' = [slots EXCEPT ![p] = [key |-> k, value |-> new, occupied |-> TRUE]]
        /\ size' = SizeAfterInsert(slots, size, k) /\ dummy' = dummy
    <3>1. slots' = [Inserted(slots, k) EXCEPT ![p].value = new]
      BY <1>5 DEF WriteThrough, new
    <3>2. slots[p] \in Slots /\ slots \in [Positions -> Slots]
      BY <1>2, <1>5 DEF IInv, TypeOK
    <3> QED
      BY <1>2, <1>5, <3>1, <3>2 DEF WriteThrough, Inserted, Slots
  <2>2. Lands(slots, k, p) /\ p \in Positions
    BY <1>5, NowhereIsFull DEF Lands
  <2>3. SizeIsExact' /\ size' \in 0 .. CAP
    <3>1. \A q \in Positions : slots'[q].occupied <=> slots[q].occupied \/ q = p
      BY <2>1, <2>2 DEF IInv, TypeOK
    <3>2. Cardinality(Occupied(slots')) = SizeAfterInsert(slots, Cardinality(Occupied(slots)), k)
      BY <1>5, <3>1, InsertIsCounted
    <3> QED
      BY <2>1, <3>2, PositionsAreFinite DEF IInv, SizeIsExact, Occupied
  <2>4. TypeOK'
    BY <1>1, <1>3, <2>1, <2>2, <2>3 DEF IInv, TypeOK, Slots
  <2>5. \A q \in Positions : slots[q].occupied /\ slots[q].key = k => q = p
    BY <1>1, EntryIsLanding
  <2>6. KeysAreReal' /\ OneEntryPerKey'
    BY <2>1, <2>2, <2>5 DEF IInv, TypeOK, KeysAreReal, OneEntryPerKey
  <2>7. Chained'
    <3> SUFFICES ASSUME NEW q \in Positions, NEW x \in Positions,
                        slots'[q].occupied, ~slots'[x].occupied,
                        Between(Hash[slots'[q].key], x, q)
                 PROVE  FALSE
      BY DEF Chained
    <3>1. ~slots[x].occupied /\ x # p
      BY <2>1, <2>2 DEF IInv, TypeOK
    <3>2. CASE q = p
      BY <2>1, <2>2, <3>1, <3>2 DEF IInv, TypeOK, Lands
    <3>3. CASE q # p
      BY <1>1, <2>1, <3>1, <3>3 DEF IInv, TypeOK, Chained, LoopWillReach
    <3> QED
      BY <3>2, <3>3
  <2> QED
    BY <2>3, <2>4, <2>6, <2>7 DEF IInv
<1> QED
  BY <1>4, <1>5

LEMMA EraseStep ==
    ASSUME IInv, NEW k \in Keys, Erase(k)
    PROVE  IInv'
<1> DEFINE h == Landing(slots, k)
<1>1. /\ next = Idle /\ h \in Positions /\ slots[h].occupied /\ slots[h].key = k
      /\ slots' = [slots EXCEPT ![h] = EmptySlot] /\ size' = size - 1
      /\ next' = After(h) /\ next' \in Positions /\ dummy' = dummy
  BY NowhereIsFull, NextPosition DEF Erase, Found, Lands
<1> HIDE DEF h
<1>2. slots' \in [Positions -> Slots]
  BY <1>1, TableAssumption DEF IInv, TypeOK, Slots, EmptySlot
<1>3. \A p \in Positions : slots'[p].occupied <=> slots[p].occupied /\ p # h
  BY <1>1 DEF IInv, TypeOK, EmptySlot
<1>4. SizeIsExact' /\ size' \in 0 .. CAP
  <2>1. Cardinality(Occupied(slots')) = Cardinality(Occupied(slots)) - 1
    BY <1>1, <1>3, RemovalIsCounted
  <2> QED
    BY <1>1, <2>1, PositionsAreFinite DEF IInv, SizeIsExact, Occupied
<1>5. TypeOK'
  BY <1>1, <1>2, <1>4 DEF IInv, TypeOK
<1>6. \A p \in Positions : p # h => slots'[p] = slots[p]
  BY <1>1 DEF IInv, TypeOK
<1>7. KeysAreReal' /\ OneEntryPerKey'
  BY <1>3, <1>6 DEF IInv, KeysAreReal, OneEntryPerKey
<1>8. Chained'
  <2> SUFFICES ASSUME NEW p \in Positions, NEW x \in Positions,
                      slots'[p].occupied, ~slots'[x].occupied,
                      Between(Hash[slots'[p].key], x, p)
               PROVE  LoopWillReach(x, p)'
    BY DEF Chained
  <2>1. slots[p].occupied /\ p # h /\ slots'[p] = slots[p] /\ Hash[slots[p].key] \in Positions
    BY <1>3, <1>6, TableAssumption DEF IInv, KeysAreReal, Positions
  <2>2. \A y \in Positions : Between(Hash[slots[p].key], y, p) => slots[y].occupied
    BY <1>1, <2>1 DEF IInv, Chained, LoopWillReach
  <2>3. x = h
    BY <1>3, <2>1, <2>2
  <2>4. next' = p \/ (Between(x, next', p) /\ next' # x)
    BY <1>1, <2>1, <2>3, TableAssumption DEF After, Between, Positions
  <2>5. ASSUME NEW y \in Positions, Between(next', y, p)
        PROVE  slots'[y].occupied
    <3>1. Between(Hash[slots[p].key], y, p) /\ y # h
      BY <1>1, <2>1, <2>3, <2>5, TableAssumption DEF After, Between, Positions
    <3> QED
      BY <1>3, <2>2, <3>1
  <2>6. next' # Idle
    BY <1>1, TableAssumption DEF Positions, Idle
  <2> QED
    BY <2>4, <2>5, <2>6 DEF LoopWillReach, Idle
<1> QED
  BY <1>4, <1>5, <1>7, <1>8 DEF IInv

LEMMA ValueReplaced ==
    ASSUME NEW r \in Slots, NEW v
    PROVE  [r EXCEPT !.value = v] = [key |-> r.key, value |-> v, occupied |-> r.occupied]
BY DEF Slots

\* What one turn of the loop does to the slots: the entry at n goes to the first free
\* slot it comes to, which may be n.
LEMMA ReinsertMoves ==
    ASSUME IInv, Reinsert
    PROVE  \E n, l \in Positions :
               LET e == slots[n]
                   rest == [slots EXCEPT ![n].key = NoKey, ![n].occupied = FALSE]
               IN  /\ n = next /\ next' = After(n) /\ e.occupied /\ e.key \in Keys
                   /\ dummy' = dummy
                   /\ rest \in [Positions -> Slots]
                   /\ Landing(rest, e.key) = l /\ Lands(rest, e.key, l) /\ ~rest[l].occupied
                   /\ slots' = [rest EXCEPT ![l] = e]
                   /\ size' = SizeAfterInsert(rest, size - 1, e.key)
<1> DEFINE n == next
           e == slots[n]
           rest == [slots EXCEPT ![n].key = NoKey, ![n].occupied = FALSE]
           l == Landing(rest, e.key)
<1>1. n \in Positions /\ e.occupied /\ e.key \in Keys /\ e \in Slots
  BY DEF Reinsert, IInv, TypeOK, KeysAreReal
<1>2. /\ rest \in [Positions -> Slots]
      /\ ~rest[n].occupied
      /\ \A q \in Positions : q # n => rest[q] = slots[q]
  BY <1>1 DEF IInv, TypeOK, Slots
<1>3. Lands(rest, e.key, l) /\ l \in Positions
  <2>1. Lands(rest, e.key, l)
    BY <1>1, <1>2, LandingLands
  <2> QED
    BY <2>1 DEF Lands
<1>4. ~rest[l].occupied
  BY <1>1, <1>2, <1>3 DEF Lands, IInv, OneEntryPerKey
<1>5. slots' = [rest EXCEPT ![l] = e]
  <2>1. slots' = [Inserted(rest, e.key) EXCEPT ![l].value = e.value] /\ l = Landing(rest, e.key)
    BY DEF Reinsert
  <2>2. rest \in [Positions -> Slots] /\ l \in Positions /\ e \in Slots /\ e.occupied
    BY <1>1, <1>2, <1>3
  <2> HIDE DEF n, e, rest, l
  <2>3. Inserted(rest, e.key) = [rest EXCEPT ![l].key = e.key, ![l].occupied = TRUE]
    BY <2>1 DEF Inserted
  <2>4. e = [key |-> e.key, value |-> e.value, occupied |-> TRUE]
    BY <2>2 DEF Slots
  <2>5. slots' = [rest EXCEPT ![l] = [key |-> e.key, value |-> e.value, occupied |-> TRUE]]
    <3>1. rest[l] = [key |-> rest[l].key, value |-> rest[l].value, occupied |-> rest[l].occupied]
      BY <2>2 DEF Slots
    <3>2. Inserted(rest, e.key) =
              [rest EXCEPT ![l] = [key |-> e.key, value |-> rest[l].value, occupied |-> TRUE]]
      BY <2>2, <2>3, <3>1
    <3>3. slots' = [Inserted(rest, e.key) EXCEPT
                       ![l] = [Inserted(rest, e.key)[l] EXCEPT !.value = e.value]]
      BY <2>1
    <3>4. [Inserted(rest, e.key)[l] EXCEPT !.value = e.value]
              = [key |-> e.key, value |-> e.value, occupied |-> TRUE]
      <4>1. Inserted(rest, e.key)[l] = [key |-> e.key, value |-> rest[l].value, occupied |-> TRUE]
        BY <2>2, <3>2
      <4>2. Inserted(rest, e.key)[l] \in Slots
        BY <2>2, <4>1 DEF Slots
      <4> QED
        <5>1. /\ Inserted(rest, e.key)[l].key = e.key
              /\ Inserted(rest, e.key)[l].occupied = TRUE
          BY <4>1
        <5> QED
          BY <4>2, <5>1, ValueReplaced
    <3> QED
      BY <2>2, <3>2, <3>3, <3>4
  <2> QED
    BY <2>4, <2>5
<1>6. next' = After(n) /\ dummy' = dummy /\ size' = SizeAfterInsert(rest, size - 1, e.key)
  BY <1>1, NextPosition DEF Reinsert
<1> QED
  BY <1>1, <1>2, <1>3, <1>4, <1>5, <1>6

LEMMA ReinsertStep ==
    ASSUME IInv, Reinsert
    PROVE  IInv'
<1>0. PICK n, l \in Positions :
          LET e == slots[n]
              rest == [slots EXCEPT ![n].key = NoKey, ![n].occupied = FALSE]
          IN  /\ n = next /\ next' = After(n) /\ e.occupied /\ e.key \in Keys
              /\ dummy' = dummy
              /\ rest \in [Positions -> Slots]
              /\ Landing(rest, e.key) = l /\ Lands(rest, e.key, l) /\ ~rest[l].occupied
              /\ slots' = [rest EXCEPT ![l] = e]
              /\ size' = SizeAfterInsert(rest, size - 1, e.key)
  BY ReinsertMoves
<1> DEFINE e == slots[n]
           rest == [slots EXCEPT ![n].key = NoKey, ![n].occupied = FALSE]
<1>1. /\ n = next /\ next' = After(n) /\ e.occupied /\ e.key \in Keys /\ dummy' = dummy
      /\ rest \in [Positions -> Slots]
      /\ Landing(rest, e.key) = l /\ Lands(rest, e.key, l) /\ ~rest[l].occupied
      /\ slots' = [rest EXCEPT ![l] = e]
      /\ size' = SizeAfterInsert(rest, size - 1, e.key)
  BY <1>0
<1>2. /\ \A q \in Positions : q # n => rest[q] = slots[q]
      /\ ~rest[n].occupied /\ e \in Slots
  BY DEF IInv, TypeOK, Slots
<1> HIDE DEF rest, e
<1>3. \A q \in Positions : slots'[q] = IF q = l THEN e ELSE rest[q]
  BY <1>1
<1>4. SizeIsExact' /\ size' \in 0 .. CAP
  <2>1. Cardinality(Occupied(rest)) = Cardinality(Occupied(slots)) - 1
    BY <1>1, <1>2, RemovalIsCounted DEF e
  <2>2. Cardinality(Occupied(slots')) = SizeAfterInsert(rest, Cardinality(Occupied(rest)), e.key)
    <3>1. Landing(rest, e.key) # Nowhere
      BY <1>1, TableAssumption DEF Positions, Nowhere
    <3>2. \A q \in Positions : slots'[q].occupied <=> rest[q].occupied \/ q = Landing(rest, e.key)
      BY <1>1, <1>3
    <3> QED
      BY <1>1, <3>1, <3>2, InsertIsCounted
  <2>3. size = Cardinality(Occupied(slots))
    BY DEF IInv, SizeIsExact, Occupied
  <2>4. size' = Cardinality(Occupied(slots'))
    BY <1>1, <2>1, <2>2, <2>3
  <2> QED
    BY <2>4, PositionsAreFinite DEF SizeIsExact, Occupied
<1>5. TypeOK'
  BY <1>1, <1>2, <1>4, NextPosition DEF IInv, TypeOK
<1>6. KeysAreReal'
  BY <1>1, <1>2, <1>3 DEF IInv, KeysAreReal
<1>7. OneEntryPerKey'
  <2>1. \A q \in Positions : rest[q].occupied => rest[q] = slots[q] /\ q # n
    BY <1>2
  <2>2. \A q \in Positions : rest[q].occupied => rest[q].key # e.key
    BY <1>1, <2>1 DEF IInv, OneEntryPerKey, e
  <2> QED
    BY <1>3, <2>1, <2>2 DEF IInv, OneEntryPerKey
<1>8. Chained'
  <2> SUFFICES ASSUME NEW p \in Positions, NEW x \in Positions,
                      slots'[p].occupied, ~slots'[x].occupied,
                      Between(Hash[slots'[p].key], x, p)
               PROVE  LoopWillReach(x, p)'
    BY DEF Chained
  <2>1. p # l
    BY <1>1, <1>3 DEF Lands
  <2>2. /\ p # n /\ slots[p].occupied /\ slots'[p] = slots[p]
        /\ Hash[slots[p].key] \in Positions
    BY <1>1, <1>2, <1>3, <2>1, TableAssumption DEF IInv, KeysAreReal, Positions
  <2>3. \A y \in Positions : y # n /\ slots[y].occupied => slots'[y].occupied
    BY <1>1, <1>2, <1>3
  <2>4. next' \in Positions /\ next' # Idle
    BY <1>1, NextPosition, TableAssumption, SMTT(20) DEF Positions, Idle
  \* Every slot from n to p is taken before the turn.
  <2>5. ASSUME NEW y \in Positions, Between(n, y, p)
        PROVE  slots[y].occupied
    <3>1. CASE x = n
      <4>1. SUFFICES ASSUME ~slots[y].occupied PROVE FALSE
        OBVIOUS
      <4>2. y # n /\ Between(Hash[slots[p].key], y, p)
        BY <1>1, <2>2, <2>5, <3>1, <4>1, TableAssumption DEF Between, Positions, e
      <4>3. LoopWillReach(y, p)
        BY <2>2, <4>1, <4>2 DEF IInv, Chained
      <4> QED
        BY <1>1, <2>2, <2>5, <4>2, <4>3, TableAssumption DEF LoopWillReach, Between, Positions
    <3>2. CASE x # n
      <4>1. ~slots[x].occupied
        BY <2>3, <3>2
      <4>2. LoopWillReach(x, p)
        BY <2>2, <4>1 DEF IInv, Chained
      <4> QED
        BY <1>1, <2>5, <4>2 DEF LoopWillReach
    <3> QED
      BY <3>1, <3>2
  <2>6. next' = p \/ (Between(x, next', p) /\ next' # x)
    <3>1. CASE x = n
      BY <1>1, <2>2, <3>1, TableAssumption DEF After, Between, Positions
    <3>2. CASE x # n
      <4>1. ~slots[x].occupied
        BY <2>3, <3>2
      <4>2. Between(x, n, p) /\ n # x
        BY <1>1, <2>2, <3>2, <4>1 DEF IInv, Chained, LoopWillReach
      <4> QED
        BY <1>1, <2>2, <4>2, TableAssumption DEF After, Between, Positions
    <3> QED
      BY <3>1, <3>2
  <2>7. ASSUME NEW y \in Positions, Between(next', y, p)
        PROVE  slots'[y].occupied
    <3>1. Between(n, y, p) /\ y # n
      BY <1>1, <2>2, <2>7, TableAssumption DEF After, Between, Positions
    <3> QED
      BY <2>3, <2>5, <3>1
  <2> QED
    BY <2>4, <2>6, <2>7 DEF LoopWillReach, Idle
<1> QED
  BY <1>4, <1>5, <1>6, <1>7, <1>8 DEF IInv

\* The loop stops at a free slot, so it has nothing left to reach.
LEMMA ReturnStep ==
    ASSUME IInv, EraseReturns
    PROVE  IInv'
<1>1. next \in Positions /\ ~slots[next].occupied
  BY DEF EraseReturns, IInv, TypeOK
<1>2. \A p, x \in Positions : slots[p].occupied => ~LoopWillReach(x, p)
  <2> SUFFICES ASSUME NEW p \in Positions, NEW x \in Positions, slots[p].occupied,
                      LoopWillReach(x, p)
               PROVE  FALSE
    OBVIOUS
  <2>1. next # p => Between(next, next, p)
    BY <1>1, TableAssumption DEF LoopWillReach, Between, Positions
  <2> QED
    BY <1>1, <2>1 DEF LoopWillReach
<1>3. slots' = slots /\ size' = size /\ dummy' = dummy /\ next' = Idle
  BY DEF EraseReturns
<1>4. Chained'
  BY <1>2, <1>3 DEF IInv, Chained
<1> QED
  BY <1>3, <1>4 DEF IInv, TypeOK, KeysAreReal, OneEntryPerKey, SizeIsExact

LEMMA ClearStep ==
    ASSUME IInv, Clear
    PROVE  IInv'
<1>1. Occupied(slots') = {}
  BY DEF Clear, Occupied, EmptySlot
<1>2. SizeIsExact'
  BY <1>1, FS_EmptySet DEF Clear, SizeIsExact, Occupied
<1>3. TypeOK'
  BY TableAssumption DEF Clear, IInv, TypeOK, Slots, EmptySlot, Positions
<1> QED
  BY <1>2, <1>3 DEF Clear, IInv, KeysAreReal, OneEntryPerKey, Chained, EmptySlot

LEMMA StepKeepsInv == IInv /\ [Next]_vars => IInv'
<1> SUFFICES ASSUME IInv, [Next]_vars PROVE IInv'
  OBVIOUS
<1>1. CASE UNCHANGED vars
  BY <1>1 DEF vars, IInv, TypeOK, KeysAreReal, OneEntryPerKey, Chained, LoopWillReach, SizeIsExact
<1>2. ASSUME NEW k \in Keys, Add(k) \/ Assign(k) \/ Erase(k) PROVE IInv'
  BY <1>2, WriteStep, EraseStep DEF Add, Assign
<1>3. CASE EraseLoop
  BY <1>3, ReinsertStep, ReturnStep DEF EraseLoop
<1>4. CASE Clear
  BY <1>4, ClearStep
<1> QED
  BY <1>1, <1>2, <1>3, <1>4 DEF Next

THEOREM Invariance == Spec => []IInv
<1>1. Init => IInv
  BY Initially
<1>2. IInv /\ [Next]_vars => IInv'
  BY StepKeepsInv
<1> QED
  BY <1>1, <1>2, PTL DEF Spec

\* The table is well typed; in particular there are never more than CAP entries.
THEOREM TypeCorrect == Spec => []TypeOK
<1>1. IInv => TypeOK
  BY DEF IInv
<1> QED
  BY <1>1, Invariance, PTL

\* The counter is the number of occupied slots.
THEOREM CounterIsExact == Spec => []SizeIsExact
<1>1. IInv => SizeIsExact
  BY DEF IInv
<1> QED
  BY <1>1, Invariance, PTL

\* Between operations the probe for a stored key ends at its one entry.
THEOREM EntriesAreFound == Spec => []EveryEntryIsFound
<1>1. IInv => EveryEntryIsFound
  <2> SUFFICES ASSUME IInv, next = Idle, NEW k \in Keys, NEW q \in Holders(k)
               PROVE  Holders(k) = {Landing(slots, k)}
    BY DEF EveryEntryIsFound
  <2>1. \A p \in Holders(k) : p = Landing(slots, k)
    BY EntryIsLanding DEF Holders
  <2> QED
    BY <2>1
<1> QED
  BY <1>1, Invariance, PTL

-----------------------------------------------------------------------------
(* The table is a map.                                                     *)

HoldersIn(s, k) == {p \in Positions : s[p].occupied /\ s[p].key = k}

EntryIn(s, k) ==
    IF HoldersIn(s, k) = {} THEN Absent ELSE s[CHOOSE p \in HoldersIn(s, k) : TRUE].value

LEMMA EntriesOfTheTable ==
    \A k : Entry(k) = EntryIn(slots, k) /\ Entry(k)' = EntryIn(slots', k)
BY DEF Entry, Holders, EntryIn, HoldersIn, Positions, Absent

LEMMA SoleHolderIsEntry ==
    ASSUME NEW s, NEW p \in Positions, s[p].occupied,
           \A q \in Positions : s[q].occupied /\ s[q].key = s[p].key => q = p
    PROVE  EntryIn(s, s[p].key) = s[p].value
<1>1. HoldersIn(s, s[p].key) = {p}
  BY DEF HoldersIn
<1> QED
  BY <1>1 DEF EntryIn

\* Two tables, with one entry per key, that hold the same under k.
LEMMA SameEntry ==
    ASSUME NEW s, NEW t, NEW k,
           \A p, q \in Positions : s[p].occupied /\ s[q].occupied /\ s[p].key = k /\ s[q].key = k => p = q,
           \A p, q \in Positions : t[p].occupied /\ t[q].occupied /\ t[p].key = k /\ t[q].key = k => p = q,
           \A p \in Positions : s[p].occupied /\ s[p].key = k =>
               \E q \in Positions : t[q].occupied /\ t[q].key = k /\ t[q].value = s[p].value,
           \A q \in Positions : t[q].occupied /\ t[q].key = k =>
               \E p \in Positions : s[p].occupied /\ s[p].key = k
    PROVE  EntryIn(t, k) = EntryIn(s, k)
<1>1. CASE HoldersIn(s, k) = {}
  <2>1. HoldersIn(t, k) = {}
    BY <1>1 DEF HoldersIn
  <2> QED
    BY <1>1, <2>1 DEF EntryIn
<1>2. CASE HoldersIn(s, k) # {}
  <2>1. PICK p \in Positions : s[p].occupied /\ s[p].key = k
    BY <1>2 DEF HoldersIn
  <2>2. PICK q \in Positions : t[q].occupied /\ t[q].key = k /\ t[q].value = s[p].value
    BY <2>1
  <2>3. EntryIn(s, k) = s[p].value
    BY <2>1, SoleHolderIsEntry
  <2>4. EntryIn(t, k) = t[q].value
    BY <2>2, SoleHolderIsEntry
  <2> QED
    BY <2>2, <2>3, <2>4
<1> QED
  BY <1>1, <1>2

\* Whoever has an entry has it in a slot.
LEMMA PresentIsOccupied ==
    ASSUME IInv
    PROVE  /\ \A k \in Keys : Entry(k) # Absent <=> \E p \in Positions : slots[p].occupied /\ slots[p].key = k
           /\ IsFiniteSet({k \in Keys : Entry(k) # Absent})
           /\ Cardinality({k \in Keys : Entry(k) # Absent}) <= size
<1>1. \A k \in Keys : Entry(k) # Absent <=> \E p \in Positions : slots[p].occupied /\ slots[p].key = k
  <2> SUFFICES ASSUME NEW k \in Keys
               PROVE  Entry(k) # Absent <=> \E p \in Positions : slots[p].occupied /\ slots[p].key = k
    OBVIOUS
  <2>1. ASSUME NEW p \in Positions, slots[p].occupied, slots[p].key = k PROVE Entry(k) # Absent
    <3>1. Entry(k) = slots[p].value
      BY <2>1, SoleHolderIsEntry, EntriesOfTheTable DEF IInv, OneEntryPerKey
    <3>2. slots[p].value \in Nat
      BY TableAssumption DEF IInv, TypeOK, Slots
    <3> QED
      BY <3>1, <3>2 DEF Absent
  <2>2. ASSUME \A p \in Positions : ~(slots[p].occupied /\ slots[p].key = k) PROVE Entry(k) = Absent
    BY <2>2 DEF Entry, Holders
  <2> QED
    BY <2>1, <2>2
<1> DEFINE P == {k \in Keys : Entry(k) # Absent}
<1>2. P = {slots[p].key : p \in Occupied(slots)}
  BY <1>1 DEF Occupied, IInv, KeysAreReal
<1>3. IsFiniteSet(P) /\ Cardinality(P) <= Cardinality(Occupied(slots))
  <2>1. IsFiniteSet(Occupied(slots))
    BY PositionsAreFinite
  <2> DEFINE f == [p \in Occupied(slots) |-> slots[p].key]
  <2>2. f \in Surjection(Occupied(slots), P)
    BY <1>2 DEF Surjection
  <2> QED
    BY <2>1, <2>2, FS_Surjection
<1> QED
  BY <1>1, <1>3 DEF IInv, SizeIsExact, Occupied

\* A table with one entry per key whose slots differ from another's only in what is
\* under k, and how an operation on k shows in the store.
StoreOf(s) == [j \in Keys |-> EntryIn(s, j)]

LEMMA StoreIsStoreOf ==
    /\ [j \in Keys |-> Entry(j)] = StoreOf(slots)
    /\ [j \in Keys |-> Entry(j)]' = StoreOf(slots')
BY EntriesOfTheTable DEF StoreOf

LEMMA CardinalityOfTheStore == \A S : Store!Cardinality(S) = Cardinality(S)
BY DEF Store!Cardinality, Cardinality

LEMMA InitImplementsStore == Init => Store!Init
<1> SUFFICES ASSUME Init PROVE Store!Init
  OBVIOUS
<1>1. \A k \in Keys : Entry(k) = Absent
  BY DEF Init, Entry, Holders, EmptySlot
<1> QED
  BY <1>1 DEF Init, Store!Init

LEMMA WriteImplementsStore ==
    ASSUME IInv, IInv', NEW k \in Keys, NEW adding \in BOOLEAN, WriteThrough(k, adding)
    PROVE  [Store!Next]_(Store!storeVars)
<1> DEFINE p == Landing(slots, k)
           old == IF p = Nowhere THEN dummy ELSE slots[p].value
           new == Stored(k, old, adding)
<1>1. next = Idle /\ next' = Idle
  BY DEF WriteThrough
<1>2. CASE p = Nowhere
  <2>1. slots' = slots
    BY <1>2 DEF WriteThrough
  <2> QED
    BY <1>1, <2>1, StoreIsStoreOf DEF Store!storeVars
<1>3. CASE p # Nowhere
  <2>1. Lands(slots, k, p) /\ p \in Positions
    BY <1>3, NowhereIsFull DEF Lands
  <2>2. slots' = [Inserted(slots, k) EXCEPT ![p].value = new]
    BY <1>3 DEF WriteThrough
  <2>3. /\ slots'[p].key = k /\ slots'[p].value = new /\ slots'[p].occupied
        /\ \A q \in Positions : q # p => slots'[q] = slots[q]
    BY <2>1, <2>2 DEF Inserted, IInv, TypeOK, Slots
  <2> HIDE DEF new
  <2>4. EntryIn(slots', k) = new
    BY <2>1, <2>3, SoleHolderIsEntry DEF IInv, OneEntryPerKey
  <2>5. \A q \in Positions : slots[q].occupied /\ slots[q].key = k => q = p
    BY <1>1, EntryIsLanding
  <2>6. ASSUME NEW j \in Keys, j # k PROVE EntryIn(slots', j) = EntryIn(slots, j)
    <3>1. \A q \in Positions : slots[q].occupied /\ slots[q].key = j =>
              q # p /\ slots'[q] = slots[q]
      BY <2>1, <2>3, <2>6 DEF Lands
    <3>2. \A q \in Positions : slots'[q].occupied /\ slots'[q].key = j =>
              q # p /\ slots'[q] = slots[q]
      BY <2>3, <2>6
    <3> QED
      BY <3>1, <3>2, SameEntry DEF IInv, OneEntryPerKey
  <2>7. StoreOf(slots') = [StoreOf(slots) EXCEPT ![k] = new]
    BY <2>4, <2>6 DEF StoreOf
  <2>8. new \in 0 .. MaxValue
    BY <2>1, <2>3 DEF IInv, TypeOK, Slots
  <2>9. Entry(k) # Absent \/ Cardinality({j \in Keys : Entry(j) # Absent}) < CAP
    <3>1. CASE slots[p].occupied
      BY <2>1, <3>1, PresentIsOccupied DEF Lands
    <3>2. CASE ~slots[p].occupied
      <4>1. Occupied(slots) # Positions /\ Occupied(slots) \in SUBSET Positions
        BY <2>1, <3>2 DEF Occupied
      <4>2. Cardinality(Occupied(slots)) <= CAP /\ Cardinality(Occupied(slots)) # CAP
        BY <4>1, PositionsAreFinite, FS_Subset
      <4>3. Cardinality(Occupied(slots)) \in Nat /\ CAP \in Nat
        BY PositionsAreFinite, TableAssumption
      <4>4. Cardinality({j \in Keys : Entry(j) # Absent}) \in Nat
        BY PresentIsOccupied, FS_CardinalityType
      <4> QED
        BY <4>2, <4>3, <4>4, PresentIsOccupied DEF IInv, SizeIsExact, Occupied
    <3> QED
      BY <3>1, <3>2
  <2>10. Store!Write(k, new)
    <3>1. k \in Store!Present \/ Store!Cardinality(Store!Present) < CAP
      BY <2>9, CardinalityOfTheStore DEF Store!Present
    <3>2. [j \in Keys |-> Entry(j)]' = [[j \in Keys |-> Entry(j)] EXCEPT ![k] = new]
      BY <2>7, StoreIsStoreOf
    <3>3. ~(next # Idle) /\ (next # Idle)' = (next # Idle)
      BY <1>1 DEF Idle
    <3> QED
      BY <3>1, <3>2, <3>3 DEF Store!Write
  <2> QED
    BY <2>8, <2>10 DEF Store!Next
<1> QED
  BY <1>2, <1>3

LEMMA EraseImplementsStore ==
    ASSUME IInv, IInv', NEW k \in Keys, Erase(k)
    PROVE  Store!Next
<1> DEFINE h == Landing(slots, k)
<1>1. /\ next = Idle /\ h \in Positions /\ slots[h].occupied /\ slots[h].key = k
      /\ slots' = [slots EXCEPT ![h] = EmptySlot] /\ next' \in Positions
  BY NowhereIsFull, NextPosition DEF Erase, Found, Lands
<1> HIDE DEF h
<1>2. ~slots'[h].occupied /\ \A q \in Positions : q # h => slots'[q] = slots[q]
  BY <1>1 DEF IInv, TypeOK, EmptySlot
<1>3. EntryIn(slots', k) = Absent
  <2>1. HoldersIn(slots', k) = {}
    BY <1>1, <1>2 DEF HoldersIn, IInv, OneEntryPerKey
  <2> QED
    BY <2>1 DEF EntryIn
<1>4. ASSUME NEW j \in Keys, j # k PROVE EntryIn(slots', j) = EntryIn(slots, j)
  <2>1. \A q \in Positions : slots[q].occupied /\ slots[q].key = j => slots'[q] = slots[q]
    BY <1>1, <1>2, <1>4
  <2>2. \A q \in Positions : slots'[q].occupied /\ slots'[q].key = j => slots'[q] = slots[q]
    BY <1>1, <1>2, <1>4
  <2> QED
    BY <2>1, <2>2, SameEntry DEF IInv, OneEntryPerKey
<1>5. StoreOf(slots') = [StoreOf(slots) EXCEPT ![k] = Absent]
  BY <1>3, <1>4 DEF StoreOf
<1>6. [j \in Keys |-> Entry(j)]' = [[j \in Keys |-> Entry(j)] EXCEPT ![k] = Absent]
  BY <1>5, StoreIsStoreOf
<1>7. k \in Store!Present
  BY <1>1, PresentIsOccupied DEF Store!Present
<1>8. ~(next # Idle) /\ (next # Idle)'
  BY <1>1, TableAssumption DEF Idle, Positions
<1>9. Store!Erase(k)
  BY <1>6, <1>7, <1>8 DEF Store!Erase
<1> QED
  BY <1>9 DEF Store!Next

\* The moves of an erase do not show.
LEMMA ReinsertImplementsStore ==
    ASSUME IInv, IInv', Reinsert
    PROVE  UNCHANGED Store!storeVars
<1>0. PICK n, l \in Positions :
          LET e == slots[n]
              rest == [slots EXCEPT ![n].key = NoKey, ![n].occupied = FALSE]
          IN  /\ n = next /\ next' = After(n) /\ e.occupied /\ e.key \in Keys
              /\ dummy' = dummy
              /\ rest \in [Positions -> Slots]
              /\ Landing(rest, e.key) = l /\ Lands(rest, e.key, l) /\ ~rest[l].occupied
              /\ slots' = [rest EXCEPT ![l] = e]
              /\ size' = SizeAfterInsert(rest, size - 1, e.key)
  BY ReinsertMoves
<1>1. /\ next = n /\ next' \in Positions
      /\ slots[n].occupied /\ slots'[l] = slots[n]
      /\ l # n => ~slots[l].occupied /\ ~slots'[n].occupied
      /\ \A q \in Positions : q # n /\ q # l => slots'[q] = slots[q]
  BY <1>0, NextPosition DEF IInv, TypeOK, Slots
<1>2. ASSUME NEW j \in Keys PROVE EntryIn(slots', j) = EntryIn(slots, j)
  <2>1. ASSUME NEW p \in Positions, slots[p].occupied, slots[p].key = j
        PROVE  \E q \in Positions :
                   slots'[q].occupied /\ slots'[q].key = j /\ slots'[q].value = slots[p].value
    BY <1>1, <2>1
  <2>2. ASSUME NEW q \in Positions, slots'[q].occupied, slots'[q].key = j
        PROVE  \E p \in Positions : slots[p].occupied /\ slots[p].key = j
    BY <1>1, <2>2
  <2> QED
    BY <2>1, <2>2, SameEntry DEF IInv, OneEntryPerKey
<1>3. [j \in Keys |-> Entry(j)]' = [j \in Keys |-> Entry(j)]
  BY <1>2, StoreIsStoreOf DEF StoreOf
<1>4. (next # Idle)' = (next # Idle)
  BY <1>1, TableAssumption DEF Idle, Positions
<1> QED
  BY <1>3, <1>4 DEF Store!storeVars

LEMMA StepImplementsStore ==
    IInv /\ IInv' /\ [Next]_vars => [Store!Next]_(Store!storeVars)
<1> SUFFICES ASSUME IInv, IInv', [Next]_vars PROVE [Store!Next]_(Store!storeVars)
  OBVIOUS
<1>1. CASE UNCHANGED vars
  BY <1>1, StoreIsStoreOf DEF vars, Store!storeVars
<1>2. ASSUME NEW k \in Keys, Add(k) \/ Assign(k) PROVE [Store!Next]_(Store!storeVars)
  BY <1>2, WriteImplementsStore DEF Add, Assign
<1>3. ASSUME NEW k \in Keys, Erase(k) PROVE Store!Next
  BY <1>3, EraseImplementsStore
<1>4. CASE Reinsert
  BY <1>4, ReinsertImplementsStore
<1>5. CASE EraseReturns
  <2>1. Store!EraseReturns
    BY <1>5, StoreIsStoreOf DEF EraseReturns, Store!EraseReturns
  <2> QED
    BY <2>1 DEF Store!Next
<1>6. CASE Clear
  <2>1. \A k \in Keys : EntryIn(slots', k) = Absent
    BY <1>6 DEF Clear, EmptySlot, EntryIn, HoldersIn
  <2>2. [j \in Keys |-> Entry(j)]' = [j \in Keys |-> Absent]
    BY <2>1, StoreIsStoreOf DEF StoreOf
  <2>3. Store!Clear
    BY <1>6, <2>2 DEF Clear, Store!Clear
  <2> QED
    BY <2>3 DEF Store!Next
<1> QED
  BY <1>1, <1>2, <1>3, <1>4, <1>5, <1>6 DEF Next, EraseLoop

\* The table implements a map: no operation, and no move of an erase, loses, changes
\* or doubles another key's entry.
THEOREM Refinement == Spec => OthersUndisturbed
<1>1. Init => Store!Init
  BY InitImplementsStore
<1>2. IInv /\ IInv' /\ [Next]_vars => [Store!Next]_(Store!storeVars)
  BY StepImplementsStore
<1> QED
  BY <1>1, <1>2, Invariance, PTL DEF Spec, OthersUndisturbed, Store!Spec

-----------------------------------------------------------------------------
(* Where a surplus comes from.                                             *)

\* A first write under a key finds a free slot as long as the table has one.
LEMMA FirstWriteShows ==
    ASSUME IInv, IInv', NEW k \in Keys, Entry(k) = Absent, size < CAP, WriteThrough(k, TRUE)
    PROVE  Entry(k)' = Amount[k] + Leftover(Landing(slots, k))
<1> DEFINE p == Landing(slots, k)
           new == slots[p].value + Amount[k]
<1>1. \A q \in Positions : ~(slots[q].occupied /\ slots[q].key = k)
  BY PresentIsOccupied
<1>2. p # Nowhere
  <2>1. Occupied(slots) # Positions
    BY PositionsAreFinite DEF IInv, SizeIsExact, Occupied
  <2>2. PICK q \in Positions : ~slots[q].occupied
    BY <2>1 DEF Occupied
  <2> QED
    BY <2>2, NowhereIsFull
<1>3. Lands(slots, k, p) /\ p \in Positions
  BY <1>2, NowhereIsFull DEF Lands
<1>4. ~slots[p].occupied
  BY <1>1, <1>3 DEF Lands
<1>5. slots' = [Inserted(slots, k) EXCEPT ![p].value = new]
  BY <1>2 DEF WriteThrough, Stored
<1>6. slots'[p].key = k /\ slots'[p].value = new /\ slots'[p].occupied
  BY <1>3, <1>5 DEF Inserted, IInv, TypeOK, Slots
<1>7. EntryIn(slots', k) = slots'[p].value
  BY <1>3, <1>6, SoleHolderIsEntry DEF IInv, OneEntryPerKey
<1>8. slots[p].value \in Int /\ Amount[k] \in Int
  BY <1>3, TableAssumption DEF IInv, TypeOK, Slots
<1> QED
  BY <1>4, <1>6, <1>7, <1>8, EntriesOfTheTable DEF Leftover

LeavesNothingNew(p) == Leftover(p)' \in {0, Leftover(p)}

LEMMA WriteLeavesNothing ==
    ASSUME IInv, NEW k \in Keys, NEW adding \in BOOLEAN, WriteThrough(k, adding),
           NEW p \in Positions
    PROVE  LeavesNothingNew(p)
<1> DEFINE l == Landing(slots, k)
           old == IF l = Nowhere THEN dummy ELSE slots[l].value
           new == Stored(k, old, adding)
<1>1. CASE l = Nowhere
  BY <1>1 DEF WriteThrough, LeavesNothingNew, Leftover
<1>2. CASE l # Nowhere
  <2>1. l \in Positions
    BY <1>2, NowhereIsFull DEF Lands
  <2>2. slots' = [Inserted(slots, k) EXCEPT ![l].value = new]
    BY <1>2 DEF WriteThrough
  <2>3. slots'[l].occupied /\ (p # l => slots'[p] = slots[p])
    BY <2>1, <2>2 DEF Inserted, IInv, TypeOK, Slots
  <2> QED
    BY <2>3 DEF LeavesNothingNew, Leftover
<1> QED
  BY <1>1, <1>2

LEMMA EraseLeavesNothing ==
    ASSUME IInv, NEW k \in Keys, Erase(k), NEW p \in Positions
    PROVE  LeavesNothingNew(p)
<1> DEFINE h == Landing(slots, k)
<1>1. h \in Positions /\ slots' = [slots EXCEPT ![h] = EmptySlot]
  BY NowhereIsFull DEF Erase, Found, Lands
<1> HIDE DEF h
<1>2. slots'[p] = EmptySlot \/ slots'[p] = slots[p]
  BY <1>1 DEF IInv, TypeOK
<1> QED
  BY <1>2 DEF EmptySlot, LeavesNothingNew, Leftover

LEMMA ReinsertLeavesItsValue ==
    ASSUME IInv, Reinsert, NEW p \in Positions, ~LeavesNothingNew(p)
    PROVE  p = next /\ Leftover(p)' = slots[p].value
<1>0. PICK n, l \in Positions :
          LET e == slots[n]
              rest == [slots EXCEPT ![n].key = NoKey, ![n].occupied = FALSE]
          IN  /\ n = next /\ next' = After(n) /\ e.occupied /\ e.key \in Keys
              /\ dummy' = dummy
              /\ rest \in [Positions -> Slots]
              /\ Landing(rest, e.key) = l /\ Lands(rest, e.key, l) /\ ~rest[l].occupied
              /\ slots' = [rest EXCEPT ![l] = e]
              /\ size' = SizeAfterInsert(rest, size - 1, e.key)
  BY ReinsertMoves
<1>1. /\ n = next /\ slots'[l].occupied
      /\ l # n => ~slots'[n].occupied /\ slots'[n].value = slots[n].value
      /\ \A q \in Positions : q # n /\ q # l => slots'[q] = slots[q]
  BY <1>0 DEF IInv, TypeOK, Slots
<1> QED
  BY <1>1 DEF LeavesNothingNew, Leftover

\* A first reservation under a key is overstated by what its slot still held and by
\* nothing else, and only the loop of another key's erase leaves a value in a free slot.
THEOREM SurplusExplained == Spec => SurplusIsLeftover
<1>1. ASSUME IInv, IInv', [Next]_vars
      PROVE  /\ \A k \in Keys : Entry(k) = Absent /\ size < CAP /\ Add(k) =>
                    Entry(k)' = Amount[k] + Leftover(Landing(slots, k))
             /\ \A p \in Positions : Leftover(p)' \notin {0, Leftover(p)} =>
                    Reinsert /\ p = next /\ Leftover(p)' = slots[p].value
  <2>1. ASSUME NEW k \in Keys, Entry(k) = Absent, size < CAP, Add(k)
        PROVE  Entry(k)' = Amount[k] + Leftover(Landing(slots, k))
    BY <1>1, <2>1, FirstWriteShows DEF Add
  <2>2. ASSUME NEW p \in Positions, ~LeavesNothingNew(p)
        PROVE  Reinsert /\ p = next /\ Leftover(p)' = slots[p].value
    <3>1. CASE UNCHANGED vars
      BY <2>2, <3>1 DEF vars, LeavesNothingNew, Leftover
    <3>2. ASSUME NEW k \in Keys, Add(k) \/ Assign(k) PROVE FALSE
      BY <1>1, <2>2, <3>2, WriteLeavesNothing DEF Add, Assign
    <3>3. ASSUME NEW k \in Keys, Erase(k) PROVE FALSE
      BY <1>1, <2>2, <3>3, EraseLeavesNothing
    <3>4. CASE Reinsert
      BY <1>1, <2>2, <3>4, ReinsertLeavesItsValue
    <3>5. CASE EraseReturns
      BY <2>2, <3>5 DEF EraseReturns, LeavesNothingNew, Leftover
    <3>6. CASE Clear
      BY <2>2, <3>6 DEF Clear, EmptySlot, LeavesNothingNew, Leftover
    <3> QED
      BY <1>1, <3>1, <3>2, <3>3, <3>4, <3>5, <3>6 DEF Next, EraseLoop
  <2> QED
    BY <2>1, <2>2 DEF LeavesNothingNew
<1> QED
  BY <1>1, Invariance, PTL DEF Spec, SurplusIsLeftover
=============================================================================
