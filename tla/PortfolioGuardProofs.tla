------------------------ MODULE PortfolioGuardProofs ------------------------
(***************************************************************************)
(* What each operation of the ledger returns, and what it leaves alone,    *)
(* for every signal, price and cash; and what it does to the margin that   *)
(* is left, which is a sum over all entries.                               *)
(***************************************************************************)
EXTENDS PortfolioGuard, FiniteSetTheorems, TLAPS

-----------------------------------------------------------------------------
(* Sums over a finite set.                                                 *)

Below == {p \in Nat \X Nat : p[1] < p[2]}

\* Every set of naturals that is not empty has a least element, so induction over
\* the naturals may be carried out on a set instead of an operator.
LEMMA BelowIsWellFounded == IsWellFoundedOn(Below, Nat)
BY NatLessThanWellFounded DEF OpToRel, Below

LEMMA LeastElement ==
    ASSUME NEW T \in SUBSET Nat, T # {}
    PROVE  \E n \in T : \A m \in T : n <= m
<1>1. PICK n \in T : \A m \in T : ~(<<m, n>> \in Below)
  BY WFMin, BelowIsWellFounded
<1>2. ASSUME NEW m \in T PROVE n <= m
  <2>1. m \in Nat /\ n \in Nat /\ ~(<<m, n>> \in Below)
    BY <1>1
  <2> QED
    BY <2>1 DEF Below
<1> QED
  BY <1>2

LEMMA Induction ==
    ASSUME NEW Good \in SUBSET Nat, 0 \in Good, \A n \in Good : n + 1 \in Good
    PROVE  Good = Nat
<1> SUFFICES ASSUME Nat \ Good # {} PROVE FALSE
  OBVIOUS
<1>1. PICK n \in Nat \ Good : \A m \in Nat \ Good : n <= m
  BY LeastElement
<1>2. n # 0 /\ n - 1 \in Nat
  BY <1>1
<1>3. n - 1 \in Good
  BY <1>1, <1>2
<1> QED
  BY <1>1, <1>3

\* One step of SumFunction's fold, with the element it takes first.
Pick(s) == CHOOSE x \in s : TRUE

Summed(f, it, s) == IF s = {} THEN 0 ELSE f[Pick(s)] + it[s \ {Pick(s)}]

\* The function that SumFunction defines: the sum of f over each subset of D.
Sums(f, D) == CHOOSE it : it = [s \in SUBSET D |-> Summed(f, it, s)]

LEMMA SumIsLast ==
    ASSUME NEW f, NEW D, DOMAIN f = D
    PROVE  SumFunction(f) = Sums(f, D)[D]
BY DEF SumFunction, SumFunctionOnSet, FoldFunctionOnSet, MapThenFoldSet, Sums, Summed, Pick

LEMMA PickType == \A s : s # {} => Pick(s) \in s
BY DEF Pick

\* On a finite set that function exists: it is built up subset size by subset size.
LEMMA SumsExist ==
    ASSUME NEW f, NEW D, IsFiniteSet(D)
    PROVE  \A s \in SUBSET D : Sums(f, D)[s] = Summed(f, Sums(f, D), s)
<1> DEFINE Small(n) == {s \in SUBSET D : Cardinality(s) <= n}
           Good == {n \in Nat : \E it : it = [s \in Small(n) |-> Summed(f, it, s)]}
<1>0. \A s \in SUBSET D : IsFiniteSet(s) /\ Cardinality(s) \in 0 .. Cardinality(D)
  BY FS_Subset, FS_CardinalityType
<1>1. 0 \in Good
  <2> DEFINE it == [s \in Small(0) |-> 0]
  <2>1. \A s \in Small(0) : s = {}
    BY <1>0, FS_EmptySet
  <2>2. it = [s \in Small(0) |-> Summed(f, it, s)]
    BY <2>1 DEF Summed
  <2> QED
    BY <2>2
<1>2. ASSUME NEW n \in Good PROVE n + 1 \in Good
  <2>1. PICK it : it = [s \in Small(n) |-> Summed(f, it, s)]
    OBVIOUS
  <2> DEFINE more == [s \in Small(n + 1) |-> Summed(f, it, s)]
  <2>2. ASSUME NEW s \in Small(n + 1) PROVE Summed(f, it, s) = Summed(f, more, s)
    <3>1. CASE s = {}
      BY <3>1 DEF Summed
    <3>2. CASE s # {}
      <4> DEFINE r == s \ {Pick(s)}
      <4>1. Cardinality(r) = Cardinality(s) - 1 /\ Cardinality(s) \in Nat
        BY <1>0, <3>2, FS_RemoveElement, PickType
      <4>2. r \in Small(n) /\ r \in Small(n + 1)
        BY <4>1, <1>0
      <4>3. it[r] = Summed(f, it, r)
        BY <2>1, <4>2
      <4>4. more[r] = Summed(f, it, r)
        BY <4>2
      <4> QED
        BY <4>3, <4>4 DEF Summed
    <3> QED
      BY <3>1, <3>2
  <2>3. more = [s \in Small(n + 1) |-> Summed(f, more, s)]
    BY <2>2
  <2>4. n + 1 \in Nat /\ \E jt : jt = [s \in Small(n + 1) |-> Summed(f, jt, s)]
    <3> HIDE DEF more, Small
    <3> QED
      BY <2>3
  <2> QED
    BY <2>4
<1> HIDE DEF Good
<1>3. Good = Nat
  BY <1>1, <1>2, Induction DEF Good
<1>4. Cardinality(D) \in Good
  BY <1>0, <1>3, FS_CardinalityType
<1>5. Small(Cardinality(D)) = SUBSET D
  BY <1>0
<1>6. \E it : it = [s \in SUBSET D |-> Summed(f, it, s)]
  BY <1>4, <1>5 DEF Good
<1> DEFINE all == Sums(f, D)
<1>7. all = [s \in SUBSET D |-> Summed(f, all, s)]
  BY <1>6 DEF Sums
<1> HIDE DEF all
<1>8. \A s \in SUBSET D : all[s] = Summed(f, all, s)
  BY <1>7
<1> QED
  BY <1>8 DEF all

\* Sets of subsets that are reached by adding elements one at a time.
LEMMA SubsetInduction ==
    ASSUME NEW D, IsFiniteSet(D), NEW Good \in SUBSET SUBSET D, {} \in Good,
           \A s \in SUBSET D : s # {} /\ s \ {Pick(s)} \in Good => s \in Good
    PROVE  D \in Good
<1> DEFINE N == {n \in Nat : \A s \in SUBSET D : Cardinality(s) = n => s \in Good}
<1>0. \A s \in SUBSET D : IsFiniteSet(s) /\ Cardinality(s) \in Nat
  BY FS_Subset, FS_CardinalityType
<1>1. 0 \in N
  BY <1>0, FS_EmptySet
<1>2. ASSUME NEW n \in N PROVE n + 1 \in N
  <2>1. ASSUME NEW s \in SUBSET D, Cardinality(s) = n + 1 PROVE s \in Good
    <3>1. s # {}
      BY <2>1, FS_EmptySet
    <3>2. Pick(s) \in s /\ IsFiniteSet(s)
      BY <1>0, <3>1, PickType
    <3>3. Cardinality(s \ {Pick(s)}) = n
      <4>1. Cardinality(s \ {Pick(s)}) = Cardinality(s) - 1
        BY <3>2, FS_RemoveElement
      <4> QED
        BY <2>1, <4>1
    <3>4. s \ {Pick(s)} \in SUBSET D
      OBVIOUS
    <3> QED
      BY <3>1, <3>3, <3>4
  <2> QED
    BY <2>1
<1> HIDE DEF N
<1>3. N = Nat
  BY <1>1, <1>2, Induction DEF N
<1> QED
  BY <1>0, <1>3 DEF N

LEMMA SumsStep ==
    ASSUME NEW D, IsFiniteSet(D), NEW f
    PROVE  /\ Sums(f, D)[{}] = 0
           /\ \A s \in SUBSET D : s # {} =>
                 /\ Pick(s) \in s
                 /\ Sums(f, D)[s] = f[Pick(s)] + Sums(f, D)[s \ {Pick(s)}]
BY SumsExist, PickType DEF Summed

\* The sum of integers is an integer.
LEMMA SumType ==
    ASSUME NEW D, IsFiniteSet(D), NEW f \in [D -> Int]
    PROVE  SumFunction(f) \in Int
<1> DEFINE Good == {s \in SUBSET D : Sums(f, D)[s] \in Int}
<1>1. Good \in SUBSET SUBSET D
  OBVIOUS
<1> HIDE DEF Good
<1>2. {} \in Good /\ \A s \in SUBSET D : s # {} /\ s \ {Pick(s)} \in Good => s \in Good
  <2>1. {} \in Good
    BY SumsStep DEF Good
  <2>2. ASSUME NEW s \in SUBSET D, s # {}, s \ {Pick(s)} \in Good
        PROVE  s \in Good
    <3>1. Pick(s) \in D
      BY <2>2, PickType
    <3>2. Sums(f, D)[s] = f[Pick(s)] + Sums(f, D)[s \ {Pick(s)}]
      BY <2>2, SumsStep
    <3> QED
      BY <2>2, <3>1, <3>2 DEF Good
  <2> QED
    BY <2>1, <2>2
<1>3. D \in Good
  BY <1>2, <1>1, SubsetInduction
<1> QED
  BY <1>3, SumIsLast DEF Good

\* The sum of a sum of functions.
LEMMA SumAdds ==
    ASSUME NEW D, IsFiniteSet(D), NEW f \in [D -> Int], NEW g \in [D -> Int]
    PROVE  SumFunction([x \in D |-> f[x] + g[x]]) = SumFunction(f) + SumFunction(g)
<1> DEFINE h == [x \in D |-> f[x] + g[x]]
           Good == {s \in SUBSET D : /\ Sums(f, D)[s] \in Int /\ Sums(g, D)[s] \in Int
                                     /\ Sums(h, D)[s] = Sums(f, D)[s] + Sums(g, D)[s]}
<1>1. Good \in SUBSET SUBSET D
  OBVIOUS
<1> HIDE DEF Good
<1>2. {} \in Good /\ \A s \in SUBSET D : s # {} /\ s \ {Pick(s)} \in Good => s \in Good
  <2>1. {} \in Good
    BY SumsStep DEF Good
  <2>2. ASSUME NEW s \in SUBSET D, s # {}, s \ {Pick(s)} \in Good
        PROVE  s \in Good
    <3>1. Pick(s) \in D
      BY <2>2, PickType
    <3>2. Sums(f, D)[s] = f[Pick(s)] + Sums(f, D)[s \ {Pick(s)}]
      BY <2>2, SumsStep
    <3>3. Sums(g, D)[s] = g[Pick(s)] + Sums(g, D)[s \ {Pick(s)}]
      BY <2>2, SumsStep
    <3>4. Sums(h, D)[s] = h[Pick(s)] + Sums(h, D)[s \ {Pick(s)}]
      BY <2>2, SumsStep
    <3> QED
      BY <2>2, <3>1, <3>2, <3>3, <3>4 DEF Good
  <2> QED
    BY <2>1, <2>2
<1>3. D \in Good
  BY <1>2, <1>1, SubsetInduction
<1> QED
  BY <1>3, SumIsLast DEF Good

\* A function that is nowhere greater has no greater sum.
LEMMA SumIsMonotone ==
    ASSUME NEW D, IsFiniteSet(D), NEW f \in [D -> Int], NEW g \in [D -> Int],
           \A x \in D : f[x] <= g[x]
    PROVE  SumFunction(f) <= SumFunction(g)
<1> DEFINE Good == {s \in SUBSET D : /\ Sums(f, D)[s] \in Int /\ Sums(g, D)[s] \in Int
                                     /\ Sums(f, D)[s] <= Sums(g, D)[s]}
<1>1. Good \in SUBSET SUBSET D
  OBVIOUS
<1> HIDE DEF Good
<1>2. {} \in Good /\ \A s \in SUBSET D : s # {} /\ s \ {Pick(s)} \in Good => s \in Good
  <2>1. {} \in Good
    BY SumsStep DEF Good
  <2>2. ASSUME NEW s \in SUBSET D, s # {}, s \ {Pick(s)} \in Good
        PROVE  s \in Good
    <3>1. Pick(s) \in D
      BY <2>2, PickType
    <3>2. Sums(f, D)[s] = f[Pick(s)] + Sums(f, D)[s \ {Pick(s)}]
      BY <2>2, SumsStep, ZenonT(40)
    <3>3. Sums(g, D)[s] = g[Pick(s)] + Sums(g, D)[s \ {Pick(s)}]
      BY <2>2, SumsStep, ZenonT(40)
    <3> QED
      BY <2>2, <3>1, <3>2, <3>3 DEF Good
  <2> QED
    BY <2>1, <2>2
<1>3. D \in Good
  BY <1>2, <1>1, SubsetInduction
<1> QED
  BY <1>3, SumIsLast DEF Good

\* A sum over functions that differ in one place differs by the difference there.
LEMMA SumUpdate ==
    ASSUME NEW D, IsFiniteSet(D), NEW f \in [D -> Int], NEW g \in [D -> Int],
           NEW k \in D, \A x \in D : x # k => f[x] = g[x]
    PROVE  SumFunction(g) = SumFunction(f) - f[k] + g[k]
<1> DEFINE Good == {s \in SUBSET D :
                      /\ Sums(f, D)[s] \in Int /\ Sums(g, D)[s] \in Int
                      /\ Sums(g, D)[s] = Sums(f, D)[s] + (IF k \in s THEN g[k] - f[k] ELSE 0)}
<1>1. Good \in SUBSET SUBSET D
  OBVIOUS
<1> HIDE DEF Good
<1>2. {} \in Good /\ \A s \in SUBSET D : s # {} /\ s \ {Pick(s)} \in Good => s \in Good
  <2>0. {} \in Good
    BY SumsStep DEF Good
  <2>1. ASSUME NEW s \in SUBSET D, s # {}, s \ {Pick(s)} \in Good
        PROVE  s \in Good
    <3>1. Pick(s) \in s
      BY <2>1, PickType
    <3>2. Sums(f, D)[s] = f[Pick(s)] + Sums(f, D)[s \ {Pick(s)}]
      BY <2>1, SumsStep
    <3>3. Sums(g, D)[s] = g[Pick(s)] + Sums(g, D)[s \ {Pick(s)}]
      BY <2>1, SumsStep
    <3> QED
      BY <2>1, <3>1, <3>2, <3>3 DEF Good
  <2> QED
    BY <2>0, <2>1
<1>3. D \in Good
  BY <1>2, <1>1, SubsetInduction
<1> QED
  BY <1>3, SumIsLast DEF Good

LEMMA SumOfZeros ==
    ASSUME NEW D, IsFiniteSet(D)
    PROVE  SumFunction([x \in D |-> 0]) = 0
<1> DEFINE f == [x \in D |-> 0]
           Good == {s \in SUBSET D : Sums(f, D)[s] = 0}
<1>1. Good \in SUBSET SUBSET D
  OBVIOUS
<1> HIDE DEF Good
<1>2. {} \in Good /\ \A s \in SUBSET D : s # {} /\ s \ {Pick(s)} \in Good => s \in Good
  <2>1. {} \in Good
    BY SumsStep DEF Good
  <2>2. ASSUME NEW s \in SUBSET D, s # {}, s \ {Pick(s)} \in Good
        PROVE  s \in Good
    <3>1. Pick(s) \in D
      BY <2>2, PickType
    <3>2. Sums(f, D)[s] = f[Pick(s)] + Sums(f, D)[s \ {Pick(s)}]
      BY <2>2, SumsStep
    <3> QED
      BY <2>2, <3>1, <3>2 DEF Good
  <2> QED
    BY <2>1, <2>2
<1>3. D \in Good
  BY <1>2, <1>1, SubsetInduction
<1> QED
  BY <1>3, SumIsLast DEF Good

-----------------------------------------------------------------------------
(* The operations of the ledger.                                           *)

LEMMA MarginType ==
    ASSUME NEW k \in Keys, NEW qty \in Nat, NEW price \in Nat
    PROVE  Margin(k, qty, price) \in Nat
<1> DEFINE divisor == IF Sig[k].options THEN 1 ELSE MaxLeverage
<1>1. divisor \in Nat /\ divisor > 0
  BY GuardAssumption
<1>2. qty * price \in Nat
  OBVIOUS
<1>3. \A a \in Nat, d \in Nat : d > 0 => a \div d \in Nat
  OBVIOUS
<1> HIDE DEF divisor
<1>4. (qty * price) \div divisor \in Nat
  BY <1>1, <1>2, <1>3
<1> QED
  BY <1>4 DEF Margin, divisor

LEMMA RequiredMarginType ==
    ASSUME NEW k \in Keys
    PROVE  RequiredMargin(k) \in Nat
<1>1. Sig[k] \in SignalFields
  BY GuardAssumption
<1>2. ReferencePrice[Sig[k].symbol] \in Nat
  BY <1>1, GuardAssumption DEF SignalFields
<1> QED
  BY <1>1, <1>2, MarginType DEF RequiredMargin, SignalFields

LEMMA ReleaseType ==
    ASSUME NEW l \in Ledgers, NEW k
    PROVE  /\ Release(l, k) \in Ledgers
           /\ k \in Keys => Release(l, k).reserved[k] = 0
           /\ Release(l, k).used = l.used
           /\ \A j \in Keys : j # k => Release(l, k).reserved[j] = l.reserved[j]
BY DEF Ledgers, Release

LEMMA ReserveType ==
    ASSUME NEW l \in Ledgers, NEW k \in Keys
    PROVE  /\ Reserve(l, k) \in Ledgers
           /\ Reserve(l, k).reserved[k] = l.reserved[k] + RequiredMargin(k)
           /\ Reserve(l, k).used = l.used
           /\ \A j \in Keys : j # k => Reserve(l, k).reserved[j] = l.reserved[j]
BY RequiredMarginType DEF Ledgers, Reserve

LEMMA BookFillType ==
    ASSUME NEW l \in Ledgers, NEW k \in Keys, NEW qty \in Nat, NEW price \in Nat
    PROVE  /\ BookFill(l, k, qty, price) \in Ledgers
           /\ \A j \in Keys : j # k => BookFill(l, k, qty, price).reserved[j] = l.reserved[j]
<1>1. Sig[k].symbol \in Symbols /\ Sig[k].buy \in BOOLEAN
  BY GuardAssumption DEF SignalFields
<1>2. Margin(k, qty, price) \in Nat
  BY MarginType
<1>3. Release(l, k) \in Ledgers
  BY ReleaseType
<1>4. \A j \in Keys : j # k => Release(l, k).reserved[j] = l.reserved[j]
  BY ReleaseType
<1> DEFINE r == Release(l, k)
           m == Margin(k, qty, price)
           d == IF Sig[k].buy THEN qty ELSE -qty
<1>5. d \in Int
  BY <1>1
<1> HIDE DEF r, m, d
<1>6. r \in Ledgers /\ m \in Nat
  BY <1>2, <1>3 DEF r, m
<1>7. [r EXCEPT !.used[k] = m, !.positions[Sig[k].symbol] = @ + d] \in Ledgers
  <2> DEFINE s == Sig[k].symbol
             p == r.positions[s] + d
  <2>1. /\ r \in [reserved : [Keys -> Nat], used : [Keys -> Nat], positions : [Symbols -> Int]]
        /\ s \in Symbols
    BY <1>1, <1>6 DEF Ledgers
  <2> HIDE DEF s
  <2>2. p \in Int
    BY <1>5, <2>1
  <2> HIDE DEF p
  <2>3. [r EXCEPT !.used[k] = m, !.positions[s] = p] \in Ledgers
    BY <1>6, <2>1, <2>2 DEF Ledgers
  <2> QED
    BY <2>3 DEF p, s
<1>8. BookFill(l, k, qty, price) = [r EXCEPT !.used[k] = m, !.positions[Sig[k].symbol] = @ + d]
  BY DEF BookFill, r, m, d
<1>9. BookFill(l, k, qty, price).reserved = r.reserved
  BY <1>6, <1>8 DEF Ledgers
<1> QED
  BY <1>4, <1>7, <1>8, <1>9 DEF r

\* The booked key holds its used margin and nothing reserved.
LEMMA BookFillEntries ==
    ASSUME NEW l \in Ledgers, NEW k \in Keys, NEW qty, NEW price
    PROVE  /\ BookFill(l, k, qty, price).reserved[k] = 0
           /\ BookFill(l, k, qty, price).used = [l.used EXCEPT ![k] = Margin(k, qty, price)]
BY ReleaseType DEF BookFill, Ledgers

\* Only the position in the booked symbol moves.
LEMMA BookFillPositions ==
    ASSUME NEW l \in Ledgers, NEW k \in Keys, NEW qty, NEW price
    PROVE  BookFill(l, k, qty, price).positions =
               [l.positions EXCEPT ![Sig[k].symbol] = @ + (IF Sig[k].buy THEN qty ELSE -qty)]
BY ReleaseType DEF BookFill, Release, Ledgers

-----------------------------------------------------------------------------
(* The margin that is left.                                                *)

LEMMA SumsOfEntries ==
    ASSUME NEW l \in Ledgers
    PROVE  /\ IsFiniteSet(Keys)
           /\ l.reserved \in [Keys -> Int] /\ SumFunction(l.reserved) \in Int
           /\ l.used \in [Keys -> Int] /\ SumFunction(l.used) \in Int
           /\ AvailableMargin(l) \in Int
<1>1. IsFiniteSet(Keys) /\ InitialCash \in Int
  BY GuardAssumption
<1>2. l.reserved \in [Keys -> Int] /\ l.used \in [Keys -> Int]
  BY DEF Ledgers
<1>3. SumFunction(l.reserved) \in Int /\ SumFunction(l.used) \in Int
  BY <1>1, <1>2, SumType
<1> QED
  BY <1>1, <1>2, <1>3 DEF AvailableMargin

\* Of an empty ledger the whole cash is available.
LEMMA EmptyAvailable == AvailableMargin(EmptyLedger) = InitialCash
<1>1. SumFunction([k \in Keys |-> 0]) = 0 /\ InitialCash \in Int
  BY SumOfZeros, GuardAssumption
<1> QED
  BY <1>1 DEF AvailableMargin, EmptyLedger

\* A ledger that commits no more under any key leaves no less.
LEMMA LessCommitted ==
    ASSUME NEW l \in Ledgers, NEW m \in Ledgers,
           \A k \in Keys : m.reserved[k] + m.used[k] <= l.reserved[k] + l.used[k]
    PROVE  AvailableMargin(m) >= AvailableMargin(l)
<1> DEFINE Committed(n) == [k \in Keys |-> n.reserved[k] + n.used[k]]
<1>1. ASSUME NEW n \in Ledgers
      PROVE  /\ Committed(n) \in [Keys -> Int]
             /\ SumFunction(Committed(n)) = SumFunction(n.reserved) + SumFunction(n.used)
  BY SumsOfEntries, SumAdds
<1>2. \A k \in Keys : Committed(m)[k] <= Committed(l)[k]
  OBVIOUS
<1>3. Committed(m) \in [Keys -> Int] /\ Committed(l) \in [Keys -> Int] /\ IsFiniteSet(Keys)
  BY <1>1, SumsOfEntries
<1>4. SumFunction(Committed(m)) <= SumFunction(Committed(l))
  <2> HIDE DEF Committed
  <2> QED
    BY <1>2, <1>3, SumIsMonotone
<1>5. SumFunction(m.reserved) + SumFunction(m.used)
        <= SumFunction(l.reserved) + SumFunction(l.used)
  BY <1>1, <1>4
<1> QED
  BY <1>5, SumsOfEntries, GuardAssumption DEF AvailableMargin

\* A reservation takes its margin from what is left.
LEMMA ReserveCommits ==
    ASSUME NEW l \in Ledgers, NEW k \in Keys
    PROVE  AvailableMargin(Reserve(l, k)) = AvailableMargin(l) - RequiredMargin(k)
<1> DEFINE m == Reserve(l, k)
<1>1. /\ m \in Ledgers /\ m.used = l.used
      /\ m.reserved[k] = l.reserved[k] + RequiredMargin(k)
      /\ \A j \in Keys : j # k => l.reserved[j] = m.reserved[j]
  BY ReserveType
<1> HIDE DEF m
<1>2. SumFunction(m.reserved) = SumFunction(l.reserved) - l.reserved[k] + m.reserved[k]
  BY <1>1, SumsOfEntries, SumUpdate
<1>3. RequiredMargin(k) \in Int /\ l.reserved[k] \in Int
  BY RequiredMarginType, SumsOfEntries
<1>4. AvailableMargin(m) = AvailableMargin(l) - RequiredMargin(k)
  BY <1>1, <1>2, <1>3, SumsOfEntries, GuardAssumption DEF AvailableMargin
<1> QED
  BY <1>4 DEF m
=============================================================================
