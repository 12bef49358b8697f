-------------------------- MODULE AsyncLoggerProofs --------------------------
(***************************************************************************)
(* Theorems about the logger, for any number of lines and slots.           *)
(***************************************************************************)
EXTENDS AsyncLogger, Integers, FiniteSetTheorems, TLAPS

Slots == 0..Cap-1

\* The I/O thread has found a line and has not gone on to the next slot.
HasLine == io \in {"print", "clear", "advance"}

\* Every index was given to one line, and the I/O thread prints one line an index.
IndicesAreGiven ==
    /\ IsFiniteSet(Taken) /\ Cardinality(Taken) = writeHead
    /\ \A l \in Taken : idx[l] < writeHead
    /\ \A l, k \in Taken : idx[l] = idx[k] => l = k

ReaderCounts ==
    /\ Len(out) = readHead + IF io \in {"clear", "advance"} THEN 1 ELSE 0
    /\ HasLine => readHead < writeHead
    /\ io = "done" => ~running /\ readHead = writeHead
    /\ gone => io = "done"

Writing(l) == pc[l] \in {"write", "mark"}

\* A slot has one producer at a time, and it is not the I/O thread's turn then.
SlotIsOwned ==
    /\ \A l, k \in Lines : Writing(l) /\ Writing(k) /\ Slot(l) = Slot(k) => l = k
    /\ \A l \in Lines : Writing(l) => ~ready[Slot(l)]
    /\ \A l \in Lines : pc[l] = "mark" => buf[Slot(l)] = l
    /\ io \in {"print", "clear"} => ready[ReadSlot]

JustPrinted(i) == io = "clear" /\ i = ReadSlot

\* A slot that is ready holds a line of its own that has not been printed.
ReadyIsFresh ==
    \A i \in Slots : ready[i] =>
        /\ buf[i] \in Lines /\ pc[buf[i]] = "done" /\ Slot(buf[i]) = i
        /\ ~JustPrinted(i) => buf[i] \notin Printed

PrintedOnce ==
    /\ \A i \in DOMAIN out :
           out[i] \in Lines /\ pc[out[i]] = "done" /\ Slot(out[i]) = (i - 1) % Cap
    /\ \A i, j \in DOMAIN out : out[i] = out[j] => i = j

InOrder ==
    /\ writeHead <= readHead + Cap
    /\ \A i \in DOMAIN out : idx[out[i]] = i - 1

IInv ==
    /\ TypeOK /\ IndicesAreGiven /\ ReaderCounts
    /\ fault # "collision" => SlotIsOwned /\ ReadyIsFresh /\ PrintedOnce
    /\ fault = "none" => InOrder

-----------------------------------------------------------------------------

\* Indices less than a lap apart have slots of their own.
LEMMA LapsApart ==
    ASSUME NEW c \in Nat \ {0}, NEW a \in Nat, NEW b \in Nat, a <= b, b < a + c,
           a % c = b % c
    PROVE  a = b
<1> DEFINE p == a \div c
           q == b \div c
<1>1. p \in Int /\ a = c * p + (a % c)
  OBVIOUS
<1>2. q \in Int /\ b = c * q + (b % c)
  OBVIOUS
<1> HIDE DEF p, q
<1>3. a % c \in Int /\ b - a = c * q - c * p
  BY <1>1, <1>2
<1>4. c * q - c * p = c * (q - p)
  BY <1>1, <1>2
<1>5. q - p \in Int /\ 0 <= c * (q - p) /\ c * (q - p) < c
  BY <1>1, <1>2, <1>3, <1>4
<1>6. ~(q - p >= 1) /\ ~(q - p <= -1)
  <2>1. q - p >= 1 => c * (q - p) >= c
    BY <1>5
  <2>2. q - p <= -1 => c * (q - p) <= -c
    BY <1>5
  <2> QED
    BY <1>5, <2>1, <2>2
<1>7. q = p
  BY <1>1, <1>2, <1>6
<1> QED
  BY <1>3, <1>7, <1>1

LEMMA SlotsAreSlots == \A n \in Nat : n % Cap \in Slots
BY LoggerAssumption DEF Slots

LEMMA Initially == Init => IInv
<1> SUFFICES ASSUME Init PROVE IInv
  OBVIOUS
<1>1. Taken = {} /\ Printed = {}
  BY DEF Init, Taken, Printed
<1>2. IndicesAreGiven
  BY <1>1, FS_EmptySet DEF Init, IndicesAreGiven
<1>3. /\ DOMAIN out = {} /\ Len(out) = 0 /\ out \in Seq(Lines \cup {Torn})
      /\ io = "poll" /\ ~gone /\ readHead = 0 /\ writeHead = 0
      /\ \A l \in Lines : ~Writing(l)
      /\ \A i \in Slots : ~ready[i]
  BY DEF Init, Writing, Slots
<1>4. TypeOK
  <2>1. /\ pc \in [Lines -> {"new", "wait", "write", "mark", "done"}]
        /\ idx \in [Lines -> Nat]
        /\ ready \in [0..Cap-1 -> BOOLEAN]
        /\ buf \in [0..Cap-1 -> Lines \cup {Torn}]
    BY DEF Init
  <2>2. running \in BOOLEAN /\ gone \in BOOLEAN /\ fault \in {"none", "overrun", "collision"}
    BY DEF Init
  <2> QED
    BY <1>3, <2>1, <2>2 DEF TypeOK
<1>5. ReaderCounts
  BY <1>3 DEF ReaderCounts, HasLine
<1>6. SlotIsOwned /\ ReadyIsFresh
  BY <1>3 DEF SlotIsOwned, ReadyIsFresh, Writing
<1>7. PrintedOnce /\ InOrder
  BY <1>3, LoggerAssumption DEF PrintedOnce, InOrder
<1> QED
  BY <1>2, <1>4, <1>5, <1>6, <1>7 DEF IInv

-----------------------------------------------------------------------------
(* The producers.                                                          *)

LEMMA TakeIndexStep ==
    ASSUME IInv, NEW l \in Lines, TakeIndex(l)
    PROVE  IInv'
<1>1. /\ running /\ pc[l] = "new" /\ pc' = [pc EXCEPT ![l] = "wait"]
      /\ idx' = [idx EXCEPT ![l] = writeHead] /\ writeHead' = writeHead + 1
      /\ fault' = IF fault = "none" /\ writeHead >= readHead + Cap THEN "overrun" ELSE fault
      /\ UNCHANGED <<ready, buf, readHead, io, out, running, gone>>
  BY DEF TakeIndex, TakeIndexLeaving, Goes, ioVars, lifeVars
<1>2. /\ TypeOK /\ Cap \in Nat
      /\ \A k \in Lines : k # l => pc'[k] = pc[k] /\ idx'[k] = idx[k] /\ Slot(k)' = Slot(k)
      /\ pc'[l] = "wait" /\ idx'[l] = writeHead
  BY <1>1, LoggerAssumption DEF IInv, TypeOK, Slot
<1>3. TypeOK'
  BY <1>1, <1>2 DEF TypeOK
<1>4. IndicesAreGiven'
  <2>1. Taken' = Taken \cup {l} /\ l \notin Taken
    BY <1>1, <1>2 DEF Taken
  <2>2. IsFiniteSet(Taken') /\ Cardinality(Taken') = writeHead'
    BY <1>1, <2>1, FS_AddElement DEF IInv, IndicesAreGiven
  <2>3. \A k \in Taken : k \in Lines /\ k # l /\ idx'[k] = idx[k] /\ idx[k] < writeHead /\ idx[k] \in Nat
    BY <1>2, <2>1 DEF IInv, IndicesAreGiven, TypeOK, Taken
  <2>4. \A k \in Taken' : idx'[k] < writeHead'
    BY <1>1, <1>2, <2>1, <2>3 DEF TypeOK
  <2>5. \A j, k \in Taken' : idx'[j] = idx'[k] => j = k
    BY <1>1, <1>2, <2>1, <2>3 DEF IInv, IndicesAreGiven
  <2> QED
    BY <2>2, <2>4, <2>5 DEF IndicesAreGiven
<1>5. ReaderCounts'
  BY <1>1, <1>2 DEF IInv, ReaderCounts, HasLine, TypeOK
<1>6. fault' # "collision" => SlotIsOwned' /\ ReadyIsFresh' /\ PrintedOnce'
  <2> SUFFICES ASSUME fault # "collision" PROVE SlotIsOwned' /\ ReadyIsFresh' /\ PrintedOnce'
    BY <1>1
  <2>1. SlotIsOwned /\ ReadyIsFresh /\ PrintedOnce
    BY DEF IInv
  <2>2. \A k \in Lines : Writing(k)' <=> Writing(k) /\ k # l
    BY <1>1, <1>2 DEF Writing
  <2>3. SlotIsOwned'
    BY <1>1, <1>2, <2>1, <2>2 DEF SlotIsOwned, ReadSlot
  <2>4. ReadyIsFresh'
    BY <1>1, <1>2, <2>1 DEF ReadyIsFresh, JustPrinted, ReadSlot, Printed
  <2>5. PrintedOnce'
    BY <1>1, <1>2, <2>1 DEF PrintedOnce
  <2> QED
    BY <2>3, <2>4, <2>5
<1>7. fault' = "none" => InOrder'
  <2> SUFFICES ASSUME fault = "none", ~(writeHead >= readHead + Cap) PROVE InOrder'
    BY <1>1
  <2>1. \A i \in DOMAIN out : out[i] \in Lines /\ out[i] # l
    BY <1>1 DEF IInv, PrintedOnce
  <2> QED
    BY <1>1, <1>2, <2>1 DEF IInv, InOrder, TypeOK
<1> QED
  BY <1>3, <1>4, <1>5, <1>6, <1>7 DEF IInv

\* A step of a producer that has its index leaves the heads and the output alone.
LEMMA PushKeepsCounts ==
    ASSUME IInv, NEW l \in Lines, pc[l] # "new", NEW to \in {"write", "mark", "done"},
           pc' = [pc EXCEPT ![l] = to],
           UNCHANGED <<idx, writeHead, readHead, io, out, running, gone>>
    PROVE  /\ IndicesAreGiven' /\ ReaderCounts' /\ (InOrder => InOrder')
           /\ Taken' = Taken /\ Printed' = Printed
           /\ \A k \in Lines : /\ Slot(k)' = Slot(k) /\ Slot(k) \in Slots
                               /\ k # l => pc'[k] = pc[k]
           /\ pc'[l] = to
<1>1. TypeOK
  BY DEF IInv
<1>2. Taken' = Taken /\ Printed' = Printed
  BY <1>1 DEF Taken, Printed, TypeOK
<1>3. IndicesAreGiven' /\ ReaderCounts'
  BY <1>2 DEF IInv, IndicesAreGiven, ReaderCounts, HasLine
<1> QED
  BY <1>1, <1>2, <1>3, SlotsAreSlots DEF TypeOK, InOrder, Slot

LEMMA WaitStep ==
    ASSUME IInv, NEW l \in Lines, WaitForSlot(l)
    PROVE  IInv'
<1>1. /\ ~ready[Slot(l)] /\ pc[l] = "wait" /\ pc' = [pc EXCEPT ![l] = "write"]
      /\ fault' = IF Rivals(l) # {} THEN "collision" ELSE fault
      /\ UNCHANGED <<idx, ready, buf, writeHead, readHead, io, out, running, gone>>
  BY DEF WaitForSlot, EnterSlot, Goes, ioVars, lifeVars
<1>2. /\ IndicesAreGiven' /\ ReaderCounts' /\ (InOrder => InOrder') /\ Printed' = Printed
      /\ \A k \in Lines : /\ Slot(k)' = Slot(k) /\ Slot(k) \in Slots
                          /\ k # l => pc'[k] = pc[k]
      /\ pc'[l] = "write"
  BY <1>1, PushKeepsCounts
<1>3. TypeOK'
  BY <1>1 DEF IInv, TypeOK
<1>4. fault' # "collision" => SlotIsOwned' /\ ReadyIsFresh' /\ PrintedOnce'
  <2> SUFFICES ASSUME fault' # "collision" PROVE SlotIsOwned' /\ ReadyIsFresh' /\ PrintedOnce'
    OBVIOUS
  <2>1. fault # "collision" /\ \A k \in Lines : k # l /\ Slot(k) = Slot(l) => ~Writing(k)
    BY <1>1 DEF Rivals, Writing
  <2>2. SlotIsOwned /\ ReadyIsFresh /\ PrintedOnce
    BY <2>1 DEF IInv
  <2>3. SlotIsOwned'
    BY <1>1, <1>2, <2>1, <2>2 DEF SlotIsOwned, Writing, ReadSlot
  <2>4. ReadyIsFresh'
    BY <1>1, <1>2, <2>2 DEF ReadyIsFresh, JustPrinted, ReadSlot
  <2>5. PrintedOnce'
    BY <1>1, <1>2, <2>2 DEF PrintedOnce
  <2> QED
    BY <2>3, <2>4, <2>5
<1> QED
  BY <1>1, <1>2, <1>3, <1>4 DEF IInv

LEMMA WriteStep ==
    ASSUME IInv, NEW l \in Lines, WriteLine(l)
    PROVE  IInv'
<1>1. /\ pc[l] = "write" /\ pc' = [pc EXCEPT ![l] = "mark"]
      /\ UNCHANGED <<idx, ready, writeHead, readHead, io, out, running, gone, fault>>
  BY DEF WriteLine, Goes, ioVars, lifeVars
<1>2. /\ IndicesAreGiven' /\ ReaderCounts' /\ (InOrder => InOrder') /\ Printed' = Printed
      /\ \A k \in Lines : /\ Slot(k)' = Slot(k) /\ Slot(k) \in Slots
                          /\ k # l => pc'[k] = pc[k]
      /\ pc'[l] = "mark"
  BY <1>1, PushKeepsCounts
<1>3. TypeOK'
  <2>1. PICK x \in Lines \cup {Torn} : buf' = [buf EXCEPT ![Slot(l)] = x]
    BY <1>2 DEF WriteLine, IInv, TypeOK, Slots
  <2> QED
    BY <1>1, <1>2, <2>1 DEF IInv, TypeOK, Slots
<1>4. ASSUME fault # "collision" PROVE SlotIsOwned' /\ ReadyIsFresh' /\ PrintedOnce'
  <2>1. buf' = [buf EXCEPT ![Slot(l)] = l]
    BY <1>4 DEF WriteLine
  <2>2. SlotIsOwned /\ ReadyIsFresh /\ PrintedOnce
    BY <1>4 DEF IInv
  <2>3. /\ buf'[Slot(l)] = l /\ ~ready[Slot(l)]
        /\ \A i \in Slots : i # Slot(l) => buf'[i] = buf[i]
    BY <1>1, <1>2, <2>1, <2>2 DEF IInv, TypeOK, Slots, SlotIsOwned, Writing
  <2>4. SlotIsOwned'
    BY <1>1, <1>2, <2>2, <2>3 DEF SlotIsOwned, Writing, ReadSlot
  <2>5. ReadyIsFresh'
    BY <1>1, <1>2, <2>2, <2>3 DEF ReadyIsFresh, JustPrinted, ReadSlot
  <2>6. PrintedOnce'
    BY <1>1, <1>2, <2>2 DEF PrintedOnce
  <2> QED
    BY <2>4, <2>5, <2>6
<1> QED
  BY <1>1, <1>2, <1>3, <1>4 DEF IInv

LEMMA SetReadyStep ==
    ASSUME IInv, NEW l \in Lines, SetReady(l)
    PROVE  IInv'
<1>1. /\ pc[l] = "mark" /\ pc' = [pc EXCEPT ![l] = "done"]
      /\ ready' = [ready EXCEPT ![Slot(l)] = TRUE]
      /\ UNCHANGED <<idx, buf, writeHead, readHead, io, out, running, gone, fault>>
  BY DEF SetReady, Goes, ioVars, lifeVars
<1>2. /\ IndicesAreGiven' /\ ReaderCounts' /\ (InOrder => InOrder') /\ Printed' = Printed
      /\ \A k \in Lines : /\ Slot(k)' = Slot(k) /\ Slot(k) \in Slots
                          /\ k # l => pc'[k] = pc[k]
      /\ pc'[l] = "done"
  BY <1>1, PushKeepsCounts
<1>3. TypeOK'
  BY <1>1, <1>2 DEF IInv, TypeOK, Slots
<1>4. ASSUME fault # "collision" PROVE SlotIsOwned' /\ ReadyIsFresh' /\ PrintedOnce'
  <2>1. SlotIsOwned /\ ReadyIsFresh /\ PrintedOnce
    BY <1>4 DEF IInv
  <2>2. /\ ready'[Slot(l)] /\ ~ready[Slot(l)] /\ buf[Slot(l)] = l
        /\ \A i \in Slots : i # Slot(l) => ready'[i] = ready[i]
    BY <1>1, <1>2, <2>1 DEF IInv, TypeOK, Slots, SlotIsOwned, Writing
  <2>3. l \notin Printed
    BY <1>1, <2>1 DEF PrintedOnce, Printed
  <2>4. ReadSlot \in Slots
    BY SlotsAreSlots DEF IInv, TypeOK, ReadSlot
  <2>5. SlotIsOwned'
    BY <1>1, <1>2, <2>1, <2>2, <2>4 DEF SlotIsOwned, Writing, ReadSlot
  <2>6. ReadyIsFresh'
    BY <1>1, <1>2, <2>1, <2>2, <2>3 DEF ReadyIsFresh, JustPrinted, ReadSlot
  <2>7. PrintedOnce'
    BY <1>1, <1>2, <2>1 DEF PrintedOnce
  <2> QED
    BY <2>5, <2>6, <2>7
<1> QED
  BY <1>1, <1>2, <1>3, <1>4 DEF IInv

-----------------------------------------------------------------------------
(* The I/O thread.                                                         *)

\* Its steps do not touch what the producers count.
LEMMA IoKeepsProducers ==
    ASSUME IInv, UNCHANGED <<pc, idx, writeHead>>
    PROVE  /\ IndicesAreGiven' /\ \A l \in Lines : Slot(l)' = Slot(l)
           /\ ReadSlot \in Slots
BY SlotsAreSlots DEF IInv, TypeOK, IndicesAreGiven, Taken, Slot, ReadSlot

LEMMA PollStep ==
    ASSUME IInv, PollSlot \/ IoLoopEnds
    PROVE  IInv'
<1>1. /\ io = "poll" /\ io' \in {"print", "done"}
      /\ io' = "print" => readHead # writeHead /\ ready[ReadSlot]
      /\ io' = "done" => ~running /\ readHead = writeHead
      /\ UNCHANGED <<pc, idx, ready, buf, writeHead, readHead, out, running, gone, fault>>
  BY DEF PollSlot, IoLoopEnds, IoGoes, lifeVars
<1>2. IndicesAreGiven' /\ TypeOK' /\ TypeOK
  BY <1>1, IoKeepsProducers DEF IInv, TypeOK
<1>3. ReaderCounts'
  BY <1>1, <1>2 DEF IInv, ReaderCounts, HasLine, TypeOK
<1>4. fault # "collision" => SlotIsOwned' /\ ReadyIsFresh' /\ PrintedOnce'
  BY <1>1 DEF IInv, SlotIsOwned, ReadyIsFresh, PrintedOnce, JustPrinted, Printed, Writing, Slot,
              ReadSlot
<1> QED
  BY <1>1, <1>2, <1>3, <1>4 DEF IInv, InOrder

LEMMA PrintStep ==
    ASSUME IInv, PrintLine
    PROVE  IInv'
<1>0. PICK x \in Lines \cup {Torn} :
          out' = Append(out, x) /\ (fault # "collision" => x = buf[ReadSlot])
  BY IoKeepsProducers, SlotsAreSlots DEF PrintLine, IInv, TypeOK, Slots, ReadSlot
<1>1. /\ io = "print" /\ io' = "clear"
      /\ UNCHANGED <<pc, idx, ready, buf, writeHead, readHead, running, gone, fault>>
  BY DEF PrintLine, IoGoes, lifeVars
<1>2. /\ IndicesAreGiven' /\ ReadSlot \in Slots /\ ReadSlot' = ReadSlot
      /\ \A l \in Lines : Slot(l)' = Slot(l)
  BY <1>1, IoKeepsProducers DEF ReadSlot
<1>3. /\ out \in Seq(Lines \cup {Torn}) /\ Len(out) = readHead /\ readHead \in Nat
      /\ readHead < writeHead
  BY <1>1 DEF IInv, TypeOK, ReaderCounts, HasLine
<1>4. /\ out' \in Seq(Lines \cup {Torn}) /\ Len(out') = readHead + 1
      /\ \A i \in 1..readHead : out'[i] = out[i]
      /\ out'[readHead + 1] = x
      /\ DOMAIN out = 1..readHead /\ DOMAIN out' = 1..(readHead + 1)
  BY <1>0, <1>3
<1>5. TypeOK' /\ ReaderCounts'
  BY <1>1, <1>3, <1>4 DEF IInv, TypeOK, ReaderCounts, HasLine
<1>6. ASSUME fault # "collision" PROVE SlotIsOwned' /\ ReadyIsFresh' /\ PrintedOnce'
  <2>1. SlotIsOwned /\ ReadyIsFresh /\ PrintedOnce /\ x = buf[ReadSlot]
    BY <1>0, <1>6 DEF IInv
  <2>2. x \in Lines /\ pc[x] = "done" /\ Slot(x) = ReadSlot /\ x \notin Printed
    BY <1>1, <1>2, <2>1 DEF SlotIsOwned, ReadyIsFresh, JustPrinted
  <2>3. Printed' = Printed \cup {x}
    BY <1>3, <1>4 DEF Printed
  <2>4. SlotIsOwned'
    BY <1>1, <1>2, <2>1 DEF SlotIsOwned, Writing
  <2>5. ReadyIsFresh'
    BY <1>1, <1>2, <2>1, <2>2, <2>3 DEF ReadyIsFresh, JustPrinted
  <2>6. \A i \in 1..readHead : out[i] \in Printed
    BY <1>4 DEF Printed
  <2>7. readHead + 1 - 1 = readHead
    BY <1>3
  <2>8. \A i \in DOMAIN out' :
            out'[i] \in Lines /\ pc[out'[i]] = "done" /\ Slot(out'[i]) = (i - 1) % Cap
    <3> TAKE i \in DOMAIN out'
    <3>1. CASE i \in 1..readHead
      BY <1>4, <2>1, <3>1 DEF PrintedOnce
    <3>2. CASE i = readHead + 1
      <4>1. i - 1 = readHead /\ out'[i] = x
        BY <1>3, <1>4, <3>2
      <4> QED
        BY <2>2, <4>1 DEF ReadSlot
    <3> QED
      BY <1>3, <1>4, <3>1, <3>2
  <2>9. \A i, j \in DOMAIN out' : out'[i] = out'[j] => i = j
    <3> SUFFICES ASSUME NEW i \in 1..(readHead + 1), NEW j \in 1..(readHead + 1),
                        out'[i] = out'[j]
                 PROVE  i = j
      BY <1>4
    <3>1. CASE i \in 1..readHead /\ j \in 1..readHead
      BY <1>4, <2>1, <3>1 DEF PrintedOnce
    <3>2. CASE i = readHead + 1 \/ j = readHead + 1
      BY <1>3, <1>4, <2>2, <2>6, <3>2
    <3> QED
      BY <1>3, <3>1, <3>2
  <2>10. PrintedOnce'
    BY <1>1, <1>2, <2>8, <2>9 DEF PrintedOnce
  <2> QED
    BY <2>4, <2>5, <2>10
<1>7. ASSUME fault = "none" PROVE InOrder'
  <2>1. SlotIsOwned /\ ReadyIsFresh /\ InOrder /\ x = buf[ReadSlot]
    BY <1>0, <1>7 DEF IInv
  <2>2. x \in Lines /\ pc[x] = "done" /\ Slot(x) = ReadSlot /\ x \notin Printed
    BY <1>1, <1>2, <2>1 DEF SlotIsOwned, ReadyIsFresh, JustPrinted
  \* All indices before the reader's have been printed, so the line has its index.
  <2>3. idx[x] = readHead
    <3>1. idx[x] \in Nat /\ idx[x] < readHead + Cap
      <4>1. idx[x] \in Nat /\ idx[x] < writeHead
        BY <2>2 DEF IInv, TypeOK, IndicesAreGiven, Taken
      <4>2. writeHead \in Nat /\ writeHead <= readHead + Cap /\ Cap \in Nat
        BY <2>1, LoggerAssumption DEF IInv, TypeOK, InOrder
      <4> QED
        BY <1>3, <4>1, <4>2
    <3>2. ~(idx[x] < readHead)
      <4> SUFFICES ASSUME idx[x] < readHead PROVE FALSE
        OBVIOUS
      <4> DEFINE l == out[idx[x] + 1]
      <4>1. idx[x] + 1 \in DOMAIN out /\ idx[x] + 1 - 1 = idx[x]
        BY <1>3, <1>4, <3>1
      <4>2. l \in Printed /\ idx[l] = idx[x]
        <5>1. idx[l] = (idx[x] + 1) - 1
          BY <2>1, <4>1 DEF InOrder
        <5>2. idx[l] = idx[x]
          BY <3>1, <5>1
        <5> QED
          BY <4>1, <5>2 DEF Printed
      <4>3. l \in Taken /\ x \in Taken
        BY <1>7, <2>2, <4>1 DEF IInv, PrintedOnce, Taken
      <4> QED
        BY <2>2, <4>2, <4>3 DEF IInv, IndicesAreGiven
    <3>3. idx[x] % Cap = readHead % Cap
      BY <2>2 DEF Slot, ReadSlot
    <3> QED
      BY <1>3, <3>1, <3>2, <3>3, LapsApart, LoggerAssumption
  <2>4. \A i \in DOMAIN out' : idx[out'[i]] = i - 1
    BY <1>3, <1>4, <2>1, <2>3 DEF InOrder
  <2> QED
    BY <1>1, <2>1, <2>4 DEF InOrder
<1> QED
  BY <1>1, <1>2, <1>5, <1>6, <1>7 DEF IInv

LEMMA ClearStep ==
    ASSUME IInv, ClearReady
    PROVE  IInv'
<1>1. /\ io = "clear" /\ io' = "advance"
      /\ ready' = [ready EXCEPT ![ReadSlot] = FALSE]
      /\ UNCHANGED <<pc, idx, buf, writeHead, readHead, out, running, gone, fault>>
  BY DEF ClearReady, IoGoes, lifeVars
<1>2. IndicesAreGiven' /\ ReadSlot \in Slots /\ \A l \in Lines : Slot(l)' = Slot(l)
  BY <1>1, IoKeepsProducers
<1>3. \A i \in Slots : ready'[i] => ready[i] /\ i # ReadSlot
  BY <1>1, <1>2 DEF IInv, TypeOK, Slots
<1>4. TypeOK' /\ ReaderCounts'
  BY <1>1, <1>2 DEF IInv, TypeOK, ReaderCounts, HasLine, Slots
<1>5. ASSUME fault # "collision" PROVE SlotIsOwned' /\ ReadyIsFresh' /\ PrintedOnce'
  <2>1. SlotIsOwned /\ ReadyIsFresh /\ PrintedOnce
    BY <1>5 DEF IInv
  <2>2. \A l \in Lines : Slot(l) \in Slots
    BY SlotsAreSlots DEF IInv, TypeOK, Slot
  <2>3. SlotIsOwned'
    BY <1>1, <1>2, <1>3, <2>1, <2>2 DEF SlotIsOwned, Writing
  <2>4. ReadyIsFresh'
    BY <1>1, <1>2, <1>3, <2>1 DEF ReadyIsFresh, JustPrinted, Printed
  <2>5. PrintedOnce'
    BY <1>1, <1>2, <2>1 DEF PrintedOnce
  <2> QED
    BY <2>3, <2>4, <2>5
<1> QED
  BY <1>1, <1>2, <1>4, <1>5 DEF IInv, InOrder

LEMMA AdvanceStep ==
    ASSUME IInv, AdvanceReadHead
    PROVE  IInv'
<1>1. /\ io = "advance" /\ io' = "poll" /\ readHead' = readHead + 1
      /\ UNCHANGED <<pc, idx, ready, buf, writeHead, out, running, gone, fault>>
  BY DEF AdvanceReadHead, IoGoes, lifeVars
<1>2. IndicesAreGiven' /\ \A l \in Lines : Slot(l)' = Slot(l)
  BY <1>1, IoKeepsProducers
<1>3. TypeOK' /\ ReaderCounts'
  BY <1>1 DEF IInv, TypeOK, ReaderCounts, HasLine
<1>4. ASSUME fault # "collision" PROVE SlotIsOwned' /\ ReadyIsFresh' /\ PrintedOnce'
  BY <1>1, <1>2, <1>4
     DEF IInv, SlotIsOwned, Writing, ReadyIsFresh, JustPrinted, Printed, PrintedOnce
<1>5. InOrder => InOrder'
  BY <1>1, LoggerAssumption DEF IInv, TypeOK, InOrder
<1> QED
  BY <1>1, <1>2, <1>3, <1>4, <1>5 DEF IInv

-----------------------------------------------------------------------------

LEMMA LifeStep ==
    ASSUME IInv, Stop \/ Joined
    PROVE  IInv'
<1>1. UNCHANGED <<pc, idx, ready, buf, writeHead, readHead, io, out, fault>>
  BY DEF Stop, Joined, ioVars
<1>2. IndicesAreGiven'
  BY <1>1, IoKeepsProducers
<1>3. TypeOK' /\ ReaderCounts'
  <2>1. CASE Stop
    <3>1. running' = FALSE /\ (gone' <=> gone) /\ gone' \in BOOLEAN
      BY <2>1 DEF Stop, IInv, TypeOK
    <3> QED
      BY <1>1, <3>1 DEF IInv, TypeOK, ReaderCounts, HasLine
  <2>2. CASE Joined
    <3>1. running' = running /\ gone' = TRUE /\ io = "done"
      BY <2>2 DEF Joined
    <3> QED
      BY <1>1, <3>1 DEF IInv, TypeOK, ReaderCounts, HasLine
  <2> QED
    BY <2>1, <2>2
<1> QED
  BY <1>1, <1>2, <1>3
     DEF IInv, SlotIsOwned, Writing, ReadyIsFresh, JustPrinted, Printed, PrintedOnce, InOrder,
         Slot, ReadSlot

LEMMA StepKeepsInv == IInv /\ [Next]_vars => IInv'
<1> SUFFICES ASSUME IInv, [Next]_vars PROVE IInv'
  OBVIOUS
<1>1. CASE UNCHANGED vars
  BY <1>1
     DEF vars, ioVars, lifeVars, IInv, TypeOK, IndicesAreGiven, Taken, ReaderCounts, HasLine,
         SlotIsOwned, Writing, ReadyIsFresh, JustPrinted, Printed, PrintedOnce, InOrder, Slot,
         ReadSlot
<1>2. ASSUME NEW l \in Lines, TakeIndex(l) \/ PushStep(l) PROVE IInv'
  BY <1>2, TakeIndexStep, WaitStep, WriteStep, SetReadyStep DEF PushStep
<1>3. CASE IoStep
  BY <1>3, PollStep, PrintStep, ClearStep, AdvanceStep DEF IoStep
<1>4. CASE Stop \/ Joined
  BY <1>4, LifeStep
<1> QED
  BY <1>1, <1>2, <1>3, <1>4 DEF Next

THEOREM Invariance == Spec => []IInv
<1>1. Init => IInv
  BY Initially
<1>2. IInv /\ [Next]_vars => IInv'
  BY StepKeepsInv
<1> QED
  BY <1>1, <1>2, PTL DEF Spec

\* The logger is well typed; the reader never passes the writers.
THEOREM TypeCorrect == Spec => []TypeOK
<1>1. IInv => TypeOK
  BY DEF IInv
<1> QED
  BY <1>1, Invariance, PTL

\* As many lines are in the output as were printed, when none is there twice.
LEMMA OutputIsCounted ==
    ASSUME IInv, PrintedOnce
    PROVE  IsFiniteSet(Printed) /\ Cardinality(Printed) = Len(out)
<1>1. /\ Len(out) \in Nat /\ DOMAIN out = 1..Len(out)
  BY DEF IInv, TypeOK
<1> DEFINE D == 1..Len(out)
           f == [i \in D |-> out[i]]
<1>2. IsFiniteSet(D) /\ Cardinality(D) = Len(out)
  <2>1. IsFiniteSet(1..Len(out))
        /\ Cardinality(1..Len(out)) = IF 1 > Len(out) THEN 0 ELSE Len(out) - 1 + 1
    BY <1>1, FS_Interval
  <2> QED
    BY <1>1, <2>1
<1>3. f \in Surjection(D, Printed) /\ f \in Injection(D, Printed)
  BY <1>1 DEF Printed, Surjection, Injection, IsInjective, PrintedOnce
<1> QED
  BY <1>2, <1>3, FS_Surjection

\* What is printed is what was logged: in order until a producer is a lap ahead of the
\* reader, and whole, once and completely until producers meet in a slot.
THEOREM FaithfulOutput == Spec => []OutputIsFaithful
<1>1. IInv => OutputIsFaithful
  <2> SUFFICES ASSUME IInv PROVE OutputIsFaithful
    OBVIOUS
  <2>1. ASSUME fault = "none", NEW i \in DOMAIN out
        PROVE  out[i] \in Taken /\ idx[out[i]] = i - 1
    BY <2>1 DEF IInv, PrintedOnce, InOrder, Taken
  <2>2. ASSUME fault # "collision"
        PROVE  /\ Printed \subseteq Taken /\ Cardinality(Printed) = Len(out)
               /\ \A i \in DOMAIN out : Slot(out[i]) = (i - 1) % Cap
               /\ gone => Printed = Taken
    <3>1. PrintedOnce
      BY <2>2 DEF IInv
    <3>2. Printed \subseteq Taken
      BY <3>1 DEF PrintedOnce, Printed, Taken
    <3>3. IsFiniteSet(Printed) /\ Cardinality(Printed) = Len(out)
      BY <3>1, OutputIsCounted
    <3>4. ASSUME gone PROVE Printed = Taken
      <4>1. Len(out) = writeHead
        BY <3>4 DEF IInv, TypeOK, ReaderCounts
      <4>2. IsFiniteSet(Taken) /\ Cardinality(Taken) = Cardinality(Printed)
        BY <3>3, <4>1 DEF IInv, IndicesAreGiven
      <4> QED
        BY <3>2, <4>2, FS_Subset
    <3> QED
      BY <3>1, <3>2, <3>3, <3>4 DEF PrintedOnce
  <2> QED
    BY <2>1, <2>2 DEF OutputIsFaithful
<1> QED
  BY <1>1, Invariance, PTL

==============================================================================
