----------------------------- MODULE AsyncLogger -----------------------------
(***************************************************************************)
(* The ring of src/util/async_logger.h: a producer takes an index with one *)
(* fetch_add, waits until the slot of that index is not ready, writes the  *)
(* line and sets the slot ready; one I/O thread prints the slots in index  *)
(* order.                                                                  *)
(*                                                                         *)
(* Nothing keeps two producers a lap apart from waiting for one slot: both *)
(* may see it not ready and write into it at once.  What a slot then holds *)
(* is any mixture, here Torn.  The variable fault is a history of how far  *)
(* it has come to that; the code has no such variable.                     *)
(*                                                                         *)
(* A line is pushed by a thread of its own and stands for that thread.     *)
(***************************************************************************)
EXTENDS Naturals, Sequences, FiniteSets

CONSTANTS
    Lines,           \* lines that may be logged
    Cap              \* slots of the ring

Torn == "torn"

ASSUME LoggerAssumption == Cap \in Nat \ {0} /\ Torn \notin Lines

VARIABLES
    pc,              \* Lines -> the next step of push_impl
    idx,             \* Lines -> the index taken
    ready,           \* 0..Cap-1 -> the slot holds a line to print
    buf,             \* 0..Cap-1 -> what the slot holds
    writeHead, readHead,
    io,              \* the next step of the I/O thread
    out,             \* what it has printed
    running, gone,   \* gone: the destructor has returned
    fault            \* "none", "overrun" or "collision"

ioVars == <<readHead, io, out>>

lifeVars == <<running, gone>>

vars == <<pc, idx, ready, buf, writeHead, ioVars, lifeVars, fault>>

TypeOK ==
    /\ pc \in [Lines -> {"new", "wait", "write", "mark", "done"}]
    /\ idx \in [Lines -> Nat]
    /\ ready \in [0..Cap-1 -> BOOLEAN]
    /\ buf \in [0..Cap-1 -> Lines \cup {Torn}]
    /\ writeHead \in Nat /\ readHead \in Nat /\ readHead <= writeHead
    /\ io \in {"poll", "print", "clear", "advance", "done"}
    /\ out \in Seq(Lines \cup {Torn})
    /\ running \in BOOLEAN /\ gone \in BOOLEAN
    /\ fault \in {"none", "overrun", "collision"}

Init ==
    /\ pc = [l \in Lines |-> "new"]
    /\ idx = [l \in Lines |-> 0]
    /\ ready = [i \in 0..Cap-1 |-> FALSE]
    /\ buf = [i \in 0..Cap-1 |-> Torn]
    /\ writeHead = 0 /\ readHead = 0
    /\ io = "poll" /\ out = <<>>
    /\ running = TRUE /\ gone = FALSE
    /\ fault = "none"

Slot(l) == idx[l] % Cap

Goes(l, from, to) == pc[l] = from /\ pc' = [pc EXCEPT ![l] = to]

-----------------------------------------------------------------------------
(* push_impl.                                                              *)

TakeIndexLeaving(l, next) ==
    /\ running
    /\ Goes(l, "new", "wait")
    /\ idx' = [idx EXCEPT ![l] = writeHead]
    /\ writeHead' = next
    /\ fault' = IF fault = "none" /\ writeHead >= readHead + Cap THEN "overrun" ELSE fault
    /\ UNCHANGED <<ready, buf, ioVars, lifeVars>>

\* Mutant of TakeIndex: the head wraps.
TakeIndexWrapping(l) == TakeIndexLeaving(l, (writeHead + 1) % (Cap + 1))

\* Nobody logs to a logger that is being destroyed.
TakeIndex(l) == TakeIndexLeaving(l, writeHead + 1)

Rivals(l) == {k \in Lines \ {l} : Slot(k) = Slot(l) /\ pc[k] \in {"write", "mark"}}

EnterSlot(l) ==
    /\ Goes(l, "wait", "write")
    /\ fault' = IF Rivals(l) # {} THEN "collision" ELSE fault
    /\ UNCHANGED <<idx, ready, buf, writeHead, ioVars, lifeVars>>

WaitForSlot(l) == ~ready[Slot(l)] /\ EnterSlot(l)

WriteLine(l) ==
    /\ Goes(l, "write", "mark")
    /\ \E x \in {l} \cup IF fault = "collision" THEN {buf[Slot(l)], Torn} ELSE {} :
           buf' = [buf EXCEPT ![Slot(l)] = x]
    /\ UNCHANGED <<idx, ready, writeHead, ioVars, lifeVars, fault>>

SetReady(l) ==
    /\ Goes(l, "mark", "done")
    /\ ready' = [ready EXCEPT ![Slot(l)] = TRUE]
    /\ UNCHANGED <<idx, buf, writeHead, ioVars, lifeVars, fault>>

-----------------------------------------------------------------------------
(* io_loop.  Its turns that find nothing to do change nothing.             *)

IoGoes(from, to) == io = from /\ io' = to

ReadSlot == readHead % Cap

PollSlot ==
    /\ IoGoes("poll", "print")
    /\ readHead # writeHead
    /\ ready[ReadSlot]
    /\ UNCHANGED <<pc, idx, ready, buf, writeHead, readHead, out, lifeVars, fault>>

PrintLine ==
    /\ IoGoes("print", "clear")
    /\ \E x \in {buf[ReadSlot]} \cup IF fault = "collision" THEN {Torn} ELSE {} :
           out' = Append(out, x)
    /\ UNCHANGED <<pc, idx, ready, buf, writeHead, readHead, lifeVars, fault>>

\* Mutant of ClearReady: the slot stays ready.
LeaveReady ==
    /\ IoGoes("clear", "advance")
    /\ UNCHANGED <<pc, idx, ready, buf, writeHead, readHead, out, lifeVars, fault>>

ClearReady ==
    /\ IoGoes("clear", "advance")
    /\ ready' = [ready EXCEPT ![ReadSlot] = FALSE]
    /\ UNCHANGED <<pc, idx, buf, writeHead, readHead, out, lifeVars, fault>>

AdvanceReadHead ==
    /\ IoGoes("advance", "poll")
    /\ readHead' = readHead + 1
    /\ UNCHANGED <<pc, idx, ready, buf, writeHead, out, lifeVars, fault>>

\* Mutant of IoLoopEnds: the thread leaves as soon as running_ is false.
IoLoopEndsAtOnce ==
    /\ IoGoes("poll", "done")
    /\ ~running
    /\ UNCHANGED <<pc, idx, ready, buf, writeHead, readHead, out, lifeVars, fault>>

IoLoopEnds ==
    /\ IoGoes("poll", "done")
    /\ ~running /\ readHead = writeHead
    /\ UNCHANGED <<pc, idx, ready, buf, writeHead, readHead, out, lifeVars, fault>>

Stop ==
    /\ running /\ running' = FALSE
    /\ UNCHANGED <<pc, idx, ready, buf, writeHead, ioVars, gone, fault>>

Joined ==
    /\ ~running /\ io = "done" /\ ~gone
    /\ gone' = TRUE
    /\ UNCHANGED <<pc, idx, ready, buf, writeHead, ioVars, running, fault>>

-----------------------------------------------------------------------------

PushStep(l) == WaitForSlot(l) \/ WriteLine(l) \/ SetReady(l)

IoStep == PollSlot \/ PrintLine \/ ClearReady \/ AdvanceReadHead \/ IoLoopEnds

Next == (\E l \in Lines : TakeIndex(l) \/ PushStep(l)) \/ IoStep \/ Stop \/ Joined

Spec == Init /\ [][Next]_vars

\* Threads are scheduled; a producer that spins on a slot may be overtaken, and
\* since lines are finite in number it is not overtaken for ever.
FairSpec == Spec /\ (\A l \in Lines : SF_vars(PushStep(l))) /\ WF_vars(IoStep) /\ WF_vars(Joined)

-----------------------------------------------------------------------------
(* What is checked.                                                        *)

Taken == {l \in Lines : pc[l] # "new"}

Printed == {out[i] : i \in DOMAIN out}

\* As long as no producer takes an index a lap ahead of the reader, the lines are
\* printed whole and in the order of their indices.  An overrun alone may swap two
\* lines of one slot.  Only producers that meet in a slot, which takes an overrun,
\* can make a line go missing or be printed twice or torn, and unless they do, every
\* line that was begun has been printed when the logger is gone.
OutputIsFaithful ==
    /\ fault = "none" => \A i \in DOMAIN out : out[i] \in Taken /\ idx[out[i]] = i - 1
    /\ fault # "collision" =>
           /\ Printed \subseteq Taken /\ Cardinality(Printed) = Len(out)
           /\ \A i \in DOMAIN out : Slot(out[i]) = (i - 1) % Cap
           /\ gone => Printed = Taken

\* Every line begun is printed in the end, unless producers met in a slot: from then
\* on a producer, and the destructor with it, may wait for ever.
LinesArePrinted ==
    \A l \in Lines : pc[l] = "wait" ~> (l \in Printed \/ fault = "collision")

=============================================================================
