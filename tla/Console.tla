------------------------------- MODULE Console -------------------------------
(***************************************************************************)
(* Console input and output: the ring buffers of _buffer.cpp, getc() and   *)
(* putc(), the console interrupt and the output thread of io.cpp.          *)
(*                                                                         *)
(* getc(), putc() and the interrupt run in a trap, with interrupts         *)
(* disabled, and are one step each.  The output thread is not in a trap:   *)
(* kDispatch() gives back the sstatus it was called with, so this thread   *)
(* runs for good with the SIE bit of whoever switched to it first, which   *)
(* is set if that was the boot thread and clear if it was a trap.  Its     *)
(* wait() is therefore broken into the steps that a trap can come between. *)
(*                                                                         *)
(* The ready queue is left out: any thread that can go on may be next.     *)
(* mutexHead is too: it is taken and given back in one step.               *)
(***************************************************************************)
EXTENDS Integers, Sequences, FiniteSets, Functions

CONSTANTS
    Threads,    \* application threads
    OThread,    \* the output thread
    Chars,
    Nothing,    \* no character yet
    InCap,      \* _cap of _buf::ib, 256 in the code
    OutCap,     \* _cap of _buf::ob, 4096 in the code
    SIEs        \* the SIE bits the output thread may have

ASSUME ConsoleAssumption ==
    /\ OThread \notin Threads
    /\ Nothing \notin Chars
    /\ Chars # {}
    /\ InCap \in Nat \ {0}
    /\ OutCap \in Nat \ {0}
    /\ SIEs \subseteq BOOLEAN

Buffers == {"ib", "ob"}
Cap(b) == IF b = "ib" THEN InCap ELSE OutCap

VARIABLES
    buffer, head, tail,     \* of _buf::ib and _buf::ob
    value,                  \* itemAvailable->value
    blocked,                \* itemAvailable->blockedQueue
    last,                   \* what the last get() of each buffer returned
    inGetc,                 \* the threads suspended in a getc()
    oPc,                    \* where the output thread is
    oReg,                   \* the register in which it lowers value
    oSIE,                   \* whether it can be interrupted
    oThreadStop

bufs == <<buffer, head, tail, value, blocked, last>>
othread == <<oPc, oReg, oSIE>>
vars == <<bufs, inGetc, othread, oThreadStop>>

TypeOK ==
    /\ DOMAIN buffer = Buffers
    /\ head \in [Buffers -> Nat]
    /\ tail \in [Buffers -> Nat]
    /\ value \in [Buffers -> Int]
    /\ blocked \in [Buffers -> Seq(Threads \union {OThread})]
    /\ last \in [Buffers -> Chars \union {Nothing}]
    /\ \A b \in Buffers :
          /\ buffer[b] \in [0..(Cap(b) - 1) -> Chars]
          /\ head[b] \in 0..(Cap(b) - 1)
          /\ tail[b] \in 0..(Cap(b) - 1)
    /\ inGetc \in SUBSET Threads
    /\ oPc \in {"look", "away", "load", "store", "block", "wait", "take", "done"}
    /\ oReg \in Int
    /\ oSIE \in BOOLEAN
    /\ oThreadStop \in BOOLEAN

\* initBuffers().  What a fresh buffer holds is never read, so that any contents do.
AnyChar == CHOOSE c \in Chars : TRUE
Init ==
    /\ buffer = [b \in Buffers |-> [i \in 0..(Cap(b) - 1) |-> AnyChar]]
    /\ head = [b \in Buffers |-> 0]
    /\ tail = [b \in Buffers |-> 0]
    /\ value = [b \in Buffers |-> 0]
    /\ blocked = [b \in Buffers |-> <<>>]
    /\ last = [b \in Buffers |-> Nothing]
    /\ inGetc = {}
    /\ oPc = "look"
    /\ oReg = 0
    /\ oSIE \in SIEs
    /\ oThreadStop = FALSE

-----------------------------------------------------------------------------
\* The buffers.

Cnt(b) == ((tail[b] + Cap(b)) - head[b]) % Cap(b)

\* The place after place i.
FollowingUnwrapped(b, i) == i + 1
Following(b, i) == (i + 1) % Cap(b)

NeverFull(b) == FALSE
Full(b) == Following(b, tail[b]) = head[b]

\* A character is stored and signalled; if there is no room it is dropped.
PutIfNotFull(b, c) ==
    /\ IF Full(b)
       THEN UNCHANGED <<buffer, tail, value, blocked>>
       ELSE /\ buffer' = [buffer EXCEPT ![b][tail[b]] = c]
            /\ tail' = [tail EXCEPT ![b] = Following(b, @)]
            /\ value' = [value EXCEPT ![b] = @ + 1]
            /\ blocked' = [blocked EXCEPT ![b] = IF @ = <<>> THEN @ ELSE Tail(@)]
    /\ UNCHANGED <<head, last>>

\* The second half of get(), after itemAvailable->wait() has returned.
TakeLast(b) ==
    /\ last' = [last EXCEPT ![b] = buffer[b][(tail[b] + Cap(b) - 1) % Cap(b)]]
    /\ head' = [head EXCEPT ![b] = Following(b, @)]
Take(b) ==
    /\ last' = [last EXCEPT ![b] = buffer[b][head[b]]]
    /\ head' = [head EXCEPT ![b] = Following(b, @)]

-----------------------------------------------------------------------------
\* Traps.

\* A trap can come: the output thread lets it, or is not the running thread.
Interruptible == oSIE \/ oPc \in {"away", "wait", "done"}

\* The console interrupt reads a character from the controller.
Input(c) ==
    /\ Interruptible
    /\ PutIfNotFull("ib", c)
    /\ UNCHANGED <<inGetc, othread, oThreadStop>>

\* 0x42.
Putc(c) ==
    /\ Interruptible
    /\ inGetc # Threads
    /\ PutIfNotFull("ob", c)
    /\ UNCHANGED <<inGetc, othread, oThreadStop>>

BlocksAtZero(v) == v <= 0
Blocks(v) == v < 0

\* 0x41, up to its end or until the thread blocks in itemAvailable->wait().
Getc(t) ==
    /\ Interruptible
    /\ t \notin inGetc
    /\ value' = [value EXCEPT !["ib"] = @ - 1]
    /\ IF Blocks(value'["ib"])
       THEN /\ blocked' = [blocked EXCEPT !["ib"] = Append(@, t)]
            /\ inGetc' = inGetc \union {t}
            /\ UNCHANGED <<last, head>>
       ELSE /\ Take("ib")
            /\ UNCHANGED <<blocked, inGetc>>
    /\ UNCHANGED <<buffer, tail, othread, oThreadStop>>

\* A thread that was made ready runs again and ends its getc().
Woken == {t \in inGetc : t \notin Range(blocked["ib"])}
GetcEnds(t) ==
    /\ Interruptible
    /\ t \in Woken
    /\ Take("ib")
    /\ inGetc' = inGetc \ {t}
    /\ UNCHANGED <<buffer, tail, value, blocked, othread, oThreadStop>>

\* The boot thread has seen that the user thread finished.
Stop ==
    /\ Interruptible
    /\ ~oThreadStop
    /\ oThreadStop' = TRUE
    /\ UNCHANGED <<bufs, inGetc, othread>>

-----------------------------------------------------------------------------
\* OThreadBody().

\* It sends while there are characters, ends if it shall, else calls kDispatch().
EndsAtStop == oThreadStop
EndsWhenSent == oThreadStop /\ Cnt("ob") = 0

OLook ==
    /\ oPc \in {"look", "away"}
    /\ oPc' = IF EndsWhenSent THEN "done" ELSE IF Cnt("ob") > 0 THEN "load" ELSE "away"
    /\ UNCHANGED <<bufs, inGetc, oReg, oSIE, oThreadStop>>

\* value -= 1 in itemAvailable->wait(): a load and a store.
OLoad ==
    /\ oPc = "load"
    /\ oReg' = value["ob"]
    /\ oPc' = "store"
    /\ UNCHANGED <<bufs, inGetc, oSIE, oThreadStop>>

OStore ==
    /\ oPc = "store"
    /\ value' = [value EXCEPT !["ob"] = oReg - 1]
    /\ oPc' = IF Blocks(oReg - 1) THEN "block" ELSE "take"
    /\ oReg' = 0
    /\ UNCHANGED <<buffer, head, tail, blocked, last, inGetc, oSIE, oThreadStop>>

OBlock ==
    /\ oPc = "block"
    /\ blocked' = [blocked EXCEPT !["ob"] = Append(@, OThread)]
    /\ oPc' = "wait"
    /\ UNCHANGED <<buffer, head, tail, value, last, inGetc, oReg, oSIE, oThreadStop>>

OWake ==
    /\ oPc = "wait"
    /\ OThread \notin Range(blocked["ob"])
    /\ oPc' = "take"
    /\ UNCHANGED <<bufs, inGetc, oReg, oSIE, oThreadStop>>

\* The rest of get(), and the store to CONSOLE_TX_DATA.
OTake ==
    /\ oPc = "take"
    /\ Take("ob")
    /\ oPc' = "look"
    /\ UNCHANGED <<buffer, tail, value, blocked, inGetc, oReg, oSIE, oThreadStop>>

OStep == OLook \/ OLoad \/ OStore \/ OBlock \/ OWake \/ OTake

Next ==
    \/ \E c \in Chars : Input(c) \/ Putc(c)
    \/ \E t \in Threads : Getc(t) \/ GetcEnds(t)
    \/ Stop
    \/ OStep

\* Round robin gives the output thread the processor again and again.
Spec == Init /\ [][Next]_vars /\ WF_vars(OStep)

-----------------------------------------------------------------------------
\* Safety.

\* The permits of a semaphore, as a number of characters.
Permits(b) == IF value[b] > 0 THEN value[b] ELSE 0

\* Every character in the input buffer is either free to take or kept for a
\* thread that was woken for it, through any order of interrupts, getc() calls
\* and wake-ups: no thread waits while a character is free, and none that goes
\* on finds the buffer empty.  A call that comes in before a woken thread runs
\* may take the character at the head, but then one is left for that thread.
InputIsAccounted ==
    /\ Cnt("ib") = Permits("ib") + Cardinality(Woken)
    /\ Len(blocked["ib"]) = IF value["ib"] < 0 THEN -value["ib"] ELSE 0

\* The output thread never sends a character that is not in the buffer, not
\* even if a trap came between the load and the store of its wait().
SendsWhatIsThere ==
    \/ oPc = "take"
    \/ oPc = "wait" /\ OThread \notin Range(blocked["ob"])
    => Cnt("ob") > 0

\* Whenever the output thread is between two characters the semaphore counts
\* the characters it has to send: no signal is lost.  wait() rests on this, as
\* its comment says that interrupts are disabled; the code breaks it, for the
\* output thread calls wait() outside a trap.
OutputIsAccounted == oPc \in {"look", "away"} => value["ob"] = Cnt("ob")

Contents(b) == [i \in 1..Cnt(b) |-> buffer[b][(head[b] + i - 1) % Cap(b)]]

InFifo == INSTANCE Fifo WITH
              queue <- Contents("ib"), last <- last["ib"], Capacity <- InCap - 1
OutFifo == INSTANCE Fifo WITH
              queue <- Contents("ob"), last <- last["ob"], Capacity <- OutCap - 1

\* The ring buffers lose, repeat and reorder nothing that they accepted, also
\* when the output thread is interrupted anywhere in its get().
BuffersAreFifos == InFifo!Spec /\ OutFifo!Spec

-----------------------------------------------------------------------------
\* Liveness.

\* What was accepted for output is sent before the output thread ends, if it
\* runs with interrupts disabled, also when the kernel is being shut down.
AcceptedOutputIsSent == ~oSIE /\ oPc # "done" /\ Cnt("ob") > 0 ~> Cnt("ob") = 0

\* It then ends at shutdown, as the boot thread expects, whatever was written.
OutputThreadEnds == ~oSIE /\ oThreadStop ~> oPc = "done"

\* The output thread hangs in the wait() of its get() because a signal was lost:
\* value has fallen behind the characters that are there.
HeldByLostSignal ==
    oPc = "wait" /\ OThread \in Range(blocked["ob"]) /\ value["ob"] < Cnt("ob") - 1

\* An output thread of either kind, if the threads sooner or later stop writing,
\* ends at shutdown as well, with one exception: a signal was lost between the
\* steps of its wait().  Then nobody is left to wake it and the boot thread waits
\* for it in its second loop for ever.
EndsUnlessSignalLost ==
    <>[][tail'["ob"] = tail["ob"]]_vars =>
        (oThreadStop ~> (oPc = "done" \/ []HeldByLostSignal))

==============================================================================
