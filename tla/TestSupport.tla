----------------------------- MODULE TestSupport -----------------------------
(***************************************************************************)
(* What the phases of altUserMain() share: the flag of failed checks, the  *)
(* system calls on semaphores (the handlers of Kernel) and ring buffers.   *)
(*                                                                         *)
(* A thread that waits goes on to its next position at once and is held    *)
(* there for as long as it is in the queue of the semaphore.               *)
(***************************************************************************)
EXTENDS Integers, Sequences, Functions, FiniteSets

VARIABLE errorFlag

check(cond) == errorFlag' = IF cond THEN errorFlag ELSE 1

sem_open(initial) == [value |-> initial, blocked |-> <<>>]

BlocksLate(value) == value < -1
Blocks(value) == value < 0
sem_wait(sems, s, t) ==
    LET value == sems[s].value - 1
    IN  [sems EXCEPT ![s] =
            [value |-> value,
             blocked |-> IF Blocks(value) THEN Append(@.blocked, t) ELSE @.blocked]]

sem_signal(sems, s) ==
    [sems EXCEPT ![s] =
        [value |-> @.value + 1,
         blocked |-> IF @.blocked = <<>> THEN <<>> ELSE Tail(@.blocked)]]

\* All semaphores of a phase are taken to be closed at the first sem_close().
sem_close(sems) == [s \in DOMAIN sems |-> [sems[s] EXCEPT !.blocked = <<>>]]

IsBlocked(sems, t) == \E s \in DOMAIN sems : t \in Range(sems[s].blocked)

-----------------------------------------------------------------------------
\* A ring buffer: an item and the move of its end are two accesses.

EmptyRing(cap) == [buf |-> [i \in 0..(cap - 1) |-> 0], head |-> 0, tail |-> 0]

FollowingUnwrapped(i, cap) == i + 1
Following(i, cap) == (i + 1) % cap

Stored(ring, val) == [ring EXCEPT !.buf[ring.tail] = val]
TailMoved(ring, cap) == [ring EXCEPT !.tail = Following(@, cap)]
Oldest(ring) == ring.buf[ring.head]
HeadMoved(ring, cap) == [ring EXCEPT !.head = Following(@, cap)]

\* The n items in a ring, oldest first; the head is still to be moved if the
\* oldest item was taken already.
Contents(ring, cap, n, taken) ==
    LET first == IF taken THEN Following(ring.head, cap) ELSE ring.head
    IN  [i \in 1..n |-> ring.buf[(first + i - 1) % cap]]

One(cond) == IF cond THEN 1 ELSE 0

Rings(cap) ==
    [buf : [0..(cap - 1) -> Int], head : 0..(cap - 1), tail : 0..(cap - 1)]
SemsType(sems, names, threads) ==
    sems \in [names -> [value : Int, blocked : Seq(threads)]]

==============================================================================
