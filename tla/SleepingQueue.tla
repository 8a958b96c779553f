---------------------------- MODULE SleepingQueue ----------------------------
(***************************************************************************)
(* The list of sleeping threads of scheduler.cpp, as a data structure.     *)
(*                                                                         *)
(* A list is a sequence of entries [tcb |-> thread, delta |-> ticks]; delta *)
(* is TCB::timeUntilUnsleep and counts from the wake-up of the entry       *)
(* before it, so that a timer tick touches the head only.  The operators   *)
(* here are the list part of SleepingQueue::put and ::decrement; Kernel    *)
(* calls them from its actions.                                            *)
(***************************************************************************)
EXTENDS Integers, Sequences

\* Due(q)[i]: ticks until entry i wakes up, the sum of the deltas up to i.
\* The walk of put() computes it in "remaining" = ticks - Due(q)[pos].
Due(q) ==
    LET due[i \in 0..Len(q)] == IF i = 0 THEN 0 ELSE due[i-1] + q[i].delta
    IN  due

\* The walk of put() stops behind entry pos: it passed every entry with
\* remaining >= delta, and the next one, if any, has remaining < delta.
WalkStopsAt(q, ticks, pos) ==
    /\ \A i \in 1..pos : Due(q)[i] <= ticks
    /\ pos < Len(q) => ticks < Due(q)[pos+1]

\* Take n ticks off the delta of the first entry, if there is one.
LowerFirst(q, n) == IF q = <<>> THEN q ELSE [q EXCEPT ![1].delta = @ - n]

InsertWithoutLowering(q, t, ticks, pos) ==
    SubSeq(q, 1, pos)
      \o <<[tcb |-> t, delta |-> ticks - Due(q)[pos]]>>
      \o SubSeq(q, pos + 1, Len(q))

\* insertAt(pos, t) with what is left of ticks, taken off the follower.
InsertSleeper(q, t, ticks, pos) ==
    LET remaining == ticks - Due(q)[pos]
    IN  SubSeq(q, 1, pos)
          \o <<[tcb |-> t, delta |-> remaining]>>
          \o LowerFirst(SubSeq(q, pos + 1, Len(q)), remaining)

\* decrement() removes n entries: all the heads with delta <= 0 and no more.
WakesExactly(q, n) ==
    /\ \A i \in 1..n : q[i].delta <= 0
    /\ n < Len(q) => q[n+1].delta > 0

\* The threads of a list, in list order.
SleeperSeq(q) == [i \in 1..Len(q) |-> q[i].tcb]

==============================================================================
