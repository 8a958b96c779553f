----------------------------- MODULE SleepClock -----------------------------
(***************************************************************************)
(* What time_sleep() promises, with no list and no deltas: every sleeping  *)
(* thread has its own count of ticks, every tick of the timer counts for   *)
(* every one of them, and the tick that ends a count wakes that thread.  A *)
(* sleep of 0 ticks ends, like one of 1, with the next tick.               *)
(***************************************************************************)
EXTENDS Integers

CONSTANTS Threads, Ticks

VARIABLE remaining      \* the sleeping threads, with the ticks still to come

TypeOK == \E S \in SUBSET Threads : remaining \in [S -> Int]

Init == remaining = [t \in {} |-> 0]

Sleep(t, ticks) ==
    /\ t \notin DOMAIN remaining
    /\ remaining' = [u \in DOMAIN remaining \union {t} |->
                        IF u = t THEN ticks ELSE remaining[u]]

Tick ==
    remaining' = [u \in {v \in DOMAIN remaining : remaining[v] > 1} |-> remaining[u] - 1]

Next == Tick \/ \E t \in Threads, ticks \in Ticks : Sleep(t, ticks)

Spec == Init /\ [][Next]_remaining

=============================================================================
