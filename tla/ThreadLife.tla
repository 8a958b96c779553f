----------------------------- MODULE ThreadLife -----------------------------
(***************************************************************************)
(* What the kernel promises to threads, with no queues: a thread is in one *)
(* state at a time, exactly one runs, and a semaphore is a count of        *)
(* permits and a set of waiters.  Which ready thread comes next and which  *)
(* waiter a signal frees is left open here.                                *)
(***************************************************************************)
EXTENDS Integers

CONSTANTS Threads, First, Started, Sems, Nobody, InitPermits

VARIABLES
    status,     \* the state of every thread
    permits,    \* the waits a semaphore will let pass
    waitsFor    \* the semaphore a blocked thread waits for

vars == <<status, permits, waitsFor>>

States == {"new", "ready", "running", "sleeping", "blocked", "finished"}

Init ==
    /\ status = [t \in Threads |-> IF t = First THEN "running"
                                   ELSE IF t \in Started THEN "ready" ELSE "new"]
    /\ permits = [s \in Sems |-> 0]
    /\ waitsFor = [t \in Threads |-> Nobody]

Waiters(s) == {t \in Threads : status[t] = "blocked" /\ waitsFor[t] = s}

\* The processor goes from the running thread t, which enters state st, to a
\* thread that is ready once the sleepers of set W have been woken.
Give(t, st, W) ==
    LET left == [u \in Threads |-> IF u = t THEN st
                                   ELSE IF u \in W THEN "ready" ELSE status[u]]
    IN  status' \in {[left EXCEPT ![u] = "running"] : u \in {v \in Threads : left[v] = "ready"}}

\* What the running thread t may do.
Create(t, new) ==
    /\ status[new] = "new"
    /\ status' = [status EXCEPT ![new] = "ready"]
    /\ UNCHANGED <<permits, waitsFor>>

Yield(t) ==
    /\ Give(t, "ready", {})
    /\ UNCHANGED <<permits, waitsFor>>

Exit(t) ==
    /\ Give(t, "finished", {})
    /\ UNCHANGED <<permits, waitsFor>>

Sleep(t) ==
    /\ Give(t, "sleeping", {})
    /\ UNCHANGED <<permits, waitsFor>>

Sleeping == {u \in Threads : status[u] = "sleeping"}

\* The timer wakes the sleepers in W and may pass the processor on.
Tick(t, W) ==
    /\ \/ status' = [u \in Threads |-> IF u \in W THEN "ready" ELSE status[u]]
       \/ Give(t, "ready", W)
    /\ UNCHANGED <<permits, waitsFor>>

Open(s, n) ==
    /\ Waiters(s) = {}
    /\ permits' = [permits EXCEPT ![s] = n]
    /\ UNCHANGED <<status, waitsFor>>

Close(s) ==
    /\ status' = [t \in Threads |-> IF t \in Waiters(s) THEN "ready" ELSE status[t]]
    /\ waitsFor' = [t \in Threads |-> IF t \in Waiters(s) THEN Nobody ELSE waitsFor[t]]
    /\ permits' = [permits EXCEPT ![s] = 0]

Pass(t, s) ==
    /\ permits[s] > 0
    /\ permits' = [permits EXCEPT ![s] = @ - 1]
    /\ UNCHANGED <<status, waitsFor>>

Block(t, s) ==
    /\ permits[s] = 0
    /\ Give(t, "blocked", {})
    /\ waitsFor' = [waitsFor EXCEPT ![t] = s]
    /\ UNCHANGED permits

Signal(s) ==
    /\ Waiters(s) = {}
    /\ permits' = [permits EXCEPT ![s] = @ + 1]
    /\ UNCHANGED <<status, waitsFor>>

Free(s, t) ==
    /\ t \in Waiters(s)
    /\ status' = [status EXCEPT ![t] = "ready"]
    /\ waitsFor' = [waitsFor EXCEPT ![t] = Nobody]
    /\ UNCHANGED permits

Next ==
    \/ \E t \in {u \in Threads : status[u] = "running"} :
          \/ Yield(t) \/ Exit(t) \/ Sleep(t)
          \/ \E new \in Threads : Create(t, new)
          \/ \E W \in SUBSET Sleeping : Tick(t, W)
          \/ \E s \in Sems : Pass(t, s) \/ Block(t, s)
    \/ \E s \in Sems :
          \/ Close(s) \/ Signal(s)
          \/ \E n \in InitPermits : Open(s, n)
          \/ \E t \in Waiters(s) : Free(s, t)

Spec == Init /\ [][Next]_vars

=============================================================================
