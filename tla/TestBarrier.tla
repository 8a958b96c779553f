----------------------------- MODULE TestBarrier -----------------------------
(***************************************************************************)
(* Phase 2 of altUserMain(): workers meet at a barrier of two turnstiles.  *)
(* Workers and their slots count from 1.                                   *)
(***************************************************************************)
EXTENDS TestSupport

CONSTANT P2_NUM_THREADS

ASSUME P2_Assumption == P2_NUM_THREADS \in Nat \ {0}

P2_Main == 0
P2_Workers == 1..P2_NUM_THREADS
P2_Threads == 0..P2_NUM_THREADS
P2_Sems == {"mutex", "turnstile1", "turnstile2", "finished"}

VARIABLES
    p2_pc, p2_i, p2_reg,    \* of every thread: what it does next, its loop
                            \* counter, the value it has read
    p2_sems, p2_arrived, p2_slots

p2_memory == <<p2_arrived, p2_slots, errorFlag>>
p2_vars == <<p2_pc, p2_i, p2_reg, p2_sems, p2_arrived, p2_slots>>

P2_Init ==
    /\ p2_pc = [t \in P2_Threads |-> IF t = P2_Main THEN "open" ELSE "unborn"]
    /\ p2_i = [t \in P2_Threads |-> 0]
    /\ p2_reg = [t \in P2_Threads |-> 0]
    /\ p2_sems = [s \in P2_Sems |-> sem_open(0)]
    /\ p2_arrived = 0
    /\ p2_slots = [w \in P2_Workers |-> 0]

p2_goes(t, from, to) ==
    /\ p2_pc[t] = from /\ ~IsBlocked(p2_sems, t)
    /\ p2_pc' = [p2_pc EXCEPT ![t] = to]
p2_wait(t, from, s, to) ==
    p2_goes(t, from, to) /\ p2_sems' = sem_wait(p2_sems, s, t)
p2_signal(t, from, s, to) ==
    p2_goes(t, from, to) /\ p2_sems' = sem_signal(p2_sems, s)

\* Every loop of this phase has P2_NUM_THREADS rounds.
p2_round(t, again, after) == IF p2_i[t] + 1 < P2_NUM_THREADS THEN again ELSE after
p2_next(t) == p2_i' = [p2_i EXCEPT ![t] = IF @ + 1 < P2_NUM_THREADS THEN @ + 1 ELSE 0]

-----------------------------------------------------------------------------
\* p2_arrived is volatile: reading it and writing it are two accesses, and the
\* comparison reads it again.

p2_load(t, from, to) ==
    /\ p2_goes(t, from, to)
    /\ p2_reg' = [p2_reg EXCEPT ![t] = p2_arrived]
    /\ UNCHANGED <<p2_i, p2_sems, p2_memory>>
p2_store(t, from, d, to) ==
    /\ p2_goes(t, from, to)
    /\ p2_arrived' = p2_reg[t] + d
    /\ p2_reg' = [p2_reg EXCEPT ![t] = 0]      \* not read again
    /\ UNCHANGED <<p2_i, p2_sems, p2_slots, errorFlag>>
AllButOneArrived(n) == p2_arrived = n - 1
AtLeastArrived(n) == p2_arrived >= n
AllArrived(n) == p2_arrived = n
p2_test(t, from, n, open, unlock) ==
    /\ p2_goes(t, from, IF AllArrived(n) THEN open ELSE unlock)
    /\ UNCHANGED <<p2_i, p2_reg, p2_sems, p2_memory>>
p2_openForAll(t, from, turnstile, to) ==
    /\ p2_signal(t, from, turnstile, p2_round(t, from, to))
    /\ p2_next(t)
    /\ UNCHANGED <<p2_reg, p2_memory>>

p2_barrierPhase1(t) ==
    \/ /\ \/ p2_wait(t, "lock1", "mutex", "load1")
          \/ p2_signal(t, "unlock1", "mutex", "turnstile1")
          \/ p2_wait(t, "turnstile1", "turnstile1", "verify")
       /\ UNCHANGED <<p2_i, p2_reg, p2_memory>>
    \/ p2_load(t, "load1", "store1")
    \/ p2_store(t, "store1", 1, "test1")
    \/ p2_test(t, "test1", P2_NUM_THREADS, "open1", "unlock1")
    \/ p2_openForAll(t, "open1", "turnstile1", "unlock1")
p2_barrierPhase2(t) ==
    \/ /\ \/ p2_wait(t, "lock2", "mutex", "load2")
          \/ p2_signal(t, "unlock2", "mutex", "turnstile2")
          \/ p2_wait(t, "turnstile2", "turnstile2", "tell")
       /\ UNCHANGED <<p2_i, p2_reg, p2_memory>>
    \/ p2_load(t, "load2", "store2")
    \/ p2_store(t, "store2", -1, "test2")
    \/ p2_test(t, "test2", 0, "open2", "unlock2")
    \/ p2_openForAll(t, "open2", "turnstile2", "unlock2")
p2_worker(id) ==
    \/ /\ p2_goes(id, "slot", "lock1")
       /\ p2_slots' = [p2_slots EXCEPT ![id] = id]
       /\ UNCHANGED <<p2_i, p2_reg, p2_sems, p2_arrived, errorFlag>>
    \/ p2_barrierPhase1(id)
    \/ /\ p2_goes(id, "verify", p2_round(id, "verify", "lock2"))
       /\ p2_next(id)
       /\ check(p2_slots[p2_i[id] + 1] = p2_i[id] + 1)
       /\ UNCHANGED <<p2_reg, p2_sems, p2_arrived, p2_slots>>
    \/ p2_barrierPhase2(id)
    \/ /\ p2_signal(id, "tell", "finished", "done")
       /\ UNCHANGED <<p2_i, p2_reg, p2_memory>>

-----------------------------------------------------------------------------
p2_open ==
    /\ p2_goes(P2_Main, "open", "create")
    /\ p2_sems' = [mutex |-> sem_open(1), turnstile1 |-> sem_open(0),
                   turnstile2 |-> sem_open(0), finished |-> sem_open(0)]
    /\ UNCHANGED <<p2_i, p2_reg, p2_memory>>

p2_create ==
    /\ p2_pc[P2_Main] = "create"
    /\ p2_pc' = [p2_pc EXCEPT ![P2_Main] = p2_round(P2_Main, "create", "await"),
                              ![p2_i[P2_Main] + 1] = "slot"]
    /\ p2_next(P2_Main)
    /\ UNCHANGED <<p2_reg, p2_sems, p2_memory>>

p2_await ==
    /\ p2_wait(P2_Main, "await", "finished", p2_round(P2_Main, "await", "close"))
    /\ p2_next(P2_Main)
    /\ UNCHANGED <<p2_reg, p2_memory>>

p2_close ==
    /\ p2_goes(P2_Main, "close", "returned")
    /\ p2_sems' = sem_close(p2_sems)
    /\ UNCHANGED <<p2_i, p2_reg, p2_memory>>

runPhase2 == p2_open \/ p2_create \/ p2_await \/ p2_close

P2_Next == runPhase2 \/ \E id \in P2_Workers : p2_worker(id)

-----------------------------------------------------------------------------
P2_Positions ==
    {"unborn", "open", "create", "await", "close", "returned",
     "slot", "lock1", "load1", "store1", "test1", "open1", "unlock1", "turnstile1", "verify",
     "lock2", "load2", "store2", "test2", "open2", "unlock2", "turnstile2", "tell", "done"}

P2_TypeOK ==
    /\ p2_pc \in [P2_Threads -> P2_Positions]
    /\ p2_i \in [P2_Threads -> 0..(P2_NUM_THREADS - 1)]
    /\ p2_reg \in [P2_Threads -> Nat]
    /\ SemsType(p2_sems, P2_Sems, P2_Threads)
    /\ p2_arrived \in Nat
    /\ p2_slots \in [P2_Workers -> Nat]

P2_NothingIsUsedAfterClose ==
    p2_pc[P2_Main] \in {"open", "returned"} =>
        \A t \in P2_Workers : p2_pc[t] \in {"unborn", "done"}

\* The barrier holds both ways: when a worker is through the second turnstile,
\* every worker has read all slots, so that a next round could write them.
BarrierSeparates ==
    \A through, other \in P2_Workers :
        p2_pc[through] \in {"tell", "done"} /\ ~IsBlocked(p2_sems, through) =>
            p2_pc[other] \notin {"unborn", "slot", "lock1", "load1", "store1", "test1", "open1",
                                 "unlock1", "turnstile1", "verify"}

==============================================================================
