------------------------------ MODULE TestStorm ------------------------------
(***************************************************************************)
(* Phase 5 of altUserMain(): many short threads count themselves.          *)
(***************************************************************************)
EXTENDS TestSupport

CONSTANT P5_NUM_THREADS

ASSUME P5_Assumption == P5_NUM_THREADS \in Nat \ {0}

P5_Main == 0
P5_Tasks == 1..P5_NUM_THREADS
P5_Threads == 0..P5_NUM_THREADS
P5_Sems == {"mutex", "allDone"}

VARIABLES
    p5_pc,      \* what every thread does next
    p5_c,       \* the value it has read
    p5_created, \* main's loop counter
    p5_sems, p5_counter

p5_vars == <<p5_pc, p5_c, p5_created, p5_sems, p5_counter>>

P5_Init ==
    /\ p5_pc = [t \in P5_Threads |-> IF t = P5_Main THEN "open" ELSE "unborn"]
    /\ p5_c = [t \in P5_Threads |-> 0]
    /\ p5_created = 0
    /\ p5_sems = [s \in P5_Sems |-> sem_open(0)]
    /\ p5_counter = 0

p5_goes(t, from, to) ==
    /\ p5_pc[t] = from /\ ~IsBlocked(p5_sems, t)
    /\ p5_pc' = [p5_pc EXCEPT ![t] = to]
p5_wait(t, from, s, to) ==
    /\ p5_goes(t, from, to) /\ p5_sems' = sem_wait(p5_sems, s, t)
    /\ UNCHANGED <<p5_c, p5_created, p5_counter, errorFlag>>
p5_signal(t, from, s, to) ==
    /\ p5_goes(t, from, to) /\ p5_sems' = sem_signal(p5_sems, s)
    /\ UNCHANGED <<p5_c, p5_created, p5_counter, errorFlag>>

-----------------------------------------------------------------------------
p5_load(t, from, to) ==
    /\ p5_goes(t, from, to)
    /\ p5_c' = [p5_c EXCEPT ![t] = p5_counter]
    /\ UNCHANGED <<p5_created, p5_sems, p5_counter, errorFlag>>
p5_store(t, from, to) ==
    /\ p5_goes(t, from, to)
    /\ p5_counter' = p5_c[t] + 1
    /\ UNCHANGED <<p5_c, p5_created, p5_sems, errorFlag>>

IsLastButOne(c) == c >= P5_NUM_THREADS - 1
IsLast(c) == c = P5_NUM_THREADS

\* p5_counter++, then c = p5_counter, all under the mutex.
p5_shortTask(t) ==
    \/ p5_wait(t, "lock", "mutex", "load")
    \/ p5_load(t, "load", "store")
    \/ p5_store(t, "store", "reload")
    \/ p5_load(t, "reload", "unlock")
    \/ p5_signal(t, "unlock", "mutex", IF IsLast(p5_c[t]) THEN "tell" ELSE "done")
    \/ p5_signal(t, "tell", "allDone", "done")

p5_open ==
    /\ p5_goes(P5_Main, "open", "create")
    /\ p5_sems' = [mutex |-> sem_open(1), allDone |-> sem_open(0)]
    /\ UNCHANGED <<p5_c, p5_created, p5_counter, errorFlag>>

p5_create ==
    /\ p5_pc[P5_Main] = "create"
    /\ p5_created' = p5_created + 1
    /\ p5_pc' = [p5_pc EXCEPT
                   ![P5_Main] = IF p5_created' < P5_NUM_THREADS THEN "create" ELSE "await",
                   ![p5_created'] = "lock"]
    /\ UNCHANGED <<p5_c, p5_sems, p5_counter, errorFlag>>

p5_check ==
    /\ p5_goes(P5_Main, "check", "close")
    /\ check(p5_counter = P5_NUM_THREADS)
    /\ UNCHANGED <<p5_c, p5_created, p5_sems, p5_counter>>

p5_close ==
    /\ p5_goes(P5_Main, "close", "returned")
    /\ p5_sems' = sem_close(p5_sems)
    /\ UNCHANGED <<p5_c, p5_created, p5_counter, errorFlag>>

runPhase5 ==
    \/ p5_open \/ p5_create
    \/ p5_wait(P5_Main, "await", "allDone", "check")
    \/ p5_check \/ p5_close

P5_Next == runPhase5 \/ \E t \in P5_Tasks : p5_shortTask(t)

-----------------------------------------------------------------------------
P5_Positions ==
    {"unborn", "open", "create", "await", "check", "close", "returned",
     "lock", "load", "store", "reload", "unlock", "tell", "done"}

P5_TypeOK ==
    /\ p5_pc \in [P5_Threads -> P5_Positions]
    /\ p5_c \in [P5_Threads -> 0..P5_NUM_THREADS]
    /\ p5_created \in 0..P5_NUM_THREADS
    /\ SemsType(p5_sems, P5_Sems, P5_Threads)
    /\ p5_counter \in 0..P5_NUM_THREADS

P5_NothingIsUsedAfterClose ==
    p5_pc[P5_Main] \in {"open", "returned"} =>
        \A t \in P5_Tasks : p5_pc[t] \in {"unborn", "done"}

==============================================================================
