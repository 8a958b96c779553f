---------------------------- MODULE TestPingPong -----------------------------
(***************************************************************************)
(* Phase 4 of altUserMain(): two players take turns at a counter.          *)
(***************************************************************************)
EXTENDS TestSupport

CONSTANT P4_ROUNDS

ASSUME P4_Assumption == P4_ROUNDS \in Nat \ {0}

P4_Players == {"playerA", "playerB"}
P4_Threads == P4_Players \union {"main"}
P4_Sems == {"ping", "pong", "finished"}

VARIABLES
    p4_pc, p4_i, p4_reg,    \* of every thread: what it does next, the rounds it
                            \* has finished, the value it has read
    p4_sems, p4_counter

p4_vars == <<p4_pc, p4_i, p4_reg, p4_sems, p4_counter>>

P4_Init ==
    /\ p4_pc = [t \in P4_Threads |-> IF t = "main" THEN "open" ELSE "unborn"]
    /\ p4_i = [t \in P4_Threads |-> 0]
    /\ p4_reg = [t \in P4_Threads |-> 0]
    /\ p4_sems = [s \in P4_Sems |-> sem_open(0)]
    /\ p4_counter = 0

p4_goes(t, from, to) ==
    /\ p4_pc[t] = from /\ ~IsBlocked(p4_sems, t)
    /\ p4_pc' = [p4_pc EXCEPT ![t] = to]
p4_wait(t, from, s, to) ==
    /\ p4_goes(t, from, to) /\ p4_sems' = sem_wait(p4_sems, s, t)
    /\ UNCHANGED <<p4_i, p4_reg, p4_counter, errorFlag>>
p4_signal(t, from, s, to) ==
    /\ p4_goes(t, from, to) /\ p4_sems' = sem_signal(p4_sems, s)
    /\ UNCHANGED <<p4_reg, p4_counter, errorFlag>>

p4_counted(t) == p4_i' = [p4_i EXCEPT ![t] = @ + 1]

-----------------------------------------------------------------------------
p4_increments(t) ==
    \/ /\ p4_goes(t, "load", "store")
       /\ p4_reg' = [p4_reg EXCEPT ![t] = p4_counter]
       /\ UNCHANGED <<p4_i, p4_sems, p4_counter, errorFlag>>
    \/ /\ p4_goes(t, "store", "signal")
       /\ p4_counter' = p4_reg[t] + 1
       /\ UNCHANGED <<p4_i, p4_reg, p4_sems, errorFlag>>

\* A round of player t between its own semaphore and the other's; the last one
\* goes on to position after.
p4_turn(t, own, others, after) ==
    \/ p4_wait(t, "wait", own, "load")
    \/ p4_increments(t)
    \/ /\ p4_signal(t, "signal", others, IF p4_i[t] + 1 < P4_ROUNDS THEN "wait" ELSE after)
       /\ p4_counted(t)

p4_playerA == p4_turn("playerA", "ping", "pong", "done")

p4_playerB ==
    \/ p4_turn("playerB", "pong", "ping", "tell")
    \/ p4_signal("playerB", "tell", "finished", "done") /\ UNCHANGED p4_i

p4_open ==
    /\ p4_goes("main", "open", "createA")
    /\ p4_sems' = [ping |-> sem_open(1), pong |-> sem_open(0), finished |-> sem_open(0)]
    /\ UNCHANGED <<p4_i, p4_reg, p4_counter, errorFlag>>

p4_create(player, from, to) ==
    /\ p4_pc["main"] = from
    /\ p4_pc' = [p4_pc EXCEPT !["main"] = to, ![player] = "wait"]
    /\ UNCHANGED <<p4_i, p4_reg, p4_sems, p4_counter, errorFlag>>

p4_check ==
    /\ p4_goes("main", "check", "close")
    /\ check(p4_counter = P4_ROUNDS * 2)
    /\ UNCHANGED <<p4_i, p4_reg, p4_sems, p4_counter>>

p4_close ==
    /\ p4_goes("main", "close", "returned")
    /\ p4_sems' = sem_close(p4_sems)
    /\ UNCHANGED <<p4_i, p4_reg, p4_counter, errorFlag>>

runPhase4 ==
    \/ p4_open
    \/ p4_create("playerA", "createA", "createB")
    \/ p4_create("playerB", "createB", "await")
    \/ p4_wait("main", "await", "finished", "check")
    \/ p4_check
    \/ p4_close

P4_Next == runPhase4 \/ p4_playerA \/ p4_playerB

-----------------------------------------------------------------------------
P4_Positions ==
    {"unborn", "open", "createA", "createB", "await", "check", "close", "returned",
     "wait", "load", "store", "signal", "tell", "done"}

P4_TypeOK ==
    /\ p4_pc \in [P4_Threads -> P4_Positions]
    /\ p4_i \in [P4_Threads -> 0..P4_ROUNDS]
    /\ p4_reg \in [P4_Threads -> Nat]
    /\ SemsType(p4_sems, P4_Sems, P4_Threads)
    /\ p4_counter \in 0..(2 * P4_ROUNDS)

P4_NothingIsUsedAfterClose ==
    p4_pc["main"] \in {"open", "returned"} =>
        \A t \in P4_Players : p4_pc[t] \in {"unborn", "done"}

==============================================================================
