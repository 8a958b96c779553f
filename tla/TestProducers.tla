---------------------------- MODULE TestProducers ----------------------------
(***************************************************************************)
(* Phase 1 of altUserMain(): producers put their number into a ring again  *)
(* and again, a consumer counts how often it meets each of them.           *)
(***************************************************************************)
EXTENDS TestSupport

CONSTANTS P1_BUF_CAP, P1_NUM_PRODUCERS, P1_ITEMS_PER_PRODUCER

ASSUME P1_Assumption ==
    {P1_BUF_CAP, P1_NUM_PRODUCERS, P1_ITEMS_PER_PRODUCER} \subseteq Nat \ {0}

P1_Main == 0
P1_Producers == 1..P1_NUM_PRODUCERS
P1_Consumer == P1_NUM_PRODUCERS + 1
P1_Threads == 0..P1_Consumer
P1_Sems == {"itemAvail", "spaceAvail", "mutHead", "mutTail", "waitAll"}

VARIABLES
    p1_pc,      \* what every thread does next
    p1_i,       \* the rounds it has finished in its loop
    p1_ch,      \* the consumer's local variable
    p1_sems, p1_ring, p1_counts

p1_locals == <<p1_i, p1_ch>>
p1_memory == <<p1_ring, p1_counts, errorFlag>>
p1_vars == <<p1_pc, p1_locals, p1_sems, p1_ring, p1_counts>>

P1_Init ==
    /\ p1_pc = [t \in P1_Threads |-> IF t = P1_Main THEN "open" ELSE "unborn"]
    /\ p1_i = [t \in P1_Threads |-> 0]
    /\ p1_ch = 0
    /\ p1_sems = [s \in P1_Sems |-> sem_open(0)]
    /\ p1_ring = EmptyRing(P1_BUF_CAP)
    /\ p1_counts = [p \in P1_Producers |-> 0]

\* A thread that is not blocked goes from one position to another.
p1_goes(t, from, to) ==
    /\ p1_pc[t] = from /\ ~IsBlocked(p1_sems, t)
    /\ p1_pc' = [p1_pc EXCEPT ![t] = to]
p1_wait(t, from, s, to) ==
    p1_goes(t, from, to) /\ p1_sems' = sem_wait(p1_sems, s, t)
p1_signal(t, from, s, to) ==
    p1_goes(t, from, to) /\ p1_sems' = sem_signal(p1_sems, s)

\* The end of a round: back to the first position, or out of the loop.
p1_round(t, rounds, again, after) ==
    IF p1_i[t] + 1 < rounds THEN again ELSE after
p1_counted(t) == p1_i' = [p1_i EXCEPT ![t] = @ + 1]

-----------------------------------------------------------------------------
p1_bufPut(t, val, to) ==
    \/ /\ \/ p1_wait(t, "waitSpace", "spaceAvail", "waitTail")
          \/ p1_wait(t, "waitTail", "mutTail", "store")
          \/ p1_signal(t, "freeTail", "mutTail", "signalItem")
       /\ UNCHANGED <<p1_locals, p1_memory>>
    \/ /\ \/ p1_goes(t, "store", "moveTail") /\ p1_ring' = Stored(p1_ring, val)
          \/ p1_goes(t, "moveTail", "freeTail") /\ p1_ring' = TailMoved(p1_ring, P1_BUF_CAP)
       /\ UNCHANGED <<p1_locals, p1_sems, p1_counts, errorFlag>>
    \/ /\ p1_signal(t, "signalItem", "itemAvail", to)
       /\ p1_counted(t)
       /\ UNCHANGED <<p1_ch, p1_memory>>
p1_bufGet(t, to) ==
    \/ /\ \/ p1_wait(t, "waitItem", "itemAvail", "waitHead")
          \/ p1_wait(t, "waitHead", "mutHead", "take")
          \/ p1_signal(t, "freeHead", "mutHead", "signalSpace")
          \/ p1_signal(t, "signalSpace", "spaceAvail", to)
       /\ UNCHANGED <<p1_locals, p1_memory>>
    \/ /\ p1_goes(t, "take", "moveHead")
       /\ p1_ch' = Oldest(p1_ring)
       /\ UNCHANGED <<p1_i, p1_sems, p1_memory>>
    \/ /\ p1_goes(t, "moveHead", "freeHead")
       /\ p1_ring' = HeadMoved(p1_ring, P1_BUF_CAP)
       /\ UNCHANGED <<p1_locals, p1_sems, p1_counts, errorFlag>>

p1_tell(t) ==
    /\ p1_signal(t, "tell", "waitAll", "done")
    /\ UNCHANGED <<p1_locals, p1_memory>>

p1_producer(id) ==
    \/ p1_bufPut(id, id, p1_round(id, P1_ITEMS_PER_PRODUCER, "waitSpace", "tell"))
    \/ p1_tell(id)

p1_consumer ==
    \/ p1_bufGet(P1_Consumer, "count")
    \/ /\ p1_goes(P1_Consumer, "count",
                  p1_round(P1_Consumer, P1_NUM_PRODUCERS * P1_ITEMS_PER_PRODUCER,
                           "waitItem", "tell"))
       /\ p1_counts' = IF p1_ch \in P1_Producers
                       THEN [p1_counts EXCEPT ![p1_ch] = @ + 1] ELSE p1_counts
       /\ p1_counted(P1_Consumer)
       /\ UNCHANGED <<p1_ch, p1_sems, p1_ring, errorFlag>>
    \/ p1_tell(P1_Consumer)

-----------------------------------------------------------------------------
\* Main, step by step; its counter starts anew in each of its loops.

p1_next(rounds) ==
    p1_i' = [p1_i EXCEPT ![P1_Main] = IF @ + 1 < rounds THEN @ + 1 ELSE 0]

p1_open ==
    /\ p1_goes(P1_Main, "open", "create")
    /\ p1_sems' = [itemAvail |-> sem_open(0), spaceAvail |-> sem_open(P1_BUF_CAP),
                   mutHead |-> sem_open(1), mutTail |-> sem_open(1), waitAll |-> sem_open(0)]
    /\ UNCHANGED <<p1_locals, p1_memory>>

\* The consumer is created before the producers.
p1_create ==
    /\ p1_pc[P1_Main] = "create"
    /\ p1_pc' = [p1_pc EXCEPT
                   ![P1_Main] = p1_round(P1_Main, P1_NUM_PRODUCERS + 1, "create", "await"),
                   ![IF p1_i[P1_Main] = 0 THEN P1_Consumer ELSE p1_i[P1_Main]] =
                       IF p1_i[P1_Main] = 0 THEN "waitItem" ELSE "waitSpace"]
    /\ p1_next(P1_NUM_PRODUCERS + 1)
    /\ UNCHANGED <<p1_ch, p1_sems, p1_memory>>

p1_await ==
    /\ p1_wait(P1_Main, "await", "waitAll",
               p1_round(P1_Main, P1_NUM_PRODUCERS + 1, "await", "check"))
    /\ p1_next(P1_NUM_PRODUCERS + 1)
    /\ UNCHANGED <<p1_ch, p1_memory>>

p1_check ==
    /\ p1_goes(P1_Main, "check", p1_round(P1_Main, P1_NUM_PRODUCERS, "check", "close"))
    /\ p1_next(P1_NUM_PRODUCERS)
    /\ check(p1_counts[p1_i[P1_Main] + 1] = P1_ITEMS_PER_PRODUCER)
    /\ UNCHANGED <<p1_ch, p1_sems, p1_ring, p1_counts>>

p1_close ==
    /\ p1_goes(P1_Main, "close", "returned")
    /\ p1_sems' = sem_close(p1_sems)
    /\ UNCHANGED <<p1_locals, p1_memory>>

runPhase1 == p1_open \/ p1_create \/ p1_await \/ p1_check \/ p1_close

P1_Next == runPhase1 \/ p1_consumer \/ \E id \in P1_Producers : p1_producer(id)

-----------------------------------------------------------------------------
\* The items in the ring: those that were signalled and not waited for, and the
\* ones that threads are between an access to the ring and its semaphore with.
p1_held ==
    p1_sems["itemAvail"].value
    + Cardinality({t \in P1_Producers : p1_pc[t] \in {"moveTail", "freeTail", "signalItem"}})
    + One(p1_pc[P1_Consumer] \in {"waitHead", "take"})
p1_contents == Contents(p1_ring, P1_BUF_CAP, p1_held, p1_pc[P1_Consumer] = "moveHead")

P1_Positions ==
    {"unborn", "open", "create", "await", "check", "close", "returned", "tell", "done",
     "waitSpace", "waitTail", "store", "moveTail", "freeTail", "signalItem",
     "waitItem", "waitHead", "take", "moveHead", "freeHead", "signalSpace", "count"}

P1_TypeOK ==
    /\ p1_pc \in [P1_Threads -> P1_Positions]
    /\ p1_i \in [P1_Threads -> Nat]
    /\ p1_ch \in Int
    /\ SemsType(p1_sems, P1_Sems, P1_Threads)
    /\ p1_ring \in Rings(P1_BUF_CAP)
    /\ p1_counts \in [P1_Producers -> Nat]

P1_NothingIsUsedAfterClose ==
    p1_pc[P1_Main] \in {"open", "returned"} =>
        \A t \in P1_Threads \ {P1_Main} : p1_pc[t] \in {"unborn", "done"}

==============================================================================
