---------------------------- MODULE TestPipeline -----------------------------
(***************************************************************************)
(* Phase 3 of altUserMain(): a generator, a transformer and an accumulator *)
(* with a pipe between one and the next.                                   *)
(***************************************************************************)
EXTENDS TestSupport

CONSTANTS P3_COUNT, P3_PIPE_CAP

ASSUME P3_Assumption == {P3_COUNT, P3_PIPE_CAP} \subseteq Nat \ {0}

P3_Stages == {"generator", "transformer", "accumulator"}
P3_Threads == P3_Stages \union {"main"}
P3_Pipes == {"p3a", "p3b"}
P3_Sems == {"p3a_items", "p3a_spaces", "p3a_mut", "p3b_items", "p3b_spaces", "p3b_mut", "p3_done"}

VARIABLES
    p3_pc,      \* what every thread does next
    p3_i,       \* the items the generator has sent
    p3_val,     \* the value that a stage got last
    p3_sum,     \* the accumulator's local variable
    p3_sems, p3_ring

p3_locals == <<p3_i, p3_val, p3_sum>>
p3_vars == <<p3_pc, p3_locals, p3_sems, p3_ring>>

P3_Init ==
    /\ p3_pc = [t \in P3_Threads |-> IF t = "main" THEN "open" ELSE "unborn"]
    /\ p3_i = 0
    /\ p3_val = [t \in P3_Threads |-> 0]
    /\ p3_sum = 0
    /\ p3_sems = [s \in P3_Sems |-> sem_open(0)]
    /\ p3_ring = [pipe \in P3_Pipes |-> EmptyRing(P3_PIPE_CAP)]

p3_goes(t, from, to) ==
    /\ p3_pc[t] = from /\ ~IsBlocked(p3_sems, t)
    /\ p3_pc' = [p3_pc EXCEPT ![t] = to]
p3_wait(t, from, s, to) ==
    p3_goes(t, from, to) /\ p3_sems' = sem_wait(p3_sems, s, t)
p3_signal(t, from, s, to) ==
    p3_goes(t, from, to) /\ p3_sems' = sem_signal(p3_sems, s)

-----------------------------------------------------------------------------
\* The caller goes on at position to with i items sent.
p3_pipePut(t, pipe, spaces, mut, items, val, i, to) ==
    \/ /\ \/ p3_wait(t, "waitSpace", spaces, "waitTail")
          \/ p3_wait(t, "waitTail", mut, "store")
          \/ p3_signal(t, "freeTail", mut, "signalItem")
       /\ UNCHANGED <<p3_locals, p3_ring, errorFlag>>
    \/ /\ \/ p3_goes(t, "store", "moveTail")
             /\ p3_ring' = [p3_ring EXCEPT ![pipe] = Stored(@, val)]
          \/ p3_goes(t, "moveTail", "freeTail")
             /\ p3_ring' = [p3_ring EXCEPT ![pipe] = TailMoved(@, P3_PIPE_CAP)]
       /\ UNCHANGED <<p3_locals, p3_sems, errorFlag>>
    \/ /\ p3_signal(t, "signalItem", items, to)
       /\ p3_i' = i
       /\ UNCHANGED <<p3_val, p3_sum, p3_ring, errorFlag>>

p3_pipeGet(t, pipe, items, mut, spaces, to) ==
    \/ /\ \/ p3_wait(t, "waitItem", items, "waitHead")
          \/ p3_wait(t, "waitHead", mut, "take")
          \/ p3_signal(t, "freeHead", mut, "signalSpace")
          \/ p3_signal(t, "signalSpace", spaces, to)
       /\ UNCHANGED <<p3_locals, p3_ring, errorFlag>>
    \/ /\ p3_goes(t, "take", "moveHead")
       /\ p3_val' = [p3_val EXCEPT ![t] = Oldest(p3_ring[pipe])]
       /\ UNCHANGED <<p3_i, p3_sum, p3_sems, p3_ring, errorFlag>>
    \/ /\ p3_goes(t, "moveHead", "freeHead")
       /\ p3_ring' = [p3_ring EXCEPT ![pipe] = HeadMoved(@, P3_PIPE_CAP)]
       /\ UNCHANGED <<p3_locals, p3_sems, errorFlag>>

\* The items 1 to P3_COUNT, then the sentinel.
p3_generator ==
    p3_pipePut("generator", "p3a", "p3a_spaces", "p3a_mut", "p3a_items",
               IF p3_i < P3_COUNT THEN p3_i + 1 ELSE -1, p3_i + 1,
               IF p3_i < P3_COUNT THEN "waitSpace" ELSE "done")

p3_transformer ==
    LET val == p3_val["transformer"]
    IN  \/ p3_pipeGet("transformer", "p3a", "p3a_items", "p3a_mut", "p3a_spaces", "waitSpace")
        \/ p3_pipePut("transformer", "p3b", "p3b_spaces", "p3b_mut", "p3b_items",
                      IF val = -1 THEN -1 ELSE 3 * val, p3_i,
                      IF val = -1 THEN "done" ELSE "waitItem")

p3_expected == (3 * P3_COUNT * (P3_COUNT + 1)) \div 2

p3_accumulator ==
    LET val == p3_val["accumulator"]
    IN  \/ p3_pipeGet("accumulator", "p3b", "p3b_items", "p3b_mut", "p3b_spaces",
                      IF val = -1 THEN "verify" ELSE "add")
        \/ /\ p3_goes("accumulator", "add", "waitItem")
           /\ p3_sum' = p3_sum + val
           /\ UNCHANGED <<p3_i, p3_val, p3_sems, p3_ring, errorFlag>>
        \/ /\ p3_goes("accumulator", "verify", "tell")
           /\ check(p3_sum = p3_expected)
           /\ UNCHANGED <<p3_locals, p3_sems, p3_ring>>
        \/ /\ p3_signal("accumulator", "tell", "p3_done", "done")
           /\ UNCHANGED <<p3_locals, p3_ring, errorFlag>>

-----------------------------------------------------------------------------
p3_open ==
    /\ p3_goes("main", "open", "createAccumulator")
    /\ p3_sems' = [s \in P3_Sems |-> sem_open(CASE s \in {"p3a_spaces", "p3b_spaces"} -> P3_PIPE_CAP
                                                [] s \in {"p3a_mut", "p3b_mut"} -> 1
                                                [] OTHER -> 0)]
    /\ UNCHANGED <<p3_locals, p3_ring, errorFlag>>

p3_create(stage, from, first, to) ==
    /\ p3_pc["main"] = from
    /\ p3_pc' = [p3_pc EXCEPT !["main"] = to, ![stage] = first]
    /\ UNCHANGED <<p3_locals, p3_sems, p3_ring, errorFlag>>

p3_await ==
    /\ p3_wait("main", "await", "p3_done", "close")
    /\ UNCHANGED <<p3_locals, p3_ring, errorFlag>>

p3_close ==
    /\ p3_goes("main", "close", "returned")
    /\ p3_sems' = sem_close(p3_sems)
    /\ UNCHANGED <<p3_locals, p3_ring, errorFlag>>

runPhase3 ==
    \/ p3_open
    \/ p3_create("accumulator", "createAccumulator", "waitItem", "createTransformer")
    \/ p3_create("transformer", "createTransformer", "waitItem", "createGenerator")
    \/ p3_create("generator", "createGenerator", "waitSpace", "await")
    \/ p3_await
    \/ p3_close

P3_Next == runPhase3 \/ p3_generator \/ p3_transformer \/ p3_accumulator

-----------------------------------------------------------------------------
\* The items in a pipe: those that were signalled and not waited for, and the
\* ones that its two stages are between an access and a semaphore with.
p3_held(items, putter, getter) ==
    p3_sems[items].value
    + One(p3_pc[putter] \in {"moveTail", "freeTail", "signalItem"})
    + One(p3_pc[getter] \in {"waitHead", "take"})
p3a_contents ==
    Contents(p3_ring["p3a"], P3_PIPE_CAP, p3_held("p3a_items", "generator", "transformer"),
             p3_pc["transformer"] = "moveHead")
p3b_contents ==
    Contents(p3_ring["p3b"], P3_PIPE_CAP, p3_held("p3b_items", "transformer", "accumulator"),
             p3_pc["accumulator"] = "moveHead")

P3_Positions ==
    {"unborn", "open", "createAccumulator", "createTransformer", "createGenerator", "await",
     "close", "returned", "waitSpace", "waitTail", "store", "moveTail", "freeTail", "signalItem",
     "waitItem", "waitHead", "take", "moveHead", "freeHead", "signalSpace",
     "add", "verify", "tell", "done"}

P3_TypeOK ==
    /\ p3_pc \in [P3_Threads -> P3_Positions]
    /\ p3_i \in 0..(P3_COUNT + 1)
    /\ p3_val \in [P3_Threads -> Int]
    /\ p3_sum \in Nat
    /\ SemsType(p3_sems, P3_Sems, P3_Threads)
    /\ p3_ring \in [P3_Pipes -> Rings(P3_PIPE_CAP)]

P3_NothingIsUsedAfterClose ==
    p3_pc["main"] \in {"open", "returned"} =>
        \A t \in P3_Stages : p3_pc[t] \in {"unborn", "done"}

==============================================================================
