----------------------------- MODULE TestPrograms ----------------------------
(***************************************************************************)
(* The multi-threaded test programs of src_tests on top of the system      *)
(* calls: altUserMain() with its five phases, and urosUModeThreadTest().   *)
(*                                                                         *)
(* Any thread that is not blocked may take the next step, an access to     *)
(* shared memory or a system call, which is more than preemption can do    *)
(* and makes thread_dispatch() a step that changes nothing.  Printing is   *)
(* left out.                                                               *)
(***************************************************************************)
EXTENDS TestProducers, TestBarrier, TestPipeline, TestPingPong, TestStorm

U_Workers == {"A", "B", "C", "D"}
U_Threads == U_Workers \union {"main", "workerExit"}

VARIABLES
    program,    \* which of the two runs
    u_pc, u_reg, finishedCount, exitTestPassed      \* urosUModeThreadTest()

u_vars == <<u_pc, u_reg, finishedCount, exitTestPassed>>
alt_vars == <<p1_vars, p2_vars, p3_vars, p4_vars, p5_vars>>
vars == <<program, alt_vars, u_vars, errorFlag>>

\* Static variables start at zero, which is also what every phase, run once,
\* sets its variables to.  errorFlag is set as well when the exit test fails.
Init ==
    /\ program \in {"altUserMain", "urosUModeThreadTest"}
    /\ P1_Init /\ P2_Init /\ P3_Init /\ P4_Init /\ P5_Init
    /\ u_pc = [t \in U_Threads |-> IF t = "main" THEN "createExit" ELSE "unborn"]
    /\ u_reg = [t \in U_Threads |-> 0]
    /\ finishedCount = 0
    /\ exitTestPassed = 0
    /\ errorFlag = 0

-----------------------------------------------------------------------------
\* altUserMain(): main runs one phase after the other; the threads of a phase
\* run whenever they like.

alt(step, others) ==
    /\ program = "altUserMain"
    /\ step
    /\ UNCHANGED <<program, u_vars, others>>
p1(step) == alt(step, <<p2_vars, p3_vars, p4_vars, p5_vars>>)
p2(step) == alt(step, <<p1_vars, p3_vars, p4_vars, p5_vars>>)
p3(step) == alt(step, <<p1_vars, p2_vars, p4_vars, p5_vars>>)
p4(step) == alt(step, <<p1_vars, p2_vars, p3_vars, p5_vars>>)
p5(step) == alt(step, <<p1_vars, p2_vars, p3_vars, p4_vars>>)

altUserMain ==
    \/ p1(runPhase1)
    \/ p1_pc[P1_Main] = "returned" /\ p2(runPhase2)
    \/ p2_pc[P2_Main] = "returned" /\ p3(runPhase3)
    \/ p3_pc["main"] = "returned" /\ p4(runPhase4)
    \/ p4_pc["main"] = "returned" /\ p5(runPhase5)

PhaseThreads ==
    \/ p1(p1_consumer) \/ \E id \in P1_Producers : p1(p1_producer(id))
    \/ \E id \in P2_Workers : p2(p2_worker(id))
    \/ p3(p3_generator) \/ p3(p3_transformer) \/ p3(p3_accumulator)
    \/ p4(p4_playerA) \/ p4(p4_playerB)
    \/ \E id \in P5_Tasks : p5(p5_shortTask(id))

-----------------------------------------------------------------------------
\* urosUModeThreadTest(), without its memory test.

u_goes(t, from, to) == u_pc[t] = from /\ u_pc' = [u_pc EXCEPT ![t] = to]

ThreadGoesOnAfterExit(t, from, next) == u_goes(t, from, next)
thread_exit(t, from, next) == u_goes(t, from, "done")

\* Sets the flag and exits; behind the exit it would reset it.
u_workerExit ==
    \/ /\ \E from \in {"set", "reset"} :
             /\ u_goes("workerExit", from, IF from = "set" THEN "exit" ELSE "done")
             /\ exitTestPassed' = One(from = "set")
       /\ UNCHANGED <<u_reg, finishedCount, errorFlag>>
    \/ /\ thread_exit("workerExit", "exit", "reset")
       /\ UNCHANGED <<u_reg, finishedCount, exitTestPassed, errorFlag>>

\* The four workers compute and print; what they share is their last statement.
u_worker(w) ==
    \/ /\ u_goes(w, "load", "store")
       /\ u_reg' = [u_reg EXCEPT ![w] = finishedCount]
       /\ UNCHANGED <<finishedCount, exitTestPassed, errorFlag>>
    \/ /\ u_goes(w, "store", "done")
       /\ finishedCount' = u_reg[w] + 1
       /\ UNCHANGED <<u_reg, exitTestPassed, errorFlag>>

u_create(from, t, first, to) ==
    /\ u_pc["main"] = from
    /\ u_pc' = [u_pc EXCEPT !["main"] = to, ![t] = first]
    /\ UNCHANGED <<u_reg, finishedCount, exitTestPassed, errorFlag>>

\* Main polls the variable that the others write.
u_await(from, cond, to) ==
    /\ u_goes("main", from, IF cond THEN to ELSE from)
    /\ UNCHANGED <<u_reg, finishedCount, exitTestPassed, errorFlag>>

urosUModeThreadTest ==
    \/ u_create("createExit", "workerExit", "set", "awaitExit")
    \/ u_await("awaitExit", exitTestPassed # 0, "check")
    \/ /\ u_goes("main", "check", "createA")
       /\ check(exitTestPassed = 1)
       /\ UNCHANGED <<u_reg, finishedCount, exitTestPassed>>
    \/ u_create("createA", "A", "load", "createB")
    \/ u_create("createB", "B", "load", "createC")
    \/ u_create("createC", "C", "load", "createD")
    \/ u_create("createD", "D", "load", "awaitAll")
    \/ u_await("awaitAll", finishedCount >= Cardinality(U_Workers), "returned")

uros(step) ==
    /\ program = "urosUModeThreadTest"
    /\ step
    /\ UNCHANGED <<program, alt_vars>>

U_Step ==
    uros(urosUModeThreadTest) \/ uros(u_workerExit) \/ \E w \in U_Workers : uros(u_worker(w))

-----------------------------------------------------------------------------
MainReturned ==
    IF program = "altUserMain" THEN p5_pc[P5_Main] = "returned" ELSE u_pc["main"] = "returned"

Ended == MainReturned /\ UNCHANGED vars

Next == altUserMain \/ PhaseThreads \/ U_Step \/ Ended

\* The timer and the ready queue give every ready thread its turn (Kernel,
\* ReadyThreadsRun).
Fairness ==
    /\ WF_vars(altUserMain) /\ WF_vars(uros(urosUModeThreadTest))
    /\ WF_vars(p1(p1_consumer)) /\ \A id \in P1_Producers : WF_vars(p1(p1_producer(id)))
    /\ \A id \in P2_Workers : WF_vars(p2(p2_worker(id)))
    /\ WF_vars(p3(p3_generator)) /\ WF_vars(p3(p3_transformer)) /\ WF_vars(p3(p3_accumulator))
    /\ WF_vars(p4(p4_playerA)) /\ WF_vars(p4(p4_playerB))
    /\ \A id \in P5_Tasks : WF_vars(p5(p5_shortTask(id)))
    /\ WF_vars(uros(u_workerExit)) /\ \A w \in U_Workers : WF_vars(uros(u_worker(w)))

Spec == Init /\ [][Next]_vars /\ Fairness

-----------------------------------------------------------------------------
\* Properties.

U_Positions ==
    {"unborn", "createExit", "awaitExit", "check", "createA", "createB", "createC", "createD",
     "awaitAll", "returned", "set", "exit", "reset", "load", "store", "done"}

TypeOK ==
    /\ program \in {"altUserMain", "urosUModeThreadTest"}
    /\ P1_TypeOK /\ P2_TypeOK /\ P3_TypeOK /\ P4_TypeOK /\ P5_TypeOK
    /\ u_pc \in [U_Threads -> U_Positions]
    /\ u_reg \in [U_Threads -> Nat]
    /\ finishedCount \in Nat
    /\ exitTestPassed \in 0..1
    /\ errorFlag \in 0..1

\* No check() of the programs ever fails, in whatever order the threads run: no
\* item is lost or counted for the wrong producer, the pipeline's sum is
\* right, every slot is set behind the barrier, and no increment is lost.
AllTestsPassed == errorFlag = 0

\* A thread that has still to use a semaphore of its phase finds it open: main
\* opens them before it creates the threads, and when it closes them every
\* thread has used one for the last time.
NothingIsUsedAfterClose ==
    /\ P1_NothingIsUsedAfterClose /\ P2_NothingIsUsedAfterClose /\ P3_NothingIsUsedAfterClose
    /\ P4_NothingIsUsedAfterClose /\ P5_NothingIsUsedAfterClose

\* The ring of phase 1, with many threads that put and semaphores at both ends,
\* and the two pipes of phase 3 are FIFO buffers: no item is overwritten, taken
\* twice or overtaken.
P1Fifo == INSTANCE Fifo WITH
    Chars <- P1_Producers, Capacity <- P1_BUF_CAP, Nothing <- 0,
    queue <- p1_contents, last <- p1_ch
P3aFifo == INSTANCE Fifo WITH
    Chars <- 1..P3_COUNT \union {-1}, Capacity <- P3_PIPE_CAP, Nothing <- 0,
    queue <- p3a_contents, last <- p3_val["transformer"]
P3bFifo == INSTANCE Fifo WITH
    Chars <- {3 * i : i \in 1..P3_COUNT} \union {-1}, Capacity <- P3_PIPE_CAP, Nothing <- 0,
    queue <- p3b_contents, last <- p3_val["accumulator"]
RingsAreFifos == P1Fifo!Spec /\ P3aFifo!Spec /\ P3bFifo!Spec

\* An increment of finishedCount was overwritten: all workers are done, and the
\* count says otherwise.
IncrementWasLost ==
    /\ \A w \in U_Workers : u_pc[w] = "done"
    /\ finishedCount < Cardinality(U_Workers)

\* The programs end: altUserMain() always, urosUModeThreadTest() unless two of its
\* workers ran into each other in finishedCount++, which nothing protects.  Main
\* then waits for ever.
ProgramsEnd == <>(MainReturned \/ IncrementWasLost)

==============================================================================
