-------------------------------- MODULE Kernel --------------------------------
(***************************************************************************)
(* Threads, scheduler, sleeping queue, semaphores and timer of the kernel: *)
(* tcb.cpp, scheduler.cpp, semaphore.cpp, blockedQueue.cpp, the trap       *)
(* handler of riscv.cpp and the boot thread of main.cpp.                   *)
(*                                                                         *)
(* There is one core.  A trap handler runs with interrupts disabled, from  *)
(* the trap of one thread to the sret of another: an action is a whole     *)
(* handler, including the part of the resumed thread's own handler that    *)
(* runs after contextSwitch() returns to it.  The boot and output threads  *)
(* also call kDispatch() outside any trap; this module takes those calls   *)
(* as atomic too (the README says what that leaves out).                   *)
(***************************************************************************)
EXTENDS Integers, Sequences, Functions, SleepingQueue

CONSTANTS
    Boot, OThread, Idle, User,  \* the four TCBs finalMain() makes
    Workers,                    \* the TCBs thread_create() may make
    Sems,                       \* the _sem objects: those sem_open() may make, and
    OutputSem,                  \* itemAvailable of the output buffer
    NoSem, Destroyed,           \* pseudo-semaphores, see waitingOn
    InitValues,                 \* the init arguments sem_open() is given
    Ticks,                      \* the arguments time_sleep() is given
    TimeSlice,                  \* TCB::TIME_SLICE
    MaxInt,                     \* the largest int
    MaxValue                    \* bound on sem_signal(): value stays <= MaxValue

Threads == {Boot, OThread, Idle, User} \union Workers
Callers == {User} \union Workers      \* the threads that run application code

ASSUME ThreadsAssumption ==
    /\ Boot \notin {OThread, Idle, User}
    /\ OThread \notin {Idle, User}
    /\ Idle # User
    /\ Workers \intersect {Boot, OThread, Idle, User} = {}

ASSUME SemsAssumption ==
    /\ OutputSem \in Sems
    /\ NoSem \notin Sems
    /\ Destroyed \notin Sems
    /\ NoSem # Destroyed

ASSUME NumbersAssumption ==
    /\ MaxInt \in Nat
    /\ MaxValue \in 0..MaxInt
    /\ TimeSlice \in Nat \ {0}
    /\ Ticks \subseteq Nat
    /\ InitValues \subseteq 0..MaxValue  \* larger ones turn negative, see README

VARIABLES
    running,           \* TCB::running
    ready,             \* Scheduler::readyThreadQueue
    sleeping,          \* SleepingQueue::sleepingThreadQueue, with the deltas
    created,           \* the TCBs that exist
    finished,          \* the TCBs with finished = true
    timeSliceCounter,  \* TCB::timeSliceCounter
    open,              \* the semaphores that exist
    value,             \* _sem::value
    blocked,           \* _sem::blockedQueue
    waitingOn,         \* the semaphore whose wait() a thread is suspended in,
                       \* Destroyed once that one is deleted, NoSem if none
    waitResult,        \* what the last wait() of a thread returned
    bootPhase          \* which loop of finalMain() the boot thread is in

threadVars == <<running, ready, created, finished>>
semVars == <<open, value, blocked, waitingOn, waitResult>>
vars == <<threadVars, sleeping, timeSliceCounter, semVars, bootPhase>>

TypeOK ==
    /\ running \in Threads
    /\ ready \in Seq(Threads)
    /\ sleeping \in Seq([tcb : Threads, delta : Int])
    /\ created \in SUBSET Threads
    /\ finished \in SUBSET created
    /\ timeSliceCounter \in 0..(TimeSlice - 1)
    /\ open \in SUBSET Sems
    /\ value \in [Sems -> Int]
    /\ blocked \in [Sems -> Seq(Threads)]
    /\ waitingOn \in [Threads -> Sems \union {NoSem, Destroyed}]
    /\ waitResult \in [Threads -> {0, -1}]
    /\ bootPhase \in {"awaitUser", "awaitHelpers", "halted"}

\* finalMain() up to its first loop: the boot thread runs and is in no queue.
Init ==
    /\ running = Boot
    /\ ready = <<OThread, Idle, User>>
    /\ sleeping = <<>>
    /\ created = {Boot, OThread, Idle, User}
    /\ finished = {}
    /\ timeSliceCounter = 0
    /\ open = {OutputSem}
    /\ value = [s \in Sems |-> 0]
    /\ blocked = [s \in Sems |-> <<>>]
    /\ waitingOn = [t \in Threads |-> NoSem]
    /\ waitResult = [t \in Threads |-> 0]
    /\ bootPhase = "awaitUser"

-----------------------------------------------------------------------------
\* The parts the handlers share.

\* List::addLast().
AddFirst(q, t) == <<t>> \o q
AddLast(q, t) == Append(q, t)

\* The conversion of an unsigned argument to int.
ToInt(n) == ((n + MaxInt + 1) % (2 * (MaxInt + 1))) - (MaxInt + 1)

\* What wait() may read from works when it goes on: the field of a live
\* semaphore is true, that of a deleted one is memory of the next allocation.
WorksRead(s) == IF s = Destroyed THEN BOOLEAN ELSE {TRUE}

\* Scheduler::get() on queue rdy and contextSwitch() to what it returns.  The
\* next thread leaves the handler it was suspended in: if that was a wait(), it
\* now reads works and returns.  From an empty queue get() returns nullptr and
\* the caller goes on.  wo is waitingOn with the caller's own entry up to date.
SwitchTo(rdy, wo) ==
    LET next == IF rdy = <<>> THEN running ELSE Head(rdy)
    IN  /\ running' = next
        /\ ready' = IF rdy = <<>> THEN rdy ELSE Tail(rdy)
        /\ waitingOn' = [wo EXCEPT ![next] = NoSem]
        /\ \E works \in WorksRead(wo[next]) :
              waitResult' = IF wo[next] = NoSem THEN waitResult
                            ELSE [waitResult EXCEPT ![next] = IF works THEN 0 ELSE -1]

\* TCB::kDispatch() with ready queue rdy; fin are the finished threads.
KDispatchOfDead(rdy, fin) == SwitchTo(AddLast(rdy, running), waitingOn)
KDispatchWithoutPut(rdy, fin) == SwitchTo(rdy, waitingOn)
KDispatch(rdy, fin) ==
    SwitchTo(IF running \in fin THEN rdy ELSE AddLast(rdy, running), waitingOn)

-----------------------------------------------------------------------------
\* System calls of application threads (and thread_dispatch() of the idle one).

\* 0x11, with a start routine: the constructor queues the new thread.
ThreadCreate(t) ==
    /\ running \in Callers
    /\ t \in Workers \ created
    /\ created' = created \union {t}
    /\ ready' = AddLast(ready, t)
    /\ UNCHANGED <<running, finished, sleeping, timeSliceCounter, semVars, bootPhase>>

\* finalMain() sets these one after the other.
oThreadStop == bootPhase # "awaitUser"
idleStopTooLate == bootPhase = "halted"
idleStop == bootPhase # "awaitUser"

\* No character is left to be sent: getCnt() of the output buffer is 0.  The
\* semaphore can count fewer than there are, for a signal can be lost, never more.
NothingToSend == value[OutputSem] = 0

\* 0x12.  The idle thread gets here when its loop sees idleStop; the output
\* thread does the same in kernelThreadWrapper() once OThreadBody() returns.
ThreadExit ==
    /\ \/ running \in Callers
       \/ running = Idle /\ idleStop
       \/ running = OThread /\ oThreadStop /\ NothingToSend
    /\ finished' = finished \union {running}
    /\ KDispatch(ready, finished')
    /\ UNCHANGED <<created, sleeping, timeSliceCounter, open, value, blocked, bootPhase>>

\* 0x13.
ThreadDispatch ==
    /\ running \in Callers \/ (running = Idle /\ ~idleStop)
    /\ timeSliceCounter' = 0
    /\ KDispatch(ready, finished)
    /\ UNCHANGED <<created, finished, sleeping, open, value, blocked, bootPhase>>

\* 0x31: TCB::putCurrentToSleep(), whose argument becomes an int.
TimeSleep(ticks) ==
    /\ running \in Callers
    /\ \E pos \in 0..Len(sleeping) :
          /\ WalkStopsAt(sleeping, ToInt(ticks), pos)
          /\ sleeping' = IF running \in finished THEN sleeping
                         ELSE InsertSleeper(sleeping, running, ToInt(ticks), pos)
    /\ SwitchTo(ready, waitingOn)
    /\ UNCHANGED <<created, finished, timeSliceCounter, open, value, blocked, bootPhase>>

\* 0x21.
SemOpen(s, init) ==
    /\ running \in Callers
    /\ s \notin open
    /\ open' = open \union {s}
    /\ value' = [value EXCEPT ![s] = ToInt(init)]
    /\ UNCHANGED <<threadVars, sleeping, timeSliceCounter, blocked, waitingOn,
                   waitResult, bootPhase>>

\* The threads the destructor takes from the blocked queue, in order.
ClosedFirst(q) == IF q = <<>> THEN q ELSE <<Head(q)>>
ClosedBackwards(q) == [i \in DOMAIN q |-> q[Len(q) + 1 - i]]
ClosedWaiters(q) == q

\* 0x22: the destructor readies all waiting threads, then the object is freed.
\* A thread still inside wait() keeps a pointer to the freed object.
SemClose(s) ==
    /\ running \in Callers
    /\ s \in open \ {OutputSem}
    /\ open' = open \ {s}
    /\ ready' = ready \o ClosedWaiters(blocked[s])
    /\ blocked' = [blocked EXCEPT ![s] = <<>>]
    /\ value' = [value EXCEPT ![s] = 0]    \* none: the object is gone
    /\ waitingOn' = [t \in Threads |-> IF waitingOn[t] = s THEN Destroyed ELSE waitingOn[t]]
    /\ UNCHANGED <<running, created, finished, sleeping, timeSliceCounter, waitResult,
                   bootPhase>>

\* The value a wait() has lowered tells whether the caller blocks.
BlocksAtZero(v) == v <= 0
Blocks(v) == v < 0

\* 0x23 on a semaphore that is open.  The output thread calls wait() in get(),
\* when it sees a character, whose signal may have been lost: it may find any
\* value, and is then held there until the next putc().
SemWait(s) ==
    /\ IF s = OutputSem THEN running = OThread ELSE running \in Callers
    /\ s \in open
    /\ value' = [value EXCEPT ![s] = @ - 1]
    /\ IF Blocks(value'[s])
       THEN /\ blocked' = [blocked EXCEPT ![s] = AddLast(@, running)]
            /\ SwitchTo(ready, [waitingOn EXCEPT ![running] = s])
       ELSE /\ waitResult' = [waitResult EXCEPT ![running] = 0]
            /\ UNCHANGED <<running, ready, blocked, waitingOn>>
    /\ UNCHANGED <<created, finished, sleeping, timeSliceCounter, open, bootPhase>>

\* 0x24 on a semaphore that is open, and 0x42, putc(), which signals OutputSem
\* unless the buffer is full; MaxValue bounds the model only.
SemSignal(s) ==
    /\ running \in Callers
    /\ s \in open
    /\ value[s] < MaxValue
    /\ value' = [value EXCEPT ![s] = @ + 1]
    /\ IF blocked[s] # <<>>
       THEN /\ ready' = AddLast(ready, Head(blocked[s]))
            /\ blocked' = [blocked EXCEPT ![s] = Tail(@)]
       ELSE UNCHANGED <<ready, blocked>>
    /\ UNCHANGED <<running, created, finished, sleeping, timeSliceCounter, open,
                   waitingOn, waitResult, bootPhase>>

-----------------------------------------------------------------------------
\* The tick about to be counted is the last one of the running thread's slice.
SliceEndsLate == timeSliceCounter + 1 > TimeSlice
SliceEnds == timeSliceCounter + 1 >= TimeSlice

\* The timer interrupt: wake sleepers, count the tick, preempt at the slice's end.
TimerTick ==
    /\ bootPhase # "halted"
    /\ \E n \in 0..Len(sleeping) :
          LET lowered == LowerFirst(sleeping, 1)
              rdy == ready \o SubSeq(SleeperSeq(lowered), 1, n)
          IN  /\ WakesExactly(lowered, n)
              /\ sleeping' = SubSeq(lowered, n + 1, Len(lowered))
              /\ IF SliceEnds
                 THEN /\ timeSliceCounter' = 0
                      /\ KDispatch(rdy, finished)
                 ELSE /\ timeSliceCounter' = timeSliceCounter + 1
                      /\ ready' = rdy
                      /\ UNCHANGED <<running, waitingOn, waitResult>>
    /\ UNCHANGED <<created, finished, open, value, blocked, bootPhase>>

\* The output thread has nothing to send and gives the processor up.
OThreadDispatch ==
    /\ running = OThread
    /\ ~oThreadStop
    /\ NothingToSend
    /\ KDispatch(ready, finished)
    /\ UNCHANGED <<created, finished, sleeping, timeSliceCounter, open, value,
                   blocked, bootPhase>>

\* The threads the current loop of finalMain() waits for.
Awaited == IF bootPhase = "awaitUser" THEN {User} ELSE {OThread, Idle}

\* One more pass of that loop.
BootDispatch ==
    /\ running = Boot
    /\ bootPhase # "halted"
    /\ ~(Awaited \subseteq finished)
    /\ KDispatch(ready, finished)
    /\ UNCHANGED <<created, finished, sleeping, timeSliceCounter, open, value,
                   blocked, bootPhase>>

\* The loop ends: set the stop flags, or delete everything and leave main().
BootAdvance ==
    /\ running = Boot
    /\ bootPhase # "halted"
    /\ Awaited \subseteq finished
    /\ bootPhase' = IF bootPhase = "awaitUser" THEN "awaitHelpers" ELSE "halted"
    /\ UNCHANGED <<threadVars, sleeping, timeSliceCounter, semVars>>

\* main() has returned: the machine is off.
Halted == bootPhase = "halted" /\ UNCHANGED vars

ThreadStep ==
    \/ ThreadExit
    \/ ThreadDispatch
    \/ \E t \in Workers : ThreadCreate(t)
    \/ \E ticks \in Ticks : TimeSleep(ticks)
    \/ \E s \in Sems, init \in InitValues : SemOpen(s, init)
    \/ \E s \in Sems : SemClose(s) \/ SemWait(s) \/ SemSignal(s)

Next ==
    \/ ThreadStep
    \/ TimerTick
    \/ OThreadDispatch
    \/ BootDispatch
    \/ BootAdvance
    \/ Halted

Spec == Init /\ [][Next]_vars

-----------------------------------------------------------------------------
\* Safety.

Sleepers == Range(SleeperSeq(sleeping))
BlockedThreads == {t \in Threads : \E s \in Sems : t \in Range(blocked[s])}
Live == created \ finished

\* The queues hold the threads of set held, and each of them once.
Hold(rdy, slp, blk, held) ==
    /\ IsInjective(rdy)
    /\ IsInjective(slp)
    /\ \A s \in Sems : IsInjective(blk[s])
    /\ Range(rdy) \intersect Range(slp) = {}
    /\ \A s \in Sems : Range(blk[s]) \intersect (Range(rdy) \union Range(slp)) = {}
    /\ \A r, s \in Sems : r # s => Range(blk[r]) \intersect Range(blk[s]) = {}
    /\ held = {t \in Threads : \/ t \in Range(rdy) \union Range(slp)
                               \/ \E s \in Sems : t \in Range(blk[s])}

\* Scheduling never loses or duplicates a thread: a thread that was created and
\* has not finished is the running one or is in exactly one queue, exactly once,
\* whatever put()/get() moved it; one that finished or does not exist is nowhere.
\* In particular the "dead thread walks again" line of the exit handler is dead.
EveryThreadInOnePlace ==
    /\ running \in Live
    /\ Hold(ready, SleeperSeq(sleeping), blocked, Live \ {running})

\* The boot thread runs or is ready: Scheduler::get() never returns nullptr to
\* a handler that gave up the running thread, so no handler goes on running a
\* thread that it has already queued, or that is dead.
BootIsRunnable == running = Boot \/ Boot \in Range(ready)

\* No lost and no spurious wake-up: the threads blocked on a semaphore are as
\* many as value is below zero, and none is blocked while value is not negative,
\* through any order of waits, signals, closes and reopenings.
SemaphoreCount ==
    \A s \in Sems : Len(blocked[s]) = IF value[s] < 0 THEN -value[s] ELSE 0

\* A queue gives a thread back to the scheduler only through the call it is
\* blocked in: a thread in a blockedQueue is suspended in wait() on that very
\* semaphore, which is open; a thread suspended in wait() is either in that
\* queue or was made ready; the running thread is inside no wait().
WaitersAreBlocked ==
    /\ \A s \in Sems, t \in Threads : t \in Range(blocked[s]) => waitingOn[t] = s
    /\ \A s \in Sems : s \notin open => blocked[s] = <<>>
    /\ \A t \in Threads : waitingOn[t] # NoSem => t \in Range(ready) \union BlockedThreads
    /\ waitingOn[running] = NoSem

\* A thread that is inside wait() when the semaphore is closed gets -1 from it.
\* This is what the comment in the destructor says; the code breaks it, for the
\* thread reads works from the object after it was freed.
WaitOnClosedFails ==
    [][\A t \in Threads : waitingOn[t] = Destroyed /\ waitingOn'[t] = NoSem
          => waitResult'[t] = -1]_vars

\* t is before u in queue q.
Before(q, t, u) == \E j \in DOMAIN q : q[j] = u /\ \E i \in 1..(j - 1) : q[i] = t

\* t was in queue q before u, or u was not in it and comes now.
WasAhead(q, t, u) == t \in Range(q) /\ (u \notin Range(q) \/ Before(q, t, u))

\* No overtaking: a thread that waits for the processor stays ahead of those
\* behind it and of whoever gets ready later, though a step may move sleepers and
\* waiters to the ready queue; so does a waiter of a semaphore, and waiters that
\* one step readies together keep their order.
QueuesAreFair ==
    [][/\ \A t \in Range(ready) \intersect Range(ready') : \A u \in Range(ready') \ {t} :
             WasAhead(ready, t, u) => Before(ready', t, u)
       /\ \A s \in Sems : \A t \in Range(blocked[s]) : \A u \in Threads \ {t} :
             WasAhead(blocked[s], t, u) =>
                \/ u \notin Range(blocked[s]) \union Range(blocked'[s])
                \/ Before(blocked'[s], t, u)
                \/ t \in Range(ready') /\ u \in Range(blocked'[s])
                \/ Before(ready', t, u)]_vars

-----------------------------------------------------------------------------
\* What the kernel implements.

\* The ticks each sleeping thread still has to wait, as the deltas say.
Remaining ==
    [t \in Sleepers |-> Due(sleeping)[CHOOSE i \in DOMAIN sleeping : sleeping[i].tcb = t]]

Clock == INSTANCE SleepClock WITH remaining <- Remaining, Ticks <- {ToInt(n) : n \in Ticks}

\* Every sleeper wakes with exactly the tick that ends its own count, however
\* many others are put before it, behind it or to the same tick: the delta list
\* implements one counter per thread.
SleepIsExact == Clock!Spec

Statuses ==
    LET readyThreads == Range(ready)
        sleepers == Sleepers
    IN  [t \in Threads |->
            IF t \notin created THEN "new"
            ELSE IF t \in finished THEN "finished"
            ELSE IF t = running THEN "running"
            ELSE IF t \in readyThreads THEN "ready"
            ELSE IF t \in sleepers THEN "sleeping"
            ELSE "blocked"]
Permits == [s \in Sems |-> IF value[s] > 0 THEN value[s] ELSE 0]
WaitsFor == LET held == BlockedThreads IN [t \in Threads |-> IF t \in held THEN waitingOn[t] ELSE NoSem]

Life == INSTANCE ThreadLife WITH
            First <- Boot,
            Started <- {OThread, Idle, User},
            Nobody <- NoSem,
            InitPermits <- {ToInt(n) : n \in InitValues},
            status <- Statuses,
            permits <- Permits,
            waitsFor <- WaitsFor

\* The four queues, the running pointer and the semaphore counters implement
\* the life of threads: every step makes a legal transition of every thread, a
\* wait passes if a permit is left and blocks if none is, a signal with waiters
\* frees one of them and a close frees all; no step does two of these at once.
ThreadsLiveLegally == Life!Spec

-----------------------------------------------------------------------------
\* Liveness.

\* The timer keeps ticking whatever runs.  The boot and the idle thread, given the
\* processor again and again, get through their loops, which wait for nothing: a
\* slice is far longer than one pass.  Nothing is assumed of the output thread,
\* which may wait for ever for a signal that was lost, or be given more and more
\* to send, nor of application threads, which may loop for ever.
Fairness ==
    /\ WF_vars(TimerTick)
    /\ SF_vars(BootDispatch \/ BootAdvance)
    /\ SF_vars(running = Idle /\ ThreadExit)

LiveSpec == Spec /\ Fairness

\* Round robin starves nobody: a ready thread gets the processor, even if every
\* application thread computes for ever, creates threads, signals and sleeps.
ReadyThreadsRun ==
    \A t \in Threads : t \in Range(ready) ~> (running = t \/ bootPhase = "halted")

\* A sleeping thread wakes up, whatever the others do meanwhile.
SleepersWake ==
    \A t \in Threads : t \in Sleepers ~> (t \notin Sleepers \/ bootPhase = "halted")

\* Once the user and the output thread have finished the kernel shuts down,
\* whatever state the threads of the application are left in.  Whether the output
\* thread finishes is the business of Console: it need not, and then the boot
\* thread waits for it in its second loop for ever.
ShutdownCompletes == {User, OThread} \subseteq finished ~> bootPhase = "halted"

==============================================================================
