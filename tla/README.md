# A verification of the os1-projekat kernel

The repository is a small RISC-V kernel in C++: one core, preemptive round-robin
threads, counting semaphores, sleeping, a console and a memory allocator, reached
through some fifteen system calls. This directory holds TLA+ models of it, TLC
configurations that check them on small instances, and proofs for TLAPS.

Paths below are those of the repository (`src/tcb.cpp`, `h/tcb.hpp`).

## 1. The system

| part | source | state | operations |
|---|---|---|---|
| thread dispatch | `src/tcb.cpp`, `h/tcb.hpp`, `src/contextSwitch.S` | `TCB::running`, per thread `finished`, `timeSliceCounter` | create, `kDispatch`, `putCurrentToSleep`, exit |
| scheduler | `src/scheduler.cpp`, `h/list.hpp` | `readyThreadQueue`; `sleepingThreadQueue` with relative deltas | put, get, decrement |
| semaphores | `src/semaphore.cpp`, `src/blockedQueue.cpp` | `works`, `value`, `blockedQueue` | open, close, wait, signal |
| traps | `src/riscv.cpp`, `src/supervisorTrap.S` | `sepc`, `sstatus` | system calls, timer and console interrupts |
| boot and shutdown | `src/main.cpp` | `idleStop`, `oThreadStop` | set-up, two waiting loops, deletes |
| allocator | `src/MemoryAllocator.cpp` | circular free list, `iteratorAddress`, counters | allocate, free, queries |
| console | `src/_buffer.cpp`, `src/io.cpp` | two ring buffers with a semaphore each | getc, putc, console interrupt, output thread |
| interface | `src/syscall_c.cpp`, `src/syscall_cpp.cpp`, `src/_new.cpp` | none | wrappers around `ecall` |
| test programs | `src_tests/` | semaphores, rings, counters | producer-consumer, barrier, pipeline, ping-pong, storm of threads |
| printing, workers, `lib/` | | | not modelled, see section 8 |

How they interact: an application thread calls `ecall`; the handler runs with
interrupts disabled and may put the thread in the ready queue, the sleeping
queue or a blocked queue and switch to the head of the ready queue, which then
leaves *its own* handler. The timer wakes sleepers, counts the slice and switches
when it is used up. The console interrupt puts characters in the input buffer
and signals its semaphore; `putc()` does the same with the output buffer, which
the output thread empties by polling. Four threads are made by `finalMain()`: the
boot thread, the output thread, the idle thread and the user thread. The boot
thread waits in a loop for the user thread, sets the stop flags, and waits for
the other two.

What is hard here:

* a switch inside a handler: one thread's handler ends in the middle and another's
  goes on, with whatever state changed meanwhile (`tcb.cpp:47`, `semaphore.cpp:54`);
* a thread must be in exactly one queue and the ready queue must never be empty
  when a thread gives up the processor (`tcb.cpp:44`);
* the sleeping queue keeps differences, so every insertion changes a neighbour;
* objects that are freed while threads are inside their methods (`semaphore.cpp:41`);
* the boot and the output thread call `kDispatch()` and `wait()` outside a trap,
  with interrupts enabled, so that a tick may find the registers, `running`, the
  lists or the heap halfway (`main.cpp:60`, `tcb.cpp:45-52`);
* the mode a thread runs in depends on what SPP happened to be when it was first
  switched to (`tcb.cpp:97`);
* the allocator merges slabs while it walks over them.

`PROJECT.json` lists these and the others as hazards, each at its line.

## 2. Modules

| module | models | uses |
|---|---|---|
| `SleepingQueue` | the list part of `SleepingQueue::put` and `decrement`: operators on sequences | |
| `Kernel` | threads, scheduler, semaphores, timer, boot loops | `SleepingQueue`, `SleepClock`, `ThreadLife` |
| `SleepClock` | abstract: one counter per sleeping thread | |
| `ThreadLife` | abstract: one state per thread, permits and waiters per semaphore | |
| `Allocator` | `allocateBytes` step by step, `deallocate`, both free-space queries | `Heap` |
| `AllocatorRace` | the same, with calls of `deallocate()` that overlap others | `Allocator` |
| `Heap` | abstract: stretches of blocks that do not overlap | |
| `Switching` | trap entry, `sret`, `sstatus`, `sepc`, `kDispatch()` access by access, contexts, thread start | |
| `Console` | ring buffers, getc, putc, console interrupt, output thread | `Fifo` |
| `Fifo` | abstract: a bounded queue | |
| `TestSupport` | what the test programs share: `check()`, semaphores, ring buffers | |
| `TestProducers`, `TestBarrier`, `TestPipeline`, `TestPingPong`, `TestStorm` | the phases 1 to 5 of `altUserMain()` | `TestSupport` |
| `TestPrograms` | `altUserMain()` as a whole, and the thread parts of `urosUModeThreadTest()` | the phases, `Fifo` |
| `MCKernel`, `MCAllocator`, `MCAllocatorRace`, `MCConsole`, `MCSwitching`, `MCTestPrograms` | the instances for TLC | |
| `QueueLemmas` | lemmas on sequences, on counting in them and on the sleeping queue | `SleepingQueue` |
| `KernelProofs` | theorems on `Kernel`: its invariants, and that it implements `ThreadLife` and `SleepClock` | `Kernel`, `QueueLemmas` |
| `AllocatorProofs` | theorems on `Allocator`: its invariants, and that it implements `Heap` | `Allocator`, `QueueLemmas` |
| `ConsoleProofs` | theorems on `Console`, with the arithmetic of ring buffers | `Console`, `QueueLemmas` |
| `SwitchingStacks`, `SwitchingProofs` | theorems on `Switching`: stacks and registers; places of the threads and the results | `Switching`, `QueueLemmas` |
| `TestRingProofs` | lemmas on semaphores and rings as the test programs use them; the proofs about phase 1 | `TestProducers`, `QueueLemmas` |
| `TestProgramsProofs` | the proofs about phases 2 to 5 and about the programs as a whole | `TestPrograms`, `TestRingProofs` |

### Kernel

One action is one whole trap handler, from the trap of the running thread to the
`sret` of the thread that runs next. `SwitchTo` is the common end of all that
give up the processor: take the head of the ready queue, and let that thread
leave the handler it was suspended in, which for a `wait()` means reading `works`
and returning. `waitingOn` stands for the part of a suspended thread's stack that
matters: the `this` of its `wait()`. It becomes `Destroyed` when the semaphore is
deleted; what a thread then reads is a choice, for the memory belongs to the next
allocation. Timer ticks come at any time; the guard of every action but the
ticks says which thread must be running.

Left out or simplified:

* the calls of `kDispatch()` by the boot and the output thread are atomic, as if
  interrupts were disabled (`Switching` has them step by step), and a test of a
  loop condition and the guarded call are one step (a tick between the two adds
  nothing but one more pass);
* of the output thread this module has the dispatches, the calls of `wait()` in
  `get()` and the end; the characters are in `Console`. `OutputSem` stands for
  `itemAvailable` of the output buffer, `putc()` is `SemSignal(OutputSem)`, and
  `NothingToSend` for `getCnt() = 0`: the semaphore may count fewer characters than
  there are, since signals can be lost, so that `wait()` is allowed at any value.
  The thread may then be held in it for ever;
* allocation succeeds; start routines are not null; application threads use only
  open semaphores; the value of a semaphore that is gone is set to 0;
* the initial values of semaphores are within `0..MaxValue` (a larger unsigned
  becomes a negative int at `semaphore.cpp:9`);
* `currentQueue`, `allSems` and all printing serve debugging only.

### Switching

The finer view of the same switch. Every thread has a stack of frames: the
outermost says where its own code is, a `Trap` frame stands for the registers that
`supervisorTrap` saved, a `Dispatch` frame for a call of `kDispatch()`,
`putCurrentToSleep()` or `putIntoQueue()` with its locals `ksepc`, `ksstatus`, `old`
and `next`. `context[t]` says on whose stack the saved `ra` and `sp` of TCB `t` lie,
`cur` whose stack is in `sp`; in a kernel that works `context[t] = t` always and `cur`
follows `running`. `sepc` holds a place in the code of some thread. One step is one
access: reading `sepc`, reading `sstatus` (and the local `old`), the put, the get,
`running = next`, `contextSwitch()`, writing `sstatus`, writing `sepc`.

In a trap SIE is clear and no interrupt fits in between; the two kernel threads
call `kDispatch()` outside a trap, and then `Interrupt` may come before any of these
steps, as it may between `csrw` and `sret` in `popSppSpie()`. A thread that is switched
to with SIE set keeps it until its own `kDispatch()` restores `sstatus`, so that a
tick may come there too.

Lists and heap are not reentrant. A call on a queue is one step that takes effect
at once, but if another dispatch was interrupted at its own put or get, which
stands for every point inside that call, `UsesLists` lets the step break them. What a
machine with a broken list, a lost context or a thread at a wrong place does is
not described: such a state only stutters (`Lost`), and the properties say how it
can come about. Register values that are dead are dropped from the state, as the
`sepc` after an `sret` is. The registers at reset are taken as SPIE clear and SPP
user. The output thread may end once the user thread has (`OThreadEnds`). Not
included: its `wait()` (in `Console`), and the end of the boot thread.

### TestPrograms and the phases

Each phase of the stress test is a module with its own variables; `TestPrograms` runs
one after the other and adds `urosUModeThreadTest()`. `p1_pc[t]` is the place thread `t`
has reached, named for what it does next there, and `p1_i[t]` its loop counter; the
operators `p1_bufPut`, `p2_barrierPhase1`, `p3_transformer` and so on have the names of
the functions, and each of their disjuncts is one system call or one access to shared
memory. `x++` is two such steps, as are an item put in a ring and the move of `tail`.
Any thread that is not blocked may take the next step, which includes every schedule
that round robin with preemption can produce; `thread_dispatch()` is therefore no
step. What a thread does with its own locals is part of the step before, and so is
the end of a loop.

The semaphore operations are those of `Kernel` with the ready queue left out: a thread
that has to wait goes on to its next place at once and is held there for as long as
it is in the queue of the semaphore (`IsBlocked`). `p1_counts` has one writer and is
changed in one step. Producers put their number in the ring, where the code adds
`'0'`, and workers and slots of phase 2 count from 1. The semaphores of a phase are
opened in one step, before there are threads, and closed in one step at the first
`sem_close()`, which is the hardest case for a thread that might still use one. Until
they are opened their values are 0. A load from `p2_arrived` that was stored back is
forgotten, since nothing reads it again.

`p1_contents`, `p3a_contents` and `p3b_contents` are what the rings hold in terms of the
abstract `Fifo`: an item is in it from the store on, although `tail` moves later, and out of
it from the load on, although `head` moves later.

### Allocator

A slab is named by its block index. `size` and `next` are the two fields of its
MMD, `next = Allocated` is `nextBID == -1`. `allocateBytes()` is a loop over `pc`:
in "test" the slab after the iterator is rejected, taken (whole or split), or the
search is given up; in "merge" slabs above the iterator are taken in one by one
and then the iterator advances. Integers have their width: `% Word` where the code
has `uint32`, `% Size` where it has `size_t`. Requests of 2^38 bytes and more, for
which `neededBlocks()` overflows, are excluded by `RequestsAssumption`. A pointer that is
freed twice is refused while its slab still exists; one whose slab was merged away
is outside the model, as is any pointer that was never granted. `TotalAvailableBytes`
is the answer of `mem_get_free_space()` (0x03): the MMD of one slab is taken off, also
when no block is free, and then the result wraps to `Size - MMDSize`.

`Allocator` has one call at a time, as traps have. `AllocatorRace` adds what the boot and
the output thread do in `kDispatch()` with interrupts enabled: `Scheduler::get()`
deletes a list node, and `deallocate()` is then four steps, the load and the store of
`totalAvailableBlocks += nBlocks` among them, between which whole calls of other
threads and steps of the other kernel thread may come. A trap between the links of the
free list, and one inside the `allocateBytes()` that `Scheduler::put()` makes, are left
out: they break the list itself, and `BreaksOnlyInWindows` of `Switching` says when. Here
everything but the counter stays whole, which shows that the counter needs no broken
list to go wrong.

### Console

getc, putc and the interrupt are one step each; a getc that must wait is two.
The output thread is modelled step by step, with a load and a store for
`value -= 1`, because it calls `wait()` outside a trap. Its SIE bit is a variable
that never changes: `kDispatch()` restores the `sstatus` it was called with
(`tcb.cpp:40,51`), so the bit is that of whoever switched to the thread first. The
boot thread enables interrupts (`main.cpp:47`) before it does so; a timer trap may
come before it and have it disabled. The ready queue is abstracted to "any thread
that can go on", which allows more orders than round robin. `mutexHead` is left
out: it is taken and given back within one step, as the only reader outside a trap
is the output thread, on a buffer nobody else reads. The transmission of a
character is part of `OTake`, and one `Input` is one pass of the handler's loop.

## 3. Properties

Safety of `Kernel`: `EveryThreadInOnePlace` (nobody is lost or queued twice),
`BootIsRunnable` (the ready queue is never empty for a thread that gives up),
`SemaphoreCount`, `WaitersAreBlocked`, `QueuesAreFair` (an action property: newcomers go last, no
overtaking across any move between queues). Refinements: `SleepIsExact` says that
the list of deltas implements `SleepClock`; `ThreadsLiveLegally` that queues,
running pointer and counters implement `ThreadLife`, in which a wait passes exactly
if a permit is left, a signal frees one waiter or leaves a permit, and a close
frees all. Liveness: `ReadyThreadsRun`, `SleepersWake`, `ShutdownCompletes`.

`Allocator`: `SlabsTileTheHeap`, `ListIsOneCircle`, `FreeSpaceIsReported` (the
counter is the blocks of the free slabs, as long as calls do not overlap, and the two
free-space queries agree),
`GrantsAsReported` (a grant or refusal agrees with what
`mem_get_largest_free_block()` would have said, which uses other code),
the refinement `GrantsAreStretches` of `Heap`, and the liveness `SearchEnds`.
`AllocatorRace`: `GrantsFitFreeSpace` (nothing is granted that is larger than the free
space reported), which the code violates.

`Console`: `InputIsAccounted` (characters = permits + readers woken for one),
`SendsWhatIsThere` (holds even when signals are lost), the refinement
`BuffersAreFifos`, and the liveness `AcceptedOutputIsSent` and `OutputThreadEnds`, both
for an output thread with interrupts disabled, and `EndsUnlessSignalLost`: an output thread
of either kind ends at shutdown once the others stop writing, unless a lost signal
holds it in its `wait()` (`HeldByLostSignal`), and then for ever.

`Switching`: `TrapsReturnAsTheyCame` (a handler leaves for the interrupted place, in
the interrupted mode, whatever ran meanwhile), `NobodyIsForgotten` (a live thread
executes, is queued or is in the hands of an interrupted dispatch; a finished thread
is never queued, an application thread at most once, and the boot and the output
thread at most twice, however many ticks come in their dispatches; the exception
`EndedTwice` is a tick that ends the slice inside the last dispatch of the dead output
thread, which loses the thread that call had taken, the boot thread for example), `CleanStartsStayInUserMode` (a thread that was first
switched to out of user mode never executes its body in supervisor mode and
never faults in `popSppSpie()`), and the action property `BreaksOnlyInWindows` (a
context, a list or the heap breaks only by a tick between `running = next` and
`contextSwitch()`, or in put or get, of a kernel thread outside a trap).

`TestPrograms`: `AllTestsPassed` (no `check()` of the programs fails),
`NothingIsUsedAfterClose`, `BarrierSeparates` (the barrier holds in both directions),
the refinement `RingsAreFifos` of `Fifo` for all three rings, and the liveness
`ProgramsEnd`. `altUserMain()` ends; `urosUModeThreadTest()` ends unless two workers
ran into each other in the unprotected `finishedCount++`
(`src_tests/urosUModeThreadTest.cpp:38,49,87,112`), after which main waits for ever.

## 4. Runs

| run | instance | what it shows |
|---|---|---|
| `kernel_safety` | 3 application threads, 1 semaphore of theirs and that of the output buffer, sleeps of 1, slice of 1 tick | types, safety, fairness of queues, refinement of `ThreadLife` (380 thousand states) |
| `kernel_liveness` | 3 application threads, the semaphore of the output buffer, sleeps of 1, 2 and 3, slice of 2 | refinement of `SleepClock`, the three liveness properties |
| `sleep_zero` | 2 application threads, sleeps of 0 and 2 | *violates* `SleepersWake` |
| `sem_close` | 2 application threads, 1 semaphore | *violates* `WaitOnClosedFails` |
| `allocator` | 5 blocks, requests of 1, 2, 3 and 6 blocks | all of the allocator |
| `allocator_hang` | 3 blocks | *violates* `SearchReturns` |
| `allocator_underflow` | 3 blocks, both kernel threads free nodes | *violates* `GrantsFitFreeSpace` |
| `console` | 2 readers, 2 places in each buffer, 2 characters | types, safety, refinement of `Fifo`, the three liveness properties (793 thousand states) |
| `lost_signal` | interrupts enabled in the output thread | *violates* `OutputIsAccounted` |
| `switching` | boot and output thread, 2 application threads, 2 interrupts of kernel code | all of `Switching` |
| `switching_mode` | the same with 1 interrupt | *violates* `ApplicationInUserMode` |
| `test_programs` | 2 producers of 2 items, rings of 2 slots, a barrier of 3, a pipeline of 3 numbers, 3 rounds, 3 short threads | all of `TestPrograms` (51 thousand states) |

Why the bounds are enough. Two workers and the user thread give a running thread,
one in the ready queue and one in a blocked or the sleeping queue, or two in the
same queue, and a third that creates, closes or signals meanwhile; the kernel's own
threads add three more to the ready queue. In the sleeping queue three entries give
a predecessor, the new one and a follower, with equal, smaller and larger counts.
Slice 2 is the code's own `TIME_SLICE`; `kernel_safety` has a slice of 1, for the slice
matters only to which tick switches, and a switch with every tick leaves room for a
third application thread beside the output thread's waits. A semaphore's value goes up to 1
(`MaxValue`, a bound in the guard of `SemSignal`) and down to minus the number of
threads. `MaxInt` is 7, far above what the runs reach. Five blocks hold three free
slabs that are not adjacent, with allocated ones between them, and the requests lie on both sides of
the boundary at which an MMD no longer fits; the request of 6 blocks never fits. In
the console, two places suffice for full, empty and wrapped-around rings. The
workers of `Kernel` are interchangeable, so `kernel_safety` uses symmetry, and so are
the kernel threads of `AllocatorRace`; no run with liveness does. In the run with
liveness no application thread waits on a semaphore: one that does is in no queue of the
scheduler, and when it is woken it joins the ready queue as a sleeper does.

In `switching`, `MaxHits` bounds the interrupts of kernel code; those of application
code are not bounded. Two are needed for one tick in each of two dispatches, or for
a tick in a handler that was resumed with interrupts enabled by an interrupted
dispatch. One application thread exists from the start and the other is made by
`thread_create()`, so that both ways to a first switch occur. In `test_programs` the
rings have as many slots as producers, so that they are full, empty and wrapped
around; three threads at a barrier are a first, a last and one between; each kind of
thread in the programs is there, and only their numbers and repetitions are cut.

A deadlock is an error in every run: a kernel that has stopped does so by `Halted`,
which stutters.

## 5. Fairness

`Kernel!Fairness` has three parts. `WF(TimerTick)`: the timer keeps interrupting,
also when a thread computes for ever. `SF` for the loops of the boot thread and for the
end of the idle thread: given the processor again and again, they get through
one pass, since a pass is far shorter than a slice and waits for nothing. Strong
fairness is needed because the thread is preempted in between. *Nothing* is assumed
of application threads: they may never make a call. Nothing is assumed of the output
thread either: it ends only with nothing left to send (`io.cpp:28-30`), threads that go
on printing can keep it busy, and a lost signal can hold it in `wait()`. Hence
`ShutdownCompletes` starts from the user *and* the output thread having finished. What
it takes for the output thread to finish is said in `Console`: `OutputThreadEnds` with
interrupts disabled, `EndsUnlessSignalLost` in general. Where that exception applies,
the loop at `main.cpp:65` waits for ever. `Allocator` assumes that a
call runs on (`WF(Search)`); callers need not call. `Console` assumes that the
output thread runs on (`WF(OStep)`), which `ReadyThreadsRun` justifies; nothing is
assumed of interrupts, readers or writers. `TestPrograms` assumes `WF` for every
thread's next step, which is again `ReadyThreadsRun`: a thread that is not blocked is
ready or runs. `Switching` states no fairness; it has safety properties only.

## 6. Findings

* **`time_sleep(0)` takes other threads' ticks** (`sleep_zero`, `scheduler.cpp:66`).
  `decrement()` lowers the head only. If the head is already due, the tick is spent
  on it, and everybody behind wakes a tick late; a thread that repeats
  `time_sleep(0)` keeps a sleeper asleep for ever. The passing runs use sleeps of
  1 and more, for which `SleepIsExact` and `SleepersWake` hold.
* **`wait()` uses a deleted semaphore** (`sem_close`, `semaphore.cpp:68`). The
  destructor says that waiting threads will get -1; they read `works` after the
  object was freed.
* **A search without end** (`allocator_hang`, `MemoryAllocator.cpp:239`). The search
  stops when it is back at the slab it started from; that slab may have been merged
  into the one below it. If nothing fits the loop runs for ever, with interrupts
  disabled. `SearchEnds` shows that this is the only way not to end. The comment at
  `MemoryAllocator.cpp:7-8` says that a failed allocation returns a null pointer and that
  what goes wrong then is "usually [...] not this code".
* **The counter of free blocks underflows** (`allocator_underflow`, `MemoryAllocator.cpp:316`).
  A free in the `kDispatch()` of the boot or the output thread can be interrupted between
  the load and the store of `totalAvailableBlocks`; what another call counted in between
  is overwritten. Later requests are then granted that are larger than the free space
  reported, and the counter is taken below 0 and wraps. The list of known bugs
  (`MemoryAllocator.cpp:6`) has the effect, "under extreme stress"; the run shows one cause,
  for which two threads suffice. `FreeSpaceIsReported` shows that calls that do not
  overlap never have that effect, at sizes below the overflow of `neededBlocks()`.
* **A signal is lost** (`lost_signal`, `semaphore.cpp:64`). `wait()` relies on disabled
  interrupts; the output thread calls it with interrupts enabled if the boot thread
  switched to it first. `SendsWhatIsThere` and `BuffersAreFifos` hold nevertheless;
  what suffers is progress: a character stays behind until another one is written.
  If nobody writes any more the output thread sees the character, calls `wait()` and is
  held there, and the boot thread waits for it for ever; `EndsUnlessSignalLost` shows that
  at shutdown this is the only way not to end.
* **Application code in supervisor mode** (`switching_mode`, `tcb.cpp:97`).
  `popSppSpie()` sets `sepc` and trusts SPP. If the tick that first switches to a thread
  interrupted the boot or the output thread, SPP says supervisor, and the thread
  keeps that mode. `CleanStartsStayInUserMode` shows that threads started otherwise
  are safe. In the same window a tick between `csrw` and `sret` leaves a thread at an
  illegal instruction for ever; both need a new thread to be started out of
  supervisor mode.

`BreaksOnlyInWindows` is true of the code, but the windows it names are real: in them
the kernel can lose a thread's context or the ready list. No document of the
repository says otherwise, so that this is listed under the hazards only, as is
the unprotected counter of `urosUModeThreadTest()`.

`totalAvailableBytes()` takes the size of an MMD off the free bytes when no block is free,
too, and then answers nearly 2^64 (`MemoryAllocator.cpp:20`). The model has it, but no run
is about it: `FreeSpaceIsReported` only says that the answer is never too small.

## 7. Proofs

The theorems hold for every value of the constants that satisfies the named ASSUMEs of
the module they are about. What these say: the kernel's own threads are different
ones; sets of threads, semaphores and characters do not contain the model's special
values; there are finitely many application threads (a TCB lies on a finite heap);
initial values of semaphores fit into an int; an MMD is smaller than a block, and
requests do not overflow `neededBlocks()`; the numbers of threads, items and rounds and
the capacities of the test programs are positive.

| module | theorem | statement |
|---|---|---|
| `KernelProofs` | `TypesHold` | `Spec => []TypeOK` |
| | `NoThreadIsLost` | `Spec => []EveryThreadInOnePlace` |
| | `ReadyQueueSuffices` | `Spec => []BootIsRunnable` |
| | `SemaphoresCount` | `Spec => []SemaphoreCount` |
| | `WaitersHold` | `Spec => []WaitersAreBlocked` |
| | `InvariantHolds` | `Spec => []IInv`, from which the others follow |
| | `NobodyIsOvertaken` | `Spec => QueuesAreFair` |
| | `KernelImplementsLife` | `Spec => ThreadsLiveLegally` |
| | `KernelSleepsExactly` | `PositiveTicks => (Spec => SleepIsExact)` |
| `AllocatorProofs` | `HeapIsSound` | `Spec => []IInv` |
| | `AllocatorIsTyped` | `Spec => []TypeOK` |
| | `HeapStaysTiled` | `Spec => []SlabsTileTheHeap` |
| | `ListStaysOneCircle` | `Spec => []ListIsOneCircle` |
| | `CounterIsRight` | `Spec => []FreeSpaceIsReported` |
| | `SearchIsComplete` | `Spec => []SInv` |
| | `AllocatorImplementsHeap` | `Spec => GrantsAreStretches` |
| | `GrantsAgreeWithReport` | `Spec => GrantsAsReported` |
| `ConsoleProofs` | `ConsoleIsTyped` | `Spec => []TypeOK` |
| | `InputIsNeverLost` | `Spec => []InputIsAccounted` |
| | `OnlyWhatIsThereIsSent` | `Spec => []SendsWhatIsThere` |
| | `CleanOutputIsAccounted` | `Spec => [](~oSIE => OutputIsAccounted)` |
| | `BuffersKeepTheOrder` | `Spec => BuffersAreFifos` |
| `SwitchingProofs` | `SwitchingInvariant` | `Spec => []IInv` |
| | `SwitchingIsTyped` | `Spec => []TypeOK` |
| | `TrapsReturn` | `Spec => []TrapsReturnAsTheyCame` |
| | `CleanStartsStay` | `Spec => []CleanStartsStayInUserMode` |
| | `NobodyForgotten` | `Spec => []NobodyIsForgotten` |
| | `BreaksInWindows` | `Spec => BreaksOnlyInWindows` |
| `TestProgramsProofs` | `InvAlways` | `Spec => []Inv` |
| | `TypeCorrect` | `Spec => []TypeOK` |
| | `ChecksNeverFail` | `Spec => []AllTestsPassed` |
| | `SemaphoresOutliveTheirUsers` | `Spec => []NothingIsUsedAfterClose` |
| | `TheBarrierSeparates` | `Spec => []BarrierSeparates` |
| | `TheRingsAreFifos` | `Spec => RingsAreFifos` |

Every proof has the same layout: an invariant (`IInv`, in the test programs `P1_Inv` to
`P5_Inv` and `Inv`) that is inductive, one lemma per
action that the action keeps it (`...Keeps`), a lemma that puts them together, and
short theorems that draw the properties from it.

### Kernel

None of the five invariants is inductive alone. `KDispatch` keeps every thread in one
place only if the ready queue is not empty when a thread leaves for good, which is
`BootIsRunnable`; a semaphore's count survives a close only because a closed
semaphore has no waiters, and a switch keeps `WaitersAreBlocked` only if the thread
that leaves the ready queue is in no blocked queue. `IInv` is their conjunction.

`QueueLemmas` says what appending, taking the head and cutting a sequence does to its
range and to its being free of repetitions. The lemmas `Hold...` lift this to the four
queues together: each moves one thread, or the woken ones, from one place to another.
`SwitchToSwitches` and `KDispatchSwitches` use them for the common end of the handlers.
That the walk of the sleeping queue puts integers in the deltas needs a fact about a
recursive function (`DueFunction`), proved by well-founded induction over the indices
stated with sets (`SetInduction`), for the library's induction theorems take an
operator.

`NobodyIsOvertaken`: a step turns the ready queue into its tail or itself, followed by
newcomers that were not in it (`StepGrowsReady`), and then no pair changes its order
(`OrderOfTheRest`). For the blocked queues the same holds of each one, and a close
moves a whole queue in its order.

`KernelImplementsLife`: `EveryThreadInOnePlace` makes the cases of the abstract status
exclusive (`View`), so that a step has only to say which thread it puts where; one
lemma per action names the action of `ThreadLife` it is. `KernelSleepsExactly` compares
the sums of the deltas up to an entry before and after an insertion or a tick. Its
hypothesis `PositiveTicks` leaves out `time_sleep(0)` and counts that are no positive int, and
`sleep_zero` shows that it must: the statement is false without it.

### Allocator

`IInv` says that the slabs tile the heap (`Tiles`), that there is a walk of `listSize`
steps from the iterator round all free slabs (`Circles`), that
`totalAvailableBlocks` is the number of blocks in them (`BlocksOf`), and what a running
call remembers. A split, a merge and a free are each described three times: as a
change of the tiling, of the walk, and of the set of blocks. The walk is a function
that the proof constructs; the circle of `ListIsOneCircle` is its range.

Completeness of the search needs to know what the search has seen (`Searched`). In
its first round that is a set of slabs from `first` to the iterator that can be merged
no further; in the second one a set of slabs that are too small. The second round may
start before the first one has seen all, because the slab at the iterator may take in
others; and if `first` itself was taken in, nothing is claimed, for then the search
only ends with a grant. `LargestAvailableBlock` is a recursive function along the
list; `TotalsExist` and `LargestIs` find its values with `SetInduction`, and `TotalsAreFree`
that a total is never more than the blocks of the free slabs, which `CounterIsRight` needs
for the second query. The theorems are about calls that do not overlap, as the model is.

### Console

`InputIsAccounted` and `SendsWhatIsThere` are not inductive alone: a woken reader must be
counted once (`ReadersAreInside`: those blocked are inside `getc()`, finitely many, each
once), and the output thread must have something to send at every point between its
test and its `take` (`SendingHasWork`). `CleanSending` adds what its register and the
semaphore hold while interrupts are disabled, and gives `CleanOutputIsAccounted`; the
run `lost_signal` shows that the condition `~oSIE` cannot be dropped. The first part of
the module is the arithmetic of a ring: the count from head and tail modulo the
capacity, and the sequence held, after a store (`HeldAppend`) and a take (`HeldTail`).

### Switching

The invariant has these parts.

* The shape of a stack (`StackOK`): a frame of the thread's own code, then at most the
  frames of a dispatch of a kernel thread, a trap, a dispatch in the trap, and so on.
  A dispatch in a trap that has something above it is at `w_sstatus` (`Covered`), the
  one place where a resumed handler may have interrupts enabled.
* The registers (`TrapCpu`, `InnerCpu`, `KernelCpu`, `BaseCpu`): what a trap is to
  restore is in the registers, or in the locals of its dispatch. This and who is
  `running` is claimed only while every context is its own thread's (`ContextsOK`);
  the stacks are well formed in any case.
* Clean starts (`CleanOK`): such a thread is in its body in user mode, or in a trap that
  came from there.
* The places (`PlacesOK`): a thread is counted in the ready queue, in the hands of the
  dispatches, at the processor and among those away. The count `Total(t)` is 1 for a
  live thread and 2 if a tick came in its outer dispatch after the put (`Extra`), and 0
  for a new or finished one. This equation is inductive where the bound in
  `NobodyIsForgotten` is not, and it gives the bound of two.

In `NobodyIsReady` the count does the work: if a get finds the ready queue empty, the
boot thread must be in the hands of the output thread's dispatch, so that the thread
that gives up is the output thread which has ended, and the switch that does not
happen loses nobody. `SwitchingStacks` proves that every step keeps stacks, registers and
clean starts, `SwitchingProofs` that it keeps the places.

### Test programs

Why a check never fails, for any number of threads, items and rounds, is a matter of
counting. Every phase has an inductive invariant that says what each semaphore is worth
in terms of how far the threads have come: its initial value, and the signals less the
waits of the threads behind them. `SemsOK` adds what all semaphores have in common: as many
threads are queued as the value is below zero, each once, and only at the place behind
their own `sem_wait()`. From the two follows, in each phase anew, who may be past a wait.
None of the properties is inductive without these equations. What is particular to the
phases:

* Phase 1 (`P1_Inv`). There is a sequence of all numbers that were ever stored (`log`), a
  bound variable of the invariant, for the code keeps no such thing. `RingHolds` says that
  the ring holds its items from the consumer's position to its end; the semaphores
  that the stores are never a whole ring ahead. A producer's number occurs in
  `log` as often as it has finished a round or is in the second half of one, and
  `p1_counts` agrees with the part that the consumer has met. At the end that is all of it.
* Phase 2 (`P2_Inv`). A turnstile was never signalled while anybody has still to
  test, once for each finished round of the loop while the last one opens it, and
  `P2_NUM_THREADS` times then (`P2_Gate`). Whoever has waited at it knows that
  everybody is past the test. `p2_arrived` is the number of workers between the
  increment and the decrement, since both are made under the mutex.
* Phase 3 (`P3_Inv`). The k-th item of a pipe is known (`P3_ItemA`, `P3_ItemB`), so that
  the last value a stage got says how many it got, and no sequence is needed. The sum
  is that of the items added so far; twice the sum is stated, to avoid the division.
  `NothingIsUsedAfterClose` follows from the sentinel: main is woken when the
  accumulator has met it, and a stage that another one got it from has made its last
  system call (`P3_AllDone`).
* Phase 4 (`P4_Inv`). The two values say whose turn it is, and `P4_Exclusion` that only one
  player is between its wait and its signal, so that no increment is lost.
* Phase 5 (`P5_Inv`). The counter is the number of tasks behind their increment; the task
  that read `P5_NUM_THREADS` is the only one, and all others have left the mutex.

The refinement of `Fifo`: a step stores an item (`Append`), takes one (`Tail`), or
leaves `Contents` alone, among them the moves of `head` and `tail` and the signals (`P1_Puts`,
`P1_Gets`, `P1_ShowsNothing`, and the like for both pipes of phase 3). Its bound
is the value of the space semaphore.

`Inv` is the conjunction for all phases: a step of one leaves the others alone. In
`urosUModeThreadTest()` the invariant is that nothing behind `thread_exit()` is executed, so
that the flag is still set when main, which waited for it, compares it.

### Only model-checked

Liveness (`ReadyThreadsRun`, `SleepersWake`, `ShutdownCompletes`, `SearchEnds`,
`AcceptedOutputIsSent`, `OutputThreadEnds`, `EndsUnlessSignalLost`, `ProgramsEnd`): TLAPS has no proof rule for
it under fairness. Every invariant and every other property of a passing run has a theorem.

## 8. Not modelled

Printing (`print.cpp`, `printTCB()`, `printInfo()`, the texts of the trap handler)
formats debug output; its characters go through the modelled `handlePutc()`.
`workers.cpp` is deprecated. Of the interface, the C++ classes and `_new.cpp` only pass
calls on. The memory tests (`src_tests/heavyMemoryTest*.cpp`, and the memory part of
`urosUModeThreadTest()`) are fixed sequences of calls of the kind `Allocator` allows in
any order. The public tests under `test/` are written by the course and are not
modelled either. `lib/` is a binary; the timer and the console controller are actions.
The deletes at the end of `finalMain()` are one step of `Kernel`. What happens after
a list, the heap or a context broke is not described, nor is a null pointer from an
allocation that failed;
`thread_create()` gets its stack in every model.

## 9. Plan

1. Composition of `Console` with the scheduler, so that shutdown is shown for both,
   with the deletes of the buffers (`main.cpp:69`).
2. In `AllocatorRace`, traps between the links of the free list and inside
   `allocateBytes()`, to say what breaks in the window that `BreaksOnlyInWindows` names.
