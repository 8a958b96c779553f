------------------------------ MODULE Switching ------------------------------
(***************************************************************************)
(* The context switch, register by register: trap entry and sret, the      *)
(* sstatus and sepc registers, TCB::kDispatch() one access at a time, the  *)
(* contexts in the TCBs, and the first instructions of a new thread.       *)
(*                                                                         *)
(* In a trap SIE is clear and nothing intervenes.  The boot and the output *)
(* thread, however, call kDispatch() outside any trap and may have SIE     *)
(* set: a timer trap can then come between any two steps below, also in    *)
(* the code of the thread they have just switched to.                      *)
(*                                                                         *)
(* Time slices, sleeping times and semaphores are those of Kernel; only    *)
(* their effect on the queues is kept.  A call on a queue is one step, but *)
(* may break lists and heap if it falls into another one: neither can be   *)
(* entered twice.                                                          *)
(***************************************************************************)
EXTENDS Integers, Sequences, SequencesExt, FiniteSets

CONSTANTS
    Boot, OThread,  \* the threads that call kDispatch() outside traps
    Apps,           \* the threads that start in threadWrapper()
    Workers,        \* those of them that thread_create() makes later
    NoThread, NoPlace,
    MaxHits         \* bound: interrupts of kernel code

Threads == {Boot, OThread} \union Apps

ASSUME SwitchingAssumption ==
    /\ Boot # OThread
    /\ Apps \intersect {Boot, OThread, NoThread} = {}
    /\ NoThread \notin {Boot, OThread}
    /\ IsFiniteSet(Apps)
    /\ Workers \subseteq Apps
    /\ MaxHits \in Nat

VARIABLES
    mode,                       \* of the processor, "U" or "S"
    sie, spie, spp,             \* the bits of sstatus
    sepc,                       \* a place in the code of a thread, or NoPlace
    running, ready, finished,   \* as in Kernel
    created,
    away,                       \* the sleeping and the blocked threads
    broken,                     \* whether the lists or the heap are
    cur,                        \* the thread whose stack is in sp
    stack,                      \* the frames of every thread, innermost last
    context,                    \* the thread on whose stack TCB::context is
    hits                        \* interrupts of kernel code, for MaxHits

sstatus == <<sie, spie, spp>>
csrs == <<mode, sstatus, sepc>>
queues == <<ready, away, broken>>
sched == <<running, queues, created, finished>>
mem == <<cur, stack, context>>
vars == <<csrs, sched, mem, hits>>

\* The places a thread can be at.  The first three rows are its outermost
\* frame: the loop of a kernel thread, popSppSpie(), the body.  "astray" is
\* any instruction that is not the next one of that thread.
Places ==
    {"loop", "csrw", "sret", "compute", "ecall", "astray",
     "r_sepc", "r_sstatus", "put", "get", "set", "switch", "w_sstatus", "w_sepc",
     "return", "leave"}

SepcValues == [of : Threads, at : Places]

ASSUME PlaceAssumption == NoPlace \notin SepcValues

Base == [at : Places, clean : BOOLEAN]
Trap == [at : Places, cause : {"ecall", "interrupt", "illegal"},
         from : {"U", "S"}, sie : BOOLEAN]
Dispatch == [at : Places, to : {"ready", "away"}, ksepc : SepcValues \union {NoPlace},
             ksstatus : {<<>>} \union (BOOLEAN \X BOOLEAN \X {"U", "S"}),
             old : Threads \union {NoThread}, next : Threads \union {NoThread}]

TypeOK ==
    /\ {mode, spp} \subseteq {"U", "S"}
    /\ {sie, spie} \subseteq BOOLEAN
    /\ sepc \in SepcValues \union {NoPlace}
    /\ {running, cur} \subseteq Threads
    /\ ready \in Seq(Threads)
    /\ broken \in BOOLEAN
    /\ created \in SUBSET Threads
    /\ {away, finished} \subseteq SUBSET created
    /\ stack \in [Threads -> Seq(Base \union Trap \union Dispatch)]
    /\ context \in [Threads -> Threads]
    /\ hits \in 0..MaxHits

\* A new thread starts in threadWrapper() or, if a kernel thread, in its loop:
\* the ra its context is made with.
FirstFrame(t) == [at |-> IF t \in Apps THEN "csrw" ELSE "loop", clean |-> FALSE]

\* finalMain() when it has enabled interrupts.
Init ==
    /\ mode = "S"
    /\ sie = TRUE
    /\ spie = FALSE
    /\ spp = "U"
    /\ sepc = NoPlace
    /\ running = Boot
    /\ created = Threads \ Workers
    /\ ready \in {<<OThread>> \o q : q \in SetToSeqs(Apps \ Workers)}
    /\ finished = {}
    /\ away = {}
    /\ broken = FALSE
    /\ cur = Boot
    /\ stack = [t \in Threads |-> <<FirstFrame(t)>>]
    /\ context = [t \in Threads |-> t]
    /\ hits = 0

-----------------------------------------------------------------------------
\* The stack of the thread that executes.

Depth == Len(stack[cur])
Top == stack[cur][Depth]
SetTop(frame) == stack' = [stack EXCEPT ![cur][Depth] = frame]
Goto(place) == SetTop([Top EXCEPT !.at = place])

\* Every saved context is still the one of its thread, and nothing is broken;
\* what the machine does otherwise is not described.
Intact == ~broken /\ \A t \in Threads : context[t] = t

At(place) == Intact /\ Top.at = place

\* A call of kDispatch(), or of one of the functions built like it.
Call(to) == [at |-> "r_sepc", to |-> to, ksepc |-> NoPlace, ksstatus |-> <<>>,
             old |-> NoThread, next |-> NoThread]

\* What the processor does at a trap, supervisorTrap, and the handler up to its
\* call of kDispatch() if there is one.
Enter(cause, calls) ==
    /\ sepc' = [of |-> cur, at |-> Top.at]
    /\ spp' = mode
    /\ spie' = sie
    /\ sie' = FALSE
    /\ mode' = "S"
    /\ stack' = [stack EXCEPT ![cur] =
                    @ \o <<[at |-> "return", cause |-> cause, from |-> mode, sie |-> sie]>>
                      \o calls]
    /\ UNCHANGED <<cur, context>>

\* sret back to frame, with frames below it.  The value left in sepc is
\* dropped, for a trap or popSppSpie() overwrites it before the next sret; not so
\* if it was popSppSpie() that was interrupted, just before its own sret.
Sret(frames, frame) ==
    /\ mode' = spp
    /\ sie' = spie
    /\ spie' = TRUE
    /\ spp' = "U"
    /\ stack' = [stack EXCEPT ![cur] =
                    Append(frames, [frame EXCEPT !.at =
                                      IF sepc # NoPlace /\ sepc.of = cur
                                      THEN sepc.at ELSE "astray"])]
    /\ sepc' = IF Top.at = "leave" /\ frame.at = "sret" THEN sepc ELSE NoPlace
    /\ UNCHANGED <<sched, cur, context, hits>>

\* The executing code uses lists or heap.  A dispatch that was interrupted at "put"
\* or "get" may be anywhere in such a call, between two links of the list or
\* inside the allocator.
UsesLists ==
    broken' \in {FALSE, \E t \in Threads : \E i \in DOMAIN stack[t] :
                          /\ <<t, i>> # <<cur, Depth>>
                          /\ stack[t][i].at \in {"put", "get"}}

-----------------------------------------------------------------------------
\* kDispatch(), putCurrentToSleep() and _sem::putIntoQueue().

ReadSepc ==
    /\ At("r_sepc")
    /\ SetTop([Top EXCEPT !.at = "r_sstatus", !.ksepc = sepc])
    /\ UNCHANGED <<csrs, sched, cur, context, hits>>

ReadSstatus ==
    /\ At("r_sstatus")
    /\ SetTop([Top EXCEPT !.at = "put", !.ksstatus = sstatus, !.old = running])
    /\ UNCHANGED <<csrs, sched, cur, context, hits>>

\* A finished thread is put nowhere.
MayBePutAlways == TRUE
MayBePut == Top.old \notin finished

Put ==
    /\ At("put")
    /\ ready' = IF MayBePut /\ Top.to = "ready" THEN Append(ready, Top.old) ELSE ready
    /\ away' = IF MayBePut /\ Top.to = "away" THEN away \union {Top.old} ELSE away
    /\ UsesLists
    /\ Goto("get")
    /\ UNCHANGED <<csrs, running, created, finished, cur, context, hits>>

\* Without another thread the caller goes on.
Get ==
    /\ At("get")
    /\ IF ready = <<>>
       THEN Goto("w_sstatus") /\ UNCHANGED ready
       ELSE /\ SetTop([Top EXCEPT !.at = "set", !.next = Head(ready)])
            /\ ready' = Tail(ready)
    /\ UsesLists
    /\ UNCHANGED <<csrs, running, away, created, finished, cur, context, hits>>

SetRunning ==
    /\ At("set")
    /\ running' = Top.next
    /\ Goto("switch")
    /\ UNCHANGED <<csrs, queues, created, finished, cur, context, hits>>

\* Whose context receives ra and sp.
SavedContextOfRunning == running
SavedContext == Top.old

\* contextSwitch(): save ra and sp, load those of running.  The locals of the
\* frame that stays behind are dead.  A new thread's frame notes the state of
\* the processor it starts in.
ContextSwitch ==
    /\ At("switch")
    /\ context' = [context EXCEPT ![SavedContext] = cur]
    /\ cur' = context'[running]
    /\ LET saved == [stack EXCEPT ![cur][Depth] =
                        [@ EXCEPT !.at = "w_sstatus", !.old = NoThread, !.next = NoThread]]
       IN  stack' = IF Last(saved[cur']).at # "csrw" THEN saved
                    ELSE [saved EXCEPT ![cur'][1].clean = ~sie /\ spp = "U"]
    /\ UNCHANGED <<csrs, sched, hits>>

\* The order in which the two registers are restored.
EpilogueSwapped == <<"w_sepc", "w_sstatus">>
Epilogue == <<"w_sstatus", "w_sepc">>

\* The function goes on after one of these writes, or returns.
Written(place) ==
    IF place = Last(Epilogue) THEN stack' = [stack EXCEPT ![cur] = Front(@)]
    ELSE Goto(Last(Epilogue))

\* What is written to sstatus.
SstatusExceptSpp == [Top.ksstatus EXCEPT ![3] = spp]
SstatusRead == Top.ksstatus

WriteSstatus ==
    /\ At("w_sstatus")
    /\ sie' = SstatusRead[1]
    /\ spie' = SstatusRead[2]
    /\ spp' = SstatusRead[3]
    /\ Written("w_sstatus")
    /\ UNCHANGED <<mode, sepc, sched, cur, context, hits>>

WriteSepc ==
    /\ At("w_sepc")
    /\ sepc' = Top.ksepc
    /\ Written("w_sepc")
    /\ UNCHANGED <<mode, sstatus, sched, cur, context, hits>>

KDispatchStep ==
    \/ ReadSepc \/ ReadSstatus \/ Put \/ Get \/ SetRunning
    \/ ContextSwitch \/ WriteSstatus \/ WriteSepc

-----------------------------------------------------------------------------
\* The end of a trap.

\* w_sepc(r_sepc() + 4): past the ecall.
PastEcall(place) == [place EXCEPT !.at = IF @ = "ecall" THEN "compute" ELSE "astray"]

HandlerEnds ==
    /\ At("return")
    /\ sepc' = IF Top.cause = "ecall" THEN PastEcall(sepc) ELSE sepc
    /\ Goto("leave")
    /\ UNCHANGED <<mode, sstatus, sched, cur, context, hits>>

TrapReturns ==
    /\ At("leave")
    /\ Sret(SubSeq(stack[cur], 1, Depth - 2), stack[cur][Depth - 1])

-----------------------------------------------------------------------------
\* Threads outside traps.

\* finalMain() and OThreadBody(): one more pass of the loop.
KernelThreadDispatches ==
    /\ At("loop")
    /\ stack' = [stack EXCEPT ![cur] = Append(@, Call("ready"))]
    /\ UNCHANGED <<csrs, sched, cur, context, hits>>

\* OThreadBody() ends when the user thread, which is one of the first, has
\* finished; with it ends kernelThreadWrapper(), which returns to nowhere if its
\* kDispatch() does.
OThreadEnds ==
    /\ At("loop")
    /\ cur = OThread
    /\ finished \ Workers # {}
    /\ finished' = finished \union {running}
    /\ stack' = [stack EXCEPT ![cur] = <<[@[1] EXCEPT !.at = "astray"], Call("ready")>>]
    /\ UNCHANGED <<csrs, running, queues, created, cur, context, hits>>

\* popSppSpie(): ra is the place in threadWrapper() from which it is called.
SetReturnAddress ==
    /\ At("csrw")
    /\ sepc' = [of |-> cur, at |-> "compute"]
    /\ Goto("sret")
    /\ UNCHANGED <<mode, sstatus, sched, cur, context, hits>>

DropPrivilege ==
    /\ At("sret")
    /\ mode = "S"
    /\ Sret(<<>>, Top)

\* In user mode sret is illegal; the handler prints a message and returns to it.
IllegalSret ==
    /\ At("sret")
    /\ mode = "U"
    /\ Enter("illegal", <<>>)
    /\ UNCHANGED <<sched, hits>>

Compute ==
    /\ At("compute")
    /\ Goto("ecall")
    /\ UNCHANGED <<csrs, sched, cur, context, hits>>

\* A thread that may be readied by a signal, a close or a tick: one or none.
WokenUnchecked == {<<IF away = {} THEN NoThread ELSE CHOOSE t \in away : TRUE>>}
Woken == {<<>>} \union {<<t>> : t \in away}
Wake(woken) ==
    /\ ready' = ready \o woken
    /\ away' = away \ Range(woken)

\* System calls that put the caller in the ready queue, or in another one.
EcallSwitches(to) ==
    /\ At("ecall")
    /\ Enter("ecall", <<Call(to)>>)
    /\ UNCHANGED <<sched, hits>>

EcallExit ==
    /\ At("ecall")
    /\ Enter("ecall", <<Call("ready")>>)
    /\ finished' = finished \union {running}
    /\ UNCHANGED <<running, queues, created, hits>>

EcallCreates(t) ==
    /\ At("ecall")
    /\ t \in Apps \ created
    /\ created' = created \union {t}
    /\ ready' = Append(ready, t)
    /\ UsesLists
    /\ Enter("ecall", <<>>)
    /\ UNCHANGED <<running, away, finished, hits>>

\* Any call that goes on with its caller, those on the heap included.
EcallGoesOn(woken) ==
    /\ At("ecall")
    /\ Wake(woken)
    /\ UsesLists
    /\ Enter("ecall", <<>>)
    /\ UNCHANGED <<running, created, finished, hits>>

\* A timer or console interrupt; it may wake a thread and may end the slice.
Interrupt(woken, sliceEnds) ==
    /\ Intact
    /\ mode = "U" \/ sie
    /\ hits' = IF Top.at \in {"compute", "ecall"} THEN hits ELSE hits + 1
    /\ hits' <= MaxHits
    /\ Wake(woken)
    /\ IF woken = <<>> THEN UNCHANGED broken ELSE UsesLists
    /\ Enter("interrupt", IF sliceEnds THEN <<Call("ready")>> ELSE <<>>)
    /\ UNCHANGED <<running, created, finished>>

\* Something is broken, or a thread is astray: what follows is not described.
Lost ==
    /\ ~(Intact /\ Top.at # "astray")
    /\ UNCHANGED vars

Next ==
    \/ KDispatchStep
    \/ HandlerEnds \/ TrapReturns
    \/ KernelThreadDispatches \/ OThreadEnds
    \/ SetReturnAddress \/ DropPrivilege \/ IllegalSret
    \/ Compute
    \/ \E to \in {"ready", "away"} : EcallSwitches(to)
    \/ EcallExit
    \/ \E t \in Workers : EcallCreates(t)
    \/ \E woken \in Woken : EcallGoesOn(woken)
    \/ \E woken \in Woken, sliceEnds \in BOOLEAN : Interrupt(woken, sliceEnds)
    \/ Lost

Spec == Init /\ [][Next]_vars

-----------------------------------------------------------------------------
\* Properties.

\* A trap handler leaves for the very instruction that was interrupted, or the
\* one behind the ecall, in the mode and with the interrupt enable bit of the
\* code that was interrupted, whatever threads ran and trapped since, and also if
\* it was resumed with interrupts enabled and a tick came before it restored its
\* registers: sstatus has to be restored before sepc.
TrapsReturnAsTheyCame ==
    At("leave") =>
        /\ sepc = LET came == [of |-> cur, at |-> stack[cur][Depth - 1].at]
                  IN  IF Top.cause = "ecall" THEN PastEcall(came) ELSE came
        /\ spp = Top.from
        /\ spie = Top.sie

\* The threads that a dispatch has taken from the ready queue and not yet run.
Taken == {f.next : f \in {g \in UNION {Range(stack[t]) : t \in Threads} :
                             g.at \in {"set", "switch"}}}

\* A tick has ended the slice of the dead output thread inside its last
\* kDispatch(). It is put nowhere and runs no more, so what that call has taken is
\* lost with it.
EndedTwice == OThread \in finished /\ Len(stack[OThread]) > 3 /\ cur # OThread

\* Up to that, no thread is forgotten although a tick may come anywhere in the
\* kDispatch() of the boot or the output thread: a live thread executes, is queued,
\* or is in the hands of an interrupted dispatch. Such ticks may get one of these
\* two into the ready queue a second time, never more often; an application thread
\* is queued once, and no thread when it has finished.
NobodyIsForgotten ==
    \/ EndedTwice
    \/ /\ created \ finished \subseteq {cur} \union Range(ready) \union away \union Taken
       /\ \A t \in Threads :
             Cardinality({i \in DOMAIN ready : ready[i] = t}) <=
                 (IF t \in finished THEN 0 ELSE IF t \in Apps THEN 1 ELSE 2)
       /\ away \intersect (finished \union Range(ready)) = {}

\* Whether thread t runs the body it was created for.
InBody(t) == t \in Apps /\ stack[t][1].at \in {"compute", "ecall"}

\* A thread that was first switched to with interrupts disabled, from a trap out
\* of user mode, enters its body in user mode and is in user mode whenever it
\* executes it, for good.
CleanStartsStayInUserMode ==
    \A t \in Apps : stack[t][1].clean =>
        /\ cur = t /\ Len(stack[t]) = 1 /\ mode = "U" => InBody(t)
        /\ cur = t /\ Len(stack[t]) = 1 /\ InBody(t) => mode = "U"
        /\ Len(stack[t]) > 1 /\ InBody(t) => stack[t][2].from = "U"

\* What the kernel threads' dispatches outside traps can break, and nothing else
\* can: a context is overwritten only if a tick ends the slice between running =
\* next and contextSwitch(), and lists or heap are entered twice only if a
\* tick comes during put() or get().
BreaksOnlyInWindows ==
    [][/\ context' # context /\ ~Intact' =>
             cur \in {Boot, OThread} /\ stack[cur][2].at = "switch"
       /\ broken' => \E t \in {Boot, OThread} :
             Len(stack[t]) > 2 /\ stack[t][2].at \in {"put", "get"}]_vars

\* Application code runs in user mode.  So says threadWrapper(), and it is what
\* a test of the repository is for; the code breaks it.
ApplicationInUserMode == Depth = 1 /\ InBody(cur) => mode = "U"

==============================================================================
