---------------------------- MODULE AllocatorRace ----------------------------
(***************************************************************************)
(* Allocator, with calls of deallocate() that overlap.  Scheduler::get()   *)
(* deletes a list node, and the boot and the output thread call it in      *)
(* kDispatch() with interrupts enabled (main.cpp:60, io.cpp:32): a trap    *)
(* can come between the load and the store of the free-block counter, and  *)
(* the threads it switches to then make calls of their own.                *)
(*                                                                         *)
(* Traps between the links of the list, and inside the allocateBytes() of  *)
(* Scheduler::put(), are left out: the list itself then breaks (Switching  *)
(* shows in which windows).  Here all but the counter stays whole.         *)
(***************************************************************************)
EXTENDS Allocator

CONSTANTS
    KernelThreads,  \* those that run kDispatch() with interrupts enabled
    ElemBytes       \* sizeof(Elem), a node of a list; one of Requests

VARIABLES
    place,      \* where in deallocate() each kernel thread is, "out" if not in it
    fmmd,       \* the slab it frees
    reg         \* the register in which it adds to totalAvailableBlocks

race == <<place, fmmd, reg>>
raceVars == <<vars, race>>

Freeing == {fmmd[t] : t \in KernelThreads} \ {Null}

RaceInit ==
    /\ Init
    /\ place = [t \in KernelThreads |-> "out"]
    /\ fmmd = [t \in KernelThreads |-> Null]
    /\ reg = [t \in KernelThreads |-> 0]

\* removeFirst() deletes node b, which no other thread knows, and it is allocated.
Delete(t, b) ==
    /\ pc = "idle"
    /\ place[t] = "out"
    /\ Freed(b) /\ b \notin Freeing
    /\ size[b] = NeededBlocks(ElemBytes)
    /\ place' = [place EXCEPT ![t] = "load"]
    /\ fmmd' = [fmmd EXCEPT ![t] = b]
    /\ UNCHANGED <<vars, reg>>

\* totalAvailableBlocks += nBlocks: a load and a store.
LoadTotal(t) ==
    /\ pc = "idle"
    /\ place[t] = "load"
    /\ reg' = [reg EXCEPT ![t] = totalAvailableBlocks]
    /\ place' = [place EXCEPT ![t] = "store"]
    /\ UNCHANGED <<vars, fmmd>>

StoreTotal(t) ==
    /\ pc = "idle"
    /\ place[t] = "store"
    /\ totalAvailableBlocks' = (reg[t] + size[fmmd[t]]) % Word
    /\ reg' = [reg EXCEPT ![t] = 0]
    /\ place' = [place EXCEPT ![t] = "link"]
    /\ UNCHANGED <<size, next, iteratorAddress, listSize, call, fmmd>>

\* The slab is put behind the iterator; Allocator!Deallocate does the same.
LinkSlab(t) ==
    /\ pc = "idle"
    /\ place[t] = "link"
    /\ next' = [next EXCEPT ![fmmd[t]] = next[iteratorAddress], ![iteratorAddress] = fmmd[t]]
    /\ listSize' = listSize + 1
    /\ place' = [place EXCEPT ![t] = "out"]
    /\ fmmd' = [fmmd EXCEPT ![t] = Null]
    /\ UNCHANGED <<size, iteratorAddress, totalAvailableBlocks, call, reg>>

\* The calls that nothing interrupts: those made in traps, and whole ones.
WholeCall ==
    /\ \/ \E n \in Requests : AllocateBytes(n) \/ MemAlloc(n)
       \/ Search
       \/ \E b \in Slabs \ ({0} \union Freeing) : Deallocate(b)
    /\ UNCHANGED race

RaceNext ==
    \/ WholeCall
    \/ \E t \in KernelThreads :
          \/ \E b \in Slabs \ {0} : Delete(t, b)
          \/ LoadTotal(t)
          \/ StoreTotal(t)
          \/ LinkSlab(t)

RaceSpec == RaceInit /\ [][RaceNext]_raceVars

-----------------------------------------------------------------------------
\* What is granted was not more than totalAvailableBytes() reports, as the tests
\* expect that do not even try to allocate more.  The code breaks this once a free
\* has stored a value that another call had outdated; the grant then takes more
\* off totalAvailableBlocks than it holds: the underflow the file warns of.
GrantsFitFreeSpace ==
    [][pc = "test" /\ pc' = "idle" /\ answer' # Null => asked <= TotalAvailableBytes]_raceVars

==============================================================================
