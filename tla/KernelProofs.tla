----------------------------- MODULE KernelProofs -----------------------------
(***************************************************************************)
(* Proofs about Kernel, for every set of threads and semaphores and every  *)
(* value of the other constants: its invariants, and that it implements    *)
(* ThreadLife and SleepClock.                                              *)
(***************************************************************************)
EXTENDS Kernel, QueueLemmas

-----------------------------------------------------------------------------
\* Operators on numbers.

LEMMA ToIntIsInt == \A n \in Nat : ToInt(n) \in Int
  BY NumbersAssumption DEF ToInt

LEMMA SmallModulo == ASSUME NEW k \in Nat, NEW m \in Nat, k < m PROVE k % m = k
  OBVIOUS

\* An argument that fits keeps its value.
LEMMA ToIntOfInit == \A n \in InitValues : n \in Nat /\ ToInt(n) = n
<1> TAKE n \in InitValues
<1>1. n \in 0..MaxInt
  BY NumbersAssumption
<1> DEFINE k == n + MaxInt + 1
<1> DEFINE m == 2 * (MaxInt + 1)
<1>2. k \in Nat /\ m \in Nat /\ k < m
  BY <1>1, NumbersAssumption
<1>3. ToInt(n) = (k % m) - (MaxInt + 1)
  BY DEF ToInt
<1> HIDE DEF k, m
<1>4. k % m = k
  BY <1>2, SmallModulo
<1> QED BY <1>1, <1>3, <1>4, NumbersAssumption DEF k

-----------------------------------------------------------------------------
\* Hold under the moves of threads between the queues.

Queues(rdy, slp, blk) ==
    rdy \in Seq(Threads) /\ slp \in Seq(Threads) /\ blk \in [Sems -> Seq(Threads)]

\* Only threads are in a queue.
LEMMA QueuedAreThreads ==
    ASSUME NEW q \in Seq(Threads) PROVE Range(q) \subseteq Threads
  BY RangeOfSeq

\* List::addLast() on the ready queue.
LEMMA HoldPutReady ==
    ASSUME NEW rdy, NEW slp, NEW blk, NEW held, NEW t \in Threads,
           Queues(rdy, slp, blk), Hold(rdy, slp, blk, held), t \notin held
    PROVE  /\ Queues(AddLast(rdy, t), slp, blk)
           /\ Hold(AddLast(rdy, t), slp, blk, held \union {t})
<1>1. /\ Append(rdy, t) \in Seq(Threads)
      /\ Range(Append(rdy, t)) = Range(rdy) \union {t}
      /\ IsInjective(rdy) /\ t \notin Range(rdy) => IsInjective(Append(rdy, t))
  BY LastPut DEF Queues
<1>2. /\ t \notin Range(rdy)
      /\ t \notin Range(slp)
      /\ \A s \in Sems : t \notin Range(blk[s])
  BY DEF Hold
<1> QED BY <1>1, <1>2 DEF Hold, Queues, AddLast

\* List::removeFirst() on the ready queue.
LEMMA HoldGetReady ==
    ASSUME NEW rdy, NEW slp, NEW blk, NEW held,
           Queues(rdy, slp, blk), Hold(rdy, slp, blk, held), rdy # <<>>
    PROVE  /\ Queues(Tail(rdy), slp, blk)
           /\ Head(rdy) \in held
           /\ Hold(Tail(rdy), slp, blk, held \ {Head(rdy)})
<1>1. /\ Head(rdy) \in Threads
      /\ Tail(rdy) \in Seq(Threads)
      /\ Range(rdy) = Range(Tail(rdy)) \union {Head(rdy)}
      /\ IsInjective(rdy) => IsInjective(Tail(rdy)) /\ Head(rdy) \notin Range(Tail(rdy))
  BY FirstTaken DEF Queues
<1>2. /\ Head(rdy) \notin Range(slp)
      /\ \A s \in Sems : Head(rdy) \notin Range(blk[s])
  BY <1>1 DEF Hold
<1> QED BY <1>1, <1>2 DEF Hold, Queues

\* A thread enters the sleeping list, wherever that is.
LEMMA HoldPutSleeper ==
    ASSUME NEW rdy, NEW slp, NEW blk, NEW held, NEW t \in Threads, NEW n \in 0..Len(slp),
           Queues(rdy, slp, blk), Hold(rdy, slp, blk, held), t \notin held
    PROVE  LET new == SubSeq(slp, 1, n) \o <<t>> \o SubSeq(slp, n + 1, Len(slp))
           IN  Queues(rdy, new, blk) /\ Hold(rdy, new, blk, held \union {t})
<1> DEFINE a == SubSeq(slp, 1, n)
<1> DEFINE b == SubSeq(slp, n + 1, Len(slp))
<1> DEFINE m == a \o <<t>>
<1> DEFINE new == m \o b
<1>1. /\ t \notin Range(rdy)
      /\ t \notin Range(slp)
      /\ \A s \in Sems : t \notin Range(blk[s])
  BY DEF Hold
<1>2. /\ a \in Seq(Threads) /\ b \in Seq(Threads)
      /\ Range(slp) = Range(a) \union Range(b)
      /\ IsInjective(a) /\ IsInjective(b) /\ Range(a) \intersect Range(b) = {}
  BY Cut DEF Queues, Hold
<1>3. m = Append(a, t)
  BY <1>2, AppendIsConcat
<1> HIDE DEF a, b, m
<1>4. m \in Seq(Threads) /\ Range(m) = Range(a) \union {t} /\ IsInjective(m)
  <2>1. t \notin Range(a) /\ IsInjective(a)
    BY <1>1, <1>2
  <2> QED BY <1>2, <1>3, <2>1, LastPut
<1>5. Range(m) \intersect Range(b) = {}
  BY <1>1, <1>2, <1>4
<1>6. new \in Seq(Threads) /\ Range(new) = Range(slp) \union {t} /\ IsInjective(new)
  BY <1>2, <1>4, <1>5, AllPut
<1> HIDE DEF new
<1>7. Queues(rdy, new, blk) /\ Hold(rdy, new, blk, held \union {t})
  BY <1>1, <1>6 DEF Hold, Queues
<1> QED BY <1>7 DEF new, m, a, b

\* The first n threads of the sleeping list become ready.
LEMMA HoldWake ==
    ASSUME NEW rdy, NEW slp, NEW blk, NEW held, NEW n \in 0..Len(slp),
           Queues(rdy, slp, blk), Hold(rdy, slp, blk, held)
    PROVE  /\ Queues(rdy \o SubSeq(slp, 1, n), SubSeq(slp, n + 1, Len(slp)), blk)
           /\ Hold(rdy \o SubSeq(slp, 1, n), SubSeq(slp, n + 1, Len(slp)), blk, held)
<1> DEFINE a == SubSeq(slp, 1, n)
<1> DEFINE b == SubSeq(slp, n + 1, Len(slp))
<1> DEFINE new == rdy \o a
<1>1. /\ a \in Seq(Threads) /\ b \in Seq(Threads)
      /\ Range(slp) = Range(a) \union Range(b)
      /\ IsInjective(a) /\ IsInjective(b) /\ Range(a) \intersect Range(b) = {}
  BY Cut DEF Queues, Hold
<1> HIDE DEF a, b
<1>2. /\ new \in Seq(Threads)
      /\ Range(new) = Range(rdy) \union Range(a)
      /\ IsInjective(rdy) /\ IsInjective(a) /\ Range(rdy) \intersect Range(a) = {}
           => IsInjective(new)
  BY <1>1, AllPut DEF Queues
<1> HIDE DEF new
<1>3. IsInjective(new)
  BY <1>1, <1>2 DEF Hold
<1>4. Queues(new, b, blk) /\ Hold(new, b, blk, held)
  BY <1>1, <1>2, <1>3 DEF Hold, Queues
<1> QED BY <1>4 DEF new, a, b

\* A thread enters the blocked queue of semaphore s.
LEMMA HoldPutBlocked ==
    ASSUME NEW rdy, NEW slp, NEW blk, NEW held, NEW t \in Threads, NEW s \in Sems,
           Queues(rdy, slp, blk), Hold(rdy, slp, blk, held), t \notin held
    PROVE  LET new == [blk EXCEPT ![s] = AddLast(@, t)]
           IN  Queues(rdy, slp, new) /\ Hold(rdy, slp, new, held \union {t})
<1> DEFINE q == Append(blk[s], t)
<1> DEFINE new == [blk EXCEPT ![s] = q]
<1>1. /\ t \notin Range(rdy)
      /\ t \notin Range(slp)
      /\ \A r \in Sems : t \notin Range(blk[r])
  BY DEF Hold
<1>2. blk[s] \in Seq(Threads) /\ IsInjective(blk[s])
  BY DEF Queues, Hold
<1>3. q \in Seq(Threads) /\ Range(q) = Range(blk[s]) \union {t} /\ IsInjective(q)
  BY <1>1, <1>2, LastPut
<1> HIDE DEF q
<1>4. new \in [Sems -> Seq(Threads)] /\ new[s] = q /\ \A r \in Sems : r # s => new[r] = blk[r]
  BY <1>3 DEF Queues
<1> HIDE DEF new
<1>5. Queues(rdy, slp, new)
  BY <1>4 DEF Queues
<1>6. Hold(rdy, slp, new, held \union {t})
  <2>1. \A r \in Sems : /\ IsInjective(new[r])
                        /\ Range(new[r]) \intersect (Range(rdy) \union Range(slp)) = {}
    BY <1>1, <1>3, <1>4 DEF Hold
  <2>2. ASSUME NEW r \in Sems, NEW u \in Sems, r # u
        PROVE  Range(new[r]) \intersect Range(new[u]) = {}
    <3>1. Range(blk[r]) \intersect Range(blk[u]) = {}
      BY <2>2 DEF Hold
    <3>2. \A v \in Sems : t \notin Range(blk[v]) /\ Range(new[v]) \subseteq Range(blk[v]) \union {t}
      BY <1>1, <1>3, <1>4
    <3>3. r # s => new[r] = blk[r]
      BY <1>4
    <3>4. u # s => new[u] = blk[u]
      BY <1>4
    <3> QED BY <2>2, <3>1, <3>2, <3>3, <3>4
  <2>3. \A u \in Threads : (\E r \in Sems : u \in Range(new[r]))
                              <=> u = t \/ \E r \in Sems : u \in Range(blk[r])
    BY <1>3, <1>4
  <2> QED BY <2>1, <2>2, <2>3 DEF Hold
<1> QED BY <1>5, <1>6 DEF new, q, AddLast

\* The first n threads of that queue leave it and become ready: one on a signal,
\* all of them on a close.
LEMMA HoldFree ==
    ASSUME NEW rdy, NEW slp, NEW blk, NEW held, NEW s \in Sems, NEW n \in 0..Len(blk[s]),
           Queues(rdy, slp, blk), Hold(rdy, slp, blk, held)
    PROVE  LET gone == SubSeq(blk[s], 1, n)
               new  == [blk EXCEPT ![s] = SubSeq(blk[s], n + 1, Len(blk[s]))]
           IN  Queues(rdy \o gone, slp, new) /\ Hold(rdy \o gone, slp, new, held)
<1> DEFINE a == SubSeq(blk[s], 1, n)
<1> DEFINE b == SubSeq(blk[s], n + 1, Len(blk[s]))
<1> DEFINE new == [blk EXCEPT ![s] = b]
<1> DEFINE all == rdy \o a
<1>1. blk[s] \in Seq(Threads) /\ IsInjective(blk[s])
  BY DEF Queues, Hold
<1>2. /\ a \in Seq(Threads) /\ b \in Seq(Threads)
      /\ Range(blk[s]) = Range(a) \union Range(b)
      /\ IsInjective(a) /\ IsInjective(b) /\ Range(a) \intersect Range(b) = {}
  BY <1>1, Cut
<1> HIDE DEF a, b
<1>3. /\ all \in Seq(Threads)
      /\ Range(all) = Range(rdy) \union Range(a)
      /\ IsInjective(rdy) /\ IsInjective(a) /\ Range(rdy) \intersect Range(a) = {}
           => IsInjective(all)
  BY <1>2, AllPut DEF Queues
<1> HIDE DEF all
<1>4. IsInjective(all)
  BY <1>2, <1>3 DEF Hold
<1>5. new \in [Sems -> Seq(Threads)] /\ new[s] = b /\ \A r \in Sems : r # s => new[r] = blk[r]
  BY <1>2 DEF Queues
<1> HIDE DEF new
<1>6. Queues(all, slp, new)
  BY <1>3, <1>5 DEF Queues
<1>7. Hold(all, slp, new, held)
  <2>1. \A r \in Sems : /\ IsInjective(new[r])
                        /\ Range(new[r]) \intersect (Range(all) \union Range(slp)) = {}
    BY <1>2, <1>3, <1>5 DEF Hold
  <2>2. \A r, u \in Sems : r # u => Range(new[r]) \intersect Range(new[u]) = {}
    BY <1>2, <1>5 DEF Hold
  <2>3. Range(all) \intersect Range(slp) = {}
    BY <1>2, <1>3 DEF Hold
  <2>4. \A t \in Threads :
           t \in Range(all) \union Range(slp) \/ (\E r \in Sems : t \in Range(new[r]))
             <=> t \in Range(rdy) \union Range(slp) \/ (\E r \in Sems : t \in Range(blk[r]))
    BY <1>2, <1>3, <1>5
  <2> QED BY <1>4, <2>1, <2>2, <2>3, <2>4 DEF Hold
<1> QED BY <1>6, <1>7 DEF all, new, a, b

-----------------------------------------------------------------------------
\* The inductive invariant.  No part of it is inductive alone: a dead thread
\* stays dead because the boot thread is runnable, that one is because queues do
\* not lose threads, and a signal takes a waiter because the count says so.

IInv ==
    /\ TypeOK
    /\ EveryThreadInOnePlace
    /\ BootIsRunnable
    /\ SemaphoreCount
    /\ WaitersAreBlocked

\* The first and third part of WaitersAreBlocked, for a state on the way to the
\* next one: ready queue rdy, blocked queues blk, wo for waitingOn.
Waits(rdy, blk, wo) ==
    /\ \A s \in Sems, t \in Threads : t \in Range(blk[s]) => wo[t] = s
    /\ \A t \in Threads : wo[t] # NoSem =>
          t \in Range(rdy) \/ \E s \in Sems : t \in Range(blk[s])

WaitPointers == [Threads -> Sems \union {NoSem, Destroyed}]

\* What SwitchTo() leaves, when the caller has put its thread where it belongs
\* and the boot thread is among the ready ones.
Switched(slp, blk, held) ==
    /\ running' \in Threads
    /\ running' \in held
    /\ Queues(ready', slp, blk)
    /\ Hold(ready', slp, blk, held \ {running'})
    /\ running' = Boot \/ Boot \in Range(ready')
    /\ Waits(ready', blk, waitingOn')
    /\ waitingOn' \in WaitPointers
    /\ waitingOn'[running'] = NoSem
    /\ waitResult' \in [Threads -> {0, -1}]

LEMMA SwitchToSwitches ==
    ASSUME NEW rdy, NEW slp, NEW blk, NEW held, NEW wo \in WaitPointers,
           waitResult \in [Threads -> {0, -1}],
           Queues(rdy, slp, blk), Hold(rdy, slp, blk, held), Waits(rdy, blk, wo),
           Boot \in Range(rdy),
           SwitchTo(rdy, wo)
    PROVE  Switched(slp, blk, held)
<1>1. rdy # <<>>
  BY DEF Range
<1> DEFINE next == Head(rdy)
<1>2. /\ running' = next
      /\ ready' = Tail(rdy)
      /\ waitingOn' = [wo EXCEPT ![next] = NoSem]
  BY <1>1 DEF SwitchTo
<1>3. \E works \in WorksRead(wo[next]) :
         waitResult' = IF wo[next] = NoSem THEN waitResult
                       ELSE [waitResult EXCEPT ![next] = IF works THEN 0 ELSE -1]
  BY <1>1 DEF SwitchTo
<1>4. /\ next \in Threads
      /\ Tail(rdy) \in Seq(Threads)
      /\ Range(rdy) = Range(Tail(rdy)) \union {next}
      /\ IsInjective(rdy) => IsInjective(Tail(rdy)) /\ next \notin Range(Tail(rdy))
  BY <1>1, FirstTaken DEF Queues
<1>5. /\ Queues(ready', slp, blk)
      /\ next \in held
      /\ Hold(ready', slp, blk, held \ {next})
  BY <1>1, <1>2, HoldGetReady
<1> HIDE DEF next
<1>6. waitResult' \in [Threads -> {0, -1}]
  <2>1. PICK works : waitResult' = IF wo[next] = NoSem THEN waitResult
                       ELSE [waitResult EXCEPT ![next] = IF works THEN 0 ELSE -1]
    BY <1>3
  <2>2. (IF works THEN 0 ELSE -1) \in {0, -1}
    OBVIOUS
  <2> QED BY <1>4, <2>1, <2>2
<1>7. waitingOn' \in WaitPointers /\ waitingOn'[next] = NoSem
  BY <1>2, <1>4 DEF WaitPointers
<1>8. \A s \in Sems : next \notin Range(blk[s])
  BY <1>4 DEF Hold
<1>9. Waits(ready', blk, waitingOn')
  <2>1. \A t \in Threads : t # next => waitingOn'[t] = wo[t]
    BY <1>2 DEF WaitPointers
  <2>2. ASSUME NEW s \in Sems, NEW t \in Threads, t \in Range(blk[s])
        PROVE  waitingOn'[t] = s
    BY <1>8, <2>1, <2>2 DEF Waits
  <2>3. ASSUME NEW t \in Threads, waitingOn'[t] # NoSem
        PROVE  t \in Range(ready') \/ \E s \in Sems : t \in Range(blk[s])
    BY <1>2, <1>4, <1>7, <2>1, <2>3 DEF Waits
  <2> QED BY <2>2, <2>3 DEF Waits
<1> QED BY <1>2, <1>4, <1>5, <1>6, <1>7, <1>9 DEF Switched

\* The same for kDispatch() called by a thread that goes on living.
LEMMA KDispatchSwitches ==
    ASSUME NEW rdy, NEW slp, IInv,
           Queues(rdy, slp, blocked), Hold(rdy, slp, blocked, Live \ {running}),
           Waits(rdy, blocked, waitingOn),
           running = Boot \/ Boot \in Range(rdy),
           KDispatch(rdy, finished)
    PROVE  Switched(slp, blocked, Live)
<1> DEFINE new == AddLast(rdy, running)
<1>1. running \in Threads /\ running \in Live /\ running \notin finished
  BY DEF IInv, TypeOK, EveryThreadInOnePlace, Live
<1>2. SwitchTo(new, waitingOn)
  BY <1>1 DEF KDispatch
<1>3. Queues(new, slp, blocked) /\ Hold(new, slp, blocked, (Live \ {running}) \union {running})
  BY <1>1, HoldPutReady
<1>4. (Live \ {running}) \union {running} = Live
  BY <1>1
<1>5. Range(new) = Range(rdy) \union {running}
  BY <1>1, LastPut DEF AddLast, Queues
<1> HIDE DEF new
<1>6. Hold(new, slp, blocked, Live)
  BY <1>3, <1>4
<1>7. Boot \in Range(new)
  BY <1>5
<1>8. Waits(new, blocked, waitingOn)
  BY <1>5 DEF Waits
<1>9. waitingOn \in WaitPointers /\ waitResult \in [Threads -> {0, -1}]
  BY DEF IInv, TypeOK, WaitPointers
<1> QED BY <1>2, <1>3, <1>6, <1>7, <1>8, <1>9, SwitchToSwitches

-----------------------------------------------------------------------------
\* Every action keeps the inductive invariant.

\* IInv in the form the lemmas above take.
LEMMA Unfold ==
    ASSUME IInv
    PROVE  /\ running \in Threads
           /\ running \in Live
           /\ Live = created \ finished
           /\ waitingOn \in WaitPointers
           /\ waitingOn[running] = NoSem
           /\ Waits(ready, blocked, waitingOn)
           /\ Queues(ready, SleeperSeq(sleeping), blocked)
           /\ Hold(ready, SleeperSeq(sleeping), blocked, Live \ {running})
           /\ sleeping \in Seq(Entries(Threads))
           /\ Len(SleeperSeq(sleeping)) = Len(sleeping)
<1>1. sleeping \in Seq(Entries(Threads))
  BY DEF IInv, TypeOK, Entries
<1>2. SleeperSeq(sleeping) \in Seq(Threads) /\ Len(SleeperSeq(sleeping)) = Len(sleeping)
  BY <1>1, SleeperSeqType
<1>3. Queues(ready, SleeperSeq(sleeping), blocked)
  BY <1>2 DEF IInv, TypeOK, Queues
<1>4. Waits(ready, blocked, waitingOn)
  BY DEF IInv, WaitersAreBlocked, Waits, BlockedThreads
<1> QED
  BY <1>1, <1>2, <1>3, <1>4
  DEF IInv, TypeOK, EveryThreadInOnePlace, WaitersAreBlocked, WaitPointers, Live

\* The facts about places and waits that make up IInv in the next state.
LEMMA Fold ==
    ASSUME TypeOK', SemaphoreCount', waitingOn'[running'] = NoSem,
           running' \in Live', running' = Boot \/ Boot \in Range(ready'),
           Waits(ready', blocked', waitingOn'),
           Hold(ready', SleeperSeq(sleeping'), blocked', Live' \ {running'}),
           \A s \in Sems : s \notin open' => blocked'[s] = <<>>
    PROVE  IInv'
<1>1. WaitersAreBlocked'
  BY DEF WaitersAreBlocked, Waits, BlockedThreads
<1> QED BY <1>1 DEF IInv, EveryThreadInOnePlace, BootIsRunnable

LEMMA InitHolds == Init => IInv
<1> SUFFICES ASSUME Init PROVE IInv
  OBVIOUS
<1> DEFINE q == <<OThread, Idle, User>>
<1>1. TypeOK
  BY NumbersAssumption, SemsAssumption DEF Init, TypeOK, Threads
<1>2. q \in Seq(Threads) /\ Len(q) = 3 /\ q[1] = OThread /\ q[2] = Idle /\ q[3] = User
  BY DEF Threads
<1>3. /\ ready = q /\ running = Boot /\ sleeping = <<>> /\ finished = {}
      /\ created = {Boot, OThread, Idle, User}
      /\ \A s \in Sems : blocked[s] = <<>> /\ value[s] = 0
      /\ \A t \in Threads : waitingOn[t] = NoSem
  BY DEF Init
<1> HIDE DEF q
<1>4. Range(q) = {OThread, Idle, User}
  BY <1>2 DEF Range
<1>5. IsInjective(q)
  BY <1>2, ThreadsAssumption DEF IsInjective
<1>6. SleeperSeq(sleeping) = <<>>
  BY <1>3 DEF SleeperSeq
<1>7. Range(<<>>) = {} /\ IsInjective(<<>>)
  BY DEF Range, IsInjective
<1>8. EveryThreadInOnePlace
  <2>1. running \in Live
    BY <1>3 DEF Live
  <2>2. Live \ {running} = {OThread, Idle, User}
    BY <1>3, ThreadsAssumption DEF Live
  <2>3. {OThread, Idle, User} \subseteq Threads
    BY DEF Threads
  <2>4. Hold(ready, SleeperSeq(sleeping), blocked, Live \ {running})
    BY <1>3, <1>4, <1>5, <1>6, <1>7, <2>2, <2>3 DEF Hold
  <2> QED BY <2>1, <2>4 DEF EveryThreadInOnePlace
<1>9. SemaphoreCount
  BY <1>3 DEF SemaphoreCount
<1>10. WaitersAreBlocked
  <2>1. \A s \in Sems : Range(blocked[s]) = {}
    BY <1>3, <1>7
  <2>2. Boot \in Threads
    BY DEF Threads
  <2> QED BY <1>3, <2>1, <2>2 DEF WaitersAreBlocked
<1> QED BY <1>1, <1>3, <1>8, <1>9, <1>10 DEF IInv, BootIsRunnable

LEMMA ThreadCreateKeeps ==
    ASSUME IInv, NEW t \in Workers, ThreadCreate(t) PROVE IInv'
<1>1. t \in Threads /\ t \notin Live /\ t \notin created /\ t \notin finished
  BY DEF ThreadCreate, Threads, Live, IInv, TypeOK
<1>2. Live' = Live \union {t} /\ Live' \ {running'} = (Live \ {running}) \union {t}
  BY <1>1, Unfold DEF ThreadCreate, Live
<1>3. /\ ready' = AddLast(ready, t)
      /\ UNCHANGED <<running, finished, sleeping, timeSliceCounter, open, value, blocked,
                     waitingOn, waitResult, bootPhase>>
      /\ created' = created \union {t}
  BY DEF ThreadCreate, semVars
<1>4. /\ ready' \in Seq(Threads)
      /\ Range(ready') = Range(ready) \union {t}
  BY <1>1, <1>3, LastPut DEF AddLast, IInv, TypeOK
<1>5. Hold(ready', SleeperSeq(sleeping'), blocked', Live' \ {running'})
  BY <1>1, <1>2, <1>3, HoldPutReady, Unfold
<1>6. TypeOK'
  BY <1>1, <1>3, <1>4 DEF IInv, TypeOK
<1>7. SemaphoreCount'
  BY <1>3 DEF IInv, SemaphoreCount
<1>8. Waits(ready', blocked', waitingOn')
  BY <1>3, <1>4, Unfold DEF Waits
<1>9. running' \in Live' /\ waitingOn'[running'] = NoSem
  BY <1>2, <1>3, Unfold
<1>10. running' = Boot \/ Boot \in Range(ready')
  BY <1>3, <1>4 DEF IInv, BootIsRunnable
<1>11. \A s \in Sems : s \notin open' => blocked'[s] = <<>>
  BY <1>3 DEF IInv, WaitersAreBlocked
<1> QED BY <1>5, <1>6, <1>7, <1>8, <1>9, <1>10, <1>11, Fold

\* Steps that pass the processor on and leave the semaphores alone: what is left
\* to show is where the threads are.
LEMMA SwitchKeeps ==
    ASSUME IInv,
           UNCHANGED <<created, open, value, blocked>>,
           Switched(SleeperSeq(sleeping'), blocked, Live'),
           sleeping' \in Seq(Entries(Threads)),
           finished' \in SUBSET created,
           timeSliceCounter' \in 0..(TimeSlice - 1),
           bootPhase' \in {"awaitUser", "awaitHelpers", "halted"}
    PROVE  IInv'
<1>1. TypeOK'
  BY DEF IInv, TypeOK, Switched, Queues, WaitPointers, Entries
<1>2. SemaphoreCount'
  BY DEF IInv, SemaphoreCount
<1>3. \A s \in Sems : s \notin open' => blocked'[s] = <<>>
  BY DEF IInv, WaitersAreBlocked
<1> QED BY <1>1, <1>2, <1>3, Fold DEF Switched

\* kDispatch() with no other change of places: thread_dispatch(), the output
\* thread, the boot thread.
LEMMA PlainDispatchKeeps ==
    ASSUME IInv,
           UNCHANGED <<created, finished, sleeping, open, value, blocked>>,
           KDispatch(ready, finished),
           timeSliceCounter' \in 0..(TimeSlice - 1),
           bootPhase' = bootPhase
    PROVE  IInv'
<1>1. Switched(SleeperSeq(sleeping), blocked, Live)
  BY Unfold, KDispatchSwitches DEF IInv, BootIsRunnable
<1>2. Live' = Live
  BY DEF Live
<1>3. Switched(SleeperSeq(sleeping'), blocked, Live')
  BY <1>1, <1>2
<1>4. /\ sleeping' \in Seq(Entries(Threads))
      /\ finished' \in SUBSET created
      /\ bootPhase' \in {"awaitUser", "awaitHelpers", "halted"}
  BY Unfold DEF IInv, TypeOK
<1> QED BY <1>3, <1>4, SwitchKeeps

LEMMA ThreadDispatchKeeps == ASSUME IInv, ThreadDispatch PROVE IInv'
<1>1. 0 \in 0..(TimeSlice - 1)
  BY NumbersAssumption
<1> QED BY <1>1, PlainDispatchKeeps DEF ThreadDispatch

LEMMA OThreadDispatchKeeps == ASSUME IInv, OThreadDispatch PROVE IInv'
<1>1. timeSliceCounter' \in 0..(TimeSlice - 1)
  BY DEF OThreadDispatch, IInv, TypeOK
<1> QED BY <1>1, PlainDispatchKeeps DEF OThreadDispatch

LEMMA BootDispatchKeeps == ASSUME IInv, BootDispatch PROVE IInv'
<1>1. timeSliceCounter' \in 0..(TimeSlice - 1)
  BY DEF BootDispatch, IInv, TypeOK
<1> QED BY <1>1, PlainDispatchKeeps DEF BootDispatch

\* The boot thread never makes a system call.
LEMMA BootMakesNoCall ==
    ASSUME IInv, running \in Callers \union {Idle, OThread} PROVE Boot \in Range(ready)
  BY ThreadsAssumption DEF IInv, BootIsRunnable, Callers

LEMMA ThreadExitKeeps == ASSUME IInv, ThreadExit PROVE IInv'
<1>1. Boot \in Range(ready)
  BY BootMakesNoCall DEF ThreadExit
<1>2. Live' = Live \ {running}
  BY DEF ThreadExit, Live
<1>3. SwitchTo(ready, waitingOn)
  BY DEF ThreadExit, KDispatch
<1>4. waitResult \in [Threads -> {0, -1}]
  BY DEF IInv, TypeOK
<1>5. Switched(SleeperSeq(sleeping), blocked, Live \ {running})
  BY <1>1, <1>3, <1>4, Unfold, SwitchToSwitches
<1>6. Switched(SleeperSeq(sleeping'), blocked, Live')
  BY <1>2, <1>5 DEF ThreadExit
<1>7. /\ UNCHANGED <<created, open, value, blocked>>
      /\ sleeping' \in Seq(Entries(Threads))
      /\ finished' \in SUBSET created
      /\ timeSliceCounter' \in 0..(TimeSlice - 1)
      /\ bootPhase' \in {"awaitUser", "awaitHelpers", "halted"}
  BY Unfold DEF ThreadExit, IInv, TypeOK, Live
<1> QED BY <1>6, <1>7, SwitchKeeps

LEMMA TimeSleepKeeps ==
    ASSUME IInv, NEW ticks \in Ticks, TimeSleep(ticks) PROVE IInv'
<1>1. Boot \in Range(ready)
  BY BootMakesNoCall DEF TimeSleep
<1>2. running \in Threads /\ running \in Live /\ running \notin finished
  BY Unfold
<1>3. ToInt(ticks) \in Int
  BY ToIntIsInt, NumbersAssumption
<1>4. PICK pos \in 0..Len(sleeping) :
         sleeping' = InsertSleeper(sleeping, running, ToInt(ticks), pos)
  BY <1>2 DEF TimeSleep
<1> DEFINE slp == SleeperSeq(sleeping)
<1> DEFINE new == SubSeq(slp, 1, pos) \o <<running>> \o SubSeq(slp, pos + 1, Len(slp))
<1>6. pos \in 0..Len(slp) /\ Len(slp) = Len(sleeping) /\ sleeping \in Seq(Entries(Threads))
  BY Unfold
<1>5. sleeping' \in Seq(Entries(Threads)) /\ SleeperSeq(sleeping') = new
  <2> DEFINE m == ToInt(ticks)
  <2> HIDE DEF m
  <2>1. m \in Int
    BY <1>3 DEF m
  <2>2. /\ InsertSleeper(sleeping, running, m, pos) \in Seq(Entries(Threads))
        /\ SleeperSeq(InsertSleeper(sleeping, running, m, pos))
             = SubSeq(SleeperSeq(sleeping), 1, pos) \o <<running>>
                 \o SubSeq(SleeperSeq(sleeping), pos + 1, Len(sleeping))
    <3>1. /\ sleeping \in Seq(Entries(Threads)) /\ running \in Threads
          /\ pos \in 0..Len(sleeping)
      BY <1>2, <1>6
    <3> HIDE DEF slp, new
    <3> QED BY <2>1, <3>1, InsertedSleeper, ZenonT(60)
  <2> QED BY <1>4, <1>6, <2>2 DEF m
<1>7. Queues(ready, new, blocked) /\ Hold(ready, new, blocked, (Live \ {running}) \union {running})
  BY <1>2, <1>6, Unfold, HoldPutSleeper
<1> HIDE DEF new
<1>8. (Live \ {running}) \union {running} = Live
  BY <1>2
<1>9. Queues(ready, new, blocked) /\ Hold(ready, new, blocked, Live)
  BY <1>7, <1>8
<1>10. SwitchTo(ready, waitingOn) /\ waitResult \in [Threads -> {0, -1}]
  BY DEF TimeSleep, IInv, TypeOK
<1>11. Switched(new, blocked, Live)
  BY <1>1, <1>9, <1>10, Unfold, SwitchToSwitches
<1>12. Switched(SleeperSeq(sleeping'), blocked, Live')
  BY <1>5, <1>11 DEF TimeSleep, Live
<1>13. /\ UNCHANGED <<created, open, value, blocked>>
       /\ finished' \in SUBSET created
       /\ timeSliceCounter' \in 0..(TimeSlice - 1)
       /\ bootPhase' \in {"awaitUser", "awaitHelpers", "halted"}
  BY DEF TimeSleep, IInv, TypeOK
<1> QED BY <1>5, <1>12, <1>13, SwitchKeeps

LEMMA TimerTickKeeps == ASSUME IInv, TimerTick PROVE IInv'
<1> DEFINE lowered == LowerFirst(sleeping, 1)
<1> DEFINE slp == SleeperSeq(lowered)
<1>1. PICK n \in 0..Len(sleeping) :
         LET rdy == ready \o SubSeq(slp, 1, n)
         IN  /\ sleeping' = SubSeq(lowered, n + 1, Len(lowered))
             /\ IF SliceEnds
                THEN /\ timeSliceCounter' = 0
                     /\ KDispatch(rdy, finished)
                ELSE /\ timeSliceCounter' = timeSliceCounter + 1
                     /\ ready' = rdy
                     /\ UNCHANGED <<running, waitingOn, waitResult>>
  BY DEF TimerTick
<1>2. /\ lowered \in Seq(Entries(Threads))
      /\ Len(lowered) = Len(sleeping)
      /\ slp = SleeperSeq(sleeping)
  BY Unfold, LoweredSleepers
<1>3. /\ slp \in Seq(Threads)
      /\ Len(slp) = Len(sleeping)
      /\ n \in 0..Len(lowered)
      /\ n \in 0..Len(slp)
  BY <1>2, Unfold, SleeperSeqType
<1>4. /\ sleeping' \in Seq(Entries(Threads))
      /\ SleeperSeq(sleeping') = SubSeq(slp, n + 1, Len(slp))
  <2>1. sleeping' = SubSeq(lowered, n + 1, Len(lowered)) /\ Len(lowered) = Len(slp)
    BY <1>1, <1>2, <1>3
  <2> HIDE DEF lowered
  <2>2. sleeping' \in Seq(Entries(Threads))
    BY <1>2, <1>3, <2>1, Cut
  <2>3. SleeperSeq(SubSeq(lowered, n + 1, Len(lowered))) = SubSeq(slp, n + 1, Len(lowered))
    BY <1>2, <1>3, SleeperSeqCut
  <2> QED BY <2>1, <2>2, <2>3
<1> DEFINE rdy == ready \o SubSeq(slp, 1, n)
<1>5. Hold(ready, slp, blocked, Live \ {running}) /\ Queues(ready, slp, blocked)
  BY <1>2, Unfold
<1> HIDE DEF slp, lowered
<1>6. /\ Queues(rdy, SleeperSeq(sleeping'), blocked)
      /\ Hold(rdy, SleeperSeq(sleeping'), blocked, Live \ {running})
  BY <1>3, <1>4, <1>5, HoldWake
<1>7. Range(ready) \subseteq Range(rdy)
  <2>1. ready \in Seq(Threads) /\ SubSeq(slp, 1, n) \in Seq(Threads)
    <3>1. ready \in Seq(Threads)
      BY DEF IInv, TypeOK
    <3> QED BY <1>3, <3>1, Cut
  <2>2. Range(rdy) = Range(ready) \union Range(SubSeq(slp, 1, n))
    BY <2>1, AllPut, ZenonT(60)
  <2> HIDE DEF rdy
  <2> QED BY <2>2
<1>8. Waits(rdy, blocked, waitingOn)
  BY <1>7, Unfold DEF Waits
<1>9. running = Boot \/ Boot \in Range(rdy)
  BY <1>7 DEF IInv, BootIsRunnable
<1>10. /\ UNCHANGED <<created, finished, open, value, blocked, bootPhase>>
       /\ Live' = Live
       /\ finished' \in SUBSET created
       /\ bootPhase' \in {"awaitUser", "awaitHelpers", "halted"}
  BY DEF TimerTick, Live, IInv, TypeOK
<1>11. CASE SliceEnds
  <2>1. timeSliceCounter' = 0 /\ KDispatch(rdy, finished)
    BY <1>1, <1>11
  <2>2. timeSliceCounter' \in 0..(TimeSlice - 1)
    BY <2>1, NumbersAssumption
  <2> HIDE DEF rdy
  <2>3. Switched(SleeperSeq(sleeping'), blocked, Live)
    BY <1>6, <1>8, <1>9, <2>1, KDispatchSwitches
  <2> QED BY <1>4, <1>10, <2>2, <2>3, SwitchKeeps
<1>12. CASE ~SliceEnds
  <2>1. /\ timeSliceCounter' = timeSliceCounter + 1
        /\ ready' = rdy
        /\ UNCHANGED <<running, waitingOn, waitResult>>
    BY <1>1, <1>12
  <2>2. timeSliceCounter' \in 0..(TimeSlice - 1)
    BY <1>12, <2>1, NumbersAssumption DEF SliceEnds, IInv, TypeOK
  <2> HIDE DEF rdy
  <2>3. TypeOK'
    BY <1>4, <1>6, <1>10, <2>1, <2>2 DEF IInv, TypeOK, Entries, Queues
  <2>4. SemaphoreCount'
    BY <1>10 DEF IInv, SemaphoreCount
  <2>5. /\ running' \in Live'
        /\ waitingOn'[running'] = NoSem
        /\ running' = Boot \/ Boot \in Range(ready')
        /\ Waits(ready', blocked', waitingOn')
        /\ Hold(ready', SleeperSeq(sleeping'), blocked', Live' \ {running'})
    BY <1>6, <1>8, <1>9, <1>10, <2>1, Unfold
  <2>6. \A s \in Sems : s \notin open' => blocked'[s] = <<>>
    BY <1>10 DEF IInv, WaitersAreBlocked
  <2> QED BY <2>3, <2>4, <2>5, <2>6, Fold
<1> QED BY <1>11, <1>12

LEMMA SemOpenKeeps ==
    ASSUME IInv, NEW s \in Sems, NEW init \in InitValues, SemOpen(s, init) PROVE IInv'
<1>1. /\ s \notin open
      /\ open' = open \union {s}
      /\ value' = [value EXCEPT ![s] = ToInt(init)]
      /\ UNCHANGED <<running, ready, created, finished, sleeping, timeSliceCounter, blocked,
                     waitingOn, waitResult, bootPhase>>
  BY DEF SemOpen, threadVars
<1>2. ToInt(init) \in Nat
  BY ToIntOfInit
<1>3. TypeOK'
  BY <1>1, <1>2 DEF IInv, TypeOK
<1>4. blocked[s] = <<>>
  BY <1>1 DEF IInv, WaitersAreBlocked
<1>5. SemaphoreCount'
  BY <1>1, <1>2, <1>4 DEF IInv, SemaphoreCount, TypeOK
<1>6. Live' = Live
  BY <1>1 DEF Live
<1>7. /\ EveryThreadInOnePlace'
      /\ BootIsRunnable'
      /\ WaitersAreBlocked'
  BY <1>1, <1>6 DEF IInv, EveryThreadInOnePlace, BootIsRunnable, WaitersAreBlocked, BlockedThreads
<1> QED BY <1>3, <1>5, <1>7 DEF IInv

LEMMA SemCloseKeeps == ASSUME IInv, NEW s \in Sems, SemClose(s) PROVE IInv'
<1>1. /\ s \in open
      /\ open' = open \ {s}
      /\ ready' = ready \o blocked[s]
      /\ blocked' = [blocked EXCEPT ![s] = <<>>]
      /\ value' = [value EXCEPT ![s] = 0]
      /\ waitingOn' = [t \in Threads |-> IF waitingOn[t] = s THEN Destroyed ELSE waitingOn[t]]
      /\ UNCHANGED <<running, created, finished, sleeping, timeSliceCounter, waitResult, bootPhase>>
  BY DEF SemClose, ClosedWaiters
<1>2. /\ blocked[s] \in Seq(Threads)
      /\ Len(blocked[s]) \in 0..Len(blocked[s])
      /\ SubSeq(blocked[s], 1, Len(blocked[s])) = blocked[s]
      /\ SubSeq(blocked[s], Len(blocked[s]) + 1, Len(blocked[s])) = <<>>
  <2>1. blocked[s] \in Seq(Threads)
    BY DEF IInv, TypeOK
  <2> QED BY <2>1, SubSeqFull, SubSeqEmpty, LenProperties
<1>3. /\ Queues(ready', SleeperSeq(sleeping'), blocked')
      /\ Hold(ready', SleeperSeq(sleeping'), blocked', Live \ {running})
  <2> DEFINE n == Len(blocked[s])
  <2> DEFINE gone == SubSeq(blocked[s], 1, n)
  <2> DEFINE new == [blocked EXCEPT ![s] = SubSeq(blocked[s], n + 1, Len(blocked[s]))]
  <2>1. /\ Queues(ready \o gone, SleeperSeq(sleeping), new)
        /\ Hold(ready \o gone, SleeperSeq(sleeping), new, Live \ {running})
    BY <1>2, Unfold, HoldFree
  <2>2. gone = blocked[s] /\ new = [blocked EXCEPT ![s] = <<>>]
    BY <1>2
  <2> HIDE DEF gone, new
  <2> QED BY <1>1, <2>1, <2>2
<1>4. Live' = Live
  BY <1>1 DEF Live
<1>5. TypeOK'
  BY <1>1, <1>3 DEF IInv, TypeOK, Queues
<1>6. SemaphoreCount'
  BY <1>1 DEF IInv, SemaphoreCount, TypeOK
<1>7. Range(ready') = Range(ready) \union Range(blocked[s])
  BY <1>1, <1>2, AllPut, Unfold DEF Queues
<1>8. \A r \in Sems : r # s => blocked'[r] = blocked[r]
  BY <1>1 DEF IInv, TypeOK
<1>9. blocked'[s] = <<>>
  BY <1>1 DEF IInv, TypeOK
<1>10. Waits(ready', blocked', waitingOn')
  <2>1. Range(blocked'[s]) = {}
    BY <1>9 DEF Range
  <2>2. ASSUME NEW r \in Sems, NEW t \in Threads, t \in Range(blocked'[r])
        PROVE  waitingOn'[t] = r
    <3>1. r # s /\ t \in Range(blocked[r])
      BY <1>8, <2>1, <2>2
    <3>2. waitingOn[t] = r
      BY <3>1, Unfold DEF Waits
    <3> QED BY <1>1, <3>1, <3>2
  <2>3. ASSUME NEW t \in Threads, waitingOn'[t] # NoSem
        PROVE  t \in Range(ready') \/ \E r \in Sems : t \in Range(blocked'[r])
    <3>1. waitingOn[t] # NoSem
      BY <1>1, <2>3, SemsAssumption
    <3>2. t \in Range(ready) \/ \E r \in Sems : t \in Range(blocked[r])
      BY <3>1, Unfold DEF Waits
    <3> QED BY <1>7, <1>8, <3>2
  <2> QED BY <2>2, <2>3 DEF Waits
<1>11. waitingOn'[running'] = NoSem
  BY <1>1, SemsAssumption, Unfold
<1>12. running' \in Live' /\ (running' = Boot \/ Boot \in Range(ready'))
  BY <1>1, <1>4, <1>7, Unfold DEF IInv, BootIsRunnable
<1>13. \A r \in Sems : r \notin open' => blocked'[r] = <<>>
  BY <1>1, <1>8, <1>9 DEF IInv, WaitersAreBlocked
<1>14. Hold(ready', SleeperSeq(sleeping'), blocked', Live' \ {running'})
  BY <1>1, <1>3, <1>4
<1> QED BY <1>5, <1>6, <1>10, <1>11, <1>12, <1>13, <1>14, Fold

LEMMA SemSignalKeeps == ASSUME IInv, NEW s \in Sems, SemSignal(s) PROVE IInv'
<1>1. /\ value' = [value EXCEPT ![s] = @ + 1]
      /\ UNCHANGED <<running, created, finished, sleeping, timeSliceCounter, open, waitingOn,
                     waitResult, bootPhase>>
  BY DEF SemSignal
<1>2. /\ blocked \in [Sems -> Seq(Threads)]
      /\ blocked[s] \in Seq(Threads)
      /\ value \in [Sems -> Int]
      /\ value[s] \in Int
      /\ Len(blocked[s]) = IF value[s] < 0 THEN -value[s] ELSE 0
      /\ ready \in Seq(Threads)
  BY DEF IInv, TypeOK, SemaphoreCount
<1>3. Live' = Live
  BY <1>1 DEF Live
<1>4. CASE blocked[s] = <<>>
  <2>1. UNCHANGED <<ready, blocked>>
    BY <1>4 DEF SemSignal
  <2>2. TypeOK'
    BY <1>1, <1>2, <2>1 DEF IInv, TypeOK
  <2>3. SemaphoreCount'
    BY <1>1, <1>2, <1>4, <2>1 DEF IInv, SemaphoreCount
  <2>4. EveryThreadInOnePlace' /\ BootIsRunnable' /\ WaitersAreBlocked'
    BY <1>1, <1>3, <2>1
    DEF IInv, EveryThreadInOnePlace, BootIsRunnable, WaitersAreBlocked, BlockedThreads
  <2> QED BY <2>2, <2>3, <2>4 DEF IInv
<1>5. CASE blocked[s] # <<>>
  <2> DEFINE h == Head(blocked[s])
  <2>1. ready' = Append(ready, h) /\ blocked' = [blocked EXCEPT ![s] = Tail(@)]
    BY <1>5 DEF SemSignal, AddLast
  <2>2. /\ h \in Threads
        /\ Tail(blocked[s]) \in Seq(Threads)
        /\ Range(blocked[s]) = Range(Tail(blocked[s])) \union {h}
    BY <1>2, <1>5, FirstTaken
  <2>3. /\ 1 \in 0..Len(blocked[s])
        /\ SubSeq(blocked[s], 1, 1) = <<h>>
        /\ SubSeq(blocked[s], 1 + 1, Len(blocked[s])) = Tail(blocked[s])
        /\ Len(blocked[s]) > 0
        /\ Len(Tail(blocked[s])) = Len(blocked[s]) - 1
    BY <1>2, <1>5, CutFirst
  <2>4. ready \o <<h>> = Append(ready, h)
    BY <1>2, <2>2, AppendIsConcat
  <2> HIDE DEF h
  <2>5. /\ Queues(ready', SleeperSeq(sleeping'), blocked')
        /\ Hold(ready', SleeperSeq(sleeping'), blocked', Live' \ {running'})
    <3> DEFINE gone == SubSeq(blocked[s], 1, 1)
    <3> DEFINE new == [blocked EXCEPT ![s] = SubSeq(blocked[s], 1 + 1, Len(blocked[s]))]
    <3>1. /\ Queues(ready \o gone, SleeperSeq(sleeping), new)
          /\ Hold(ready \o gone, SleeperSeq(sleeping), new, Live \ {running})
      BY <2>3, Unfold, HoldFree
    <3>2. ready \o gone = ready' /\ new = blocked'
      BY <2>1, <2>3, <2>4
    <3> HIDE DEF gone, new
    <3> QED BY <1>1, <1>3, <3>1, <3>2
  <2>6. Range(ready') = Range(ready) \union {h}
    BY <1>2, <2>1, <2>2, LastPut
  <2>7. blocked'[s] = Tail(blocked[s]) /\ \A r \in Sems : r # s => blocked'[r] = blocked[r]
    BY <1>2, <2>1
  <2>8. TypeOK'
    <3>1. ready' \in Seq(Threads) /\ blocked' \in [Sems -> Seq(Threads)]
      BY <2>5 DEF Queues
    <3> QED BY <1>1, <1>2, <3>1 DEF IInv, TypeOK
  <2>9. SemaphoreCount'
    <3>1. ASSUME NEW r \in Sems
          PROVE  Len(blocked'[r]) = IF value'[r] < 0 THEN -value'[r] ELSE 0
      <4>1. CASE r = s
        BY <1>1, <1>2, <2>3, <2>7, <4>1
      <4>2. CASE r # s
        BY <1>1, <1>2, <2>7, <4>2 DEF IInv, SemaphoreCount
      <4> QED BY <4>1, <4>2
    <3> QED BY <3>1 DEF SemaphoreCount
  <2>10. Waits(ready', blocked', waitingOn')
    <3>1. ASSUME NEW r \in Sems, NEW t \in Threads, t \in Range(blocked'[r])
          PROVE  waitingOn'[t] = r
      BY <1>1, <2>2, <2>7, <3>1, Unfold DEF Waits
    <3>2. ASSUME NEW t \in Threads, waitingOn'[t] # NoSem
          PROVE  t \in Range(ready') \/ \E r \in Sems : t \in Range(blocked'[r])
      <4>1. t \in Range(ready) \/ \E r \in Sems : t \in Range(blocked[r])
        BY <1>1, <3>2, Unfold DEF Waits
      <4> QED BY <2>2, <2>6, <2>7, <4>1
    <3> QED BY <3>1, <3>2 DEF Waits
  <2>11. /\ running' \in Live'
         /\ waitingOn'[running'] = NoSem
         /\ running' = Boot \/ Boot \in Range(ready')
    BY <1>1, <1>3, <2>6, Unfold DEF IInv, BootIsRunnable
  <2>12. \A r \in Sems : r \notin open' => blocked'[r] = <<>>
    BY <1>1, <2>7 DEF IInv, WaitersAreBlocked, SemSignal
  <2> QED BY <2>5, <2>8, <2>9, <2>10, <2>11, <2>12, Fold
<1> QED BY <1>4, <1>5

LEMMA SemWaitKeeps == ASSUME IInv, NEW s \in Sems, SemWait(s) PROVE IInv'
<1>1. /\ running \in Callers \union {OThread}
      /\ s \in open
      /\ value' = [value EXCEPT ![s] = @ - 1]
      /\ UNCHANGED <<created, finished, sleeping, timeSliceCounter, open, bootPhase>>
  BY DEF SemWait
<1>2. /\ blocked \in [Sems -> Seq(Threads)]
      /\ blocked[s] \in Seq(Threads)
      /\ value \in [Sems -> Int]
      /\ value[s] \in Int
      /\ value'[s] = value[s] - 1
      /\ Len(blocked[s]) = IF value[s] < 0 THEN -value[s] ELSE 0
  BY <1>1 DEF IInv, TypeOK, SemaphoreCount
<1>3. Live' = Live
  BY <1>1 DEF Live
<1>4. CASE ~Blocks(value'[s])
  <2>1. /\ waitResult' = [waitResult EXCEPT ![running] = 0]
        /\ UNCHANGED <<running, ready, blocked, waitingOn>>
    BY <1>4 DEF SemWait
  <2>2. TypeOK'
    BY <1>1, <1>2, <2>1 DEF IInv, TypeOK
  <2>3. SemaphoreCount'
    BY <1>1, <1>2, <1>4, <2>1 DEF IInv, SemaphoreCount, Blocks
  <2>4. EveryThreadInOnePlace' /\ BootIsRunnable' /\ WaitersAreBlocked'
    BY <1>1, <1>3, <2>1
    DEF IInv, EveryThreadInOnePlace, BootIsRunnable, WaitersAreBlocked, BlockedThreads
  <2> QED BY <2>2, <2>3, <2>4 DEF IInv
<1>5. CASE Blocks(value'[s])
  <2> DEFINE new == [blocked EXCEPT ![s] = AddLast(@, running)]
  <2> DEFINE wo == [waitingOn EXCEPT ![running] = s]
  <2>1. blocked' = new /\ SwitchTo(ready, wo)
    BY <1>5 DEF SemWait
  <2>2. /\ Queues(ready, SleeperSeq(sleeping), new)
        /\ Hold(ready, SleeperSeq(sleeping), new, (Live \ {running}) \union {running})
    BY Unfold, HoldPutBlocked
  <2>3. /\ new[s] = Append(blocked[s], running)
        /\ \A r \in Sems : r # s => new[r] = blocked[r]
        /\ Range(Append(blocked[s], running)) = Range(blocked[s]) \union {running}
        /\ Len(Append(blocked[s], running)) = Len(blocked[s]) + 1
    BY <1>2, Unfold, LastPut DEF AddLast
  <2>4. wo \in WaitPointers /\ wo[running] = s /\ \A t \in Threads : t # running => wo[t] = waitingOn[t]
    BY Unfold DEF WaitPointers
  <2> HIDE DEF new, wo
  <2>5. Hold(ready, SleeperSeq(sleeping), new, Live)
    <3>1. (Live \ {running}) \union {running} = Live
      BY Unfold
    <3> QED BY <2>2, <3>1
  <2>6. Waits(ready, new, wo)
    <3>1. \A r \in Sems : running \notin Range(blocked[r])
      BY Unfold DEF Hold
    <3>2. ASSUME NEW r \in Sems, NEW t \in Threads, t \in Range(new[r]) PROVE wo[t] = r
      <4>1. CASE t = running
        BY <2>3, <2>4, <3>1, <3>2, <4>1
      <4>2. CASE t # running
        BY <2>3, <2>4, <3>2, <4>2, Unfold DEF Waits
      <4> QED BY <4>1, <4>2
    <3>3. ASSUME NEW t \in Threads, wo[t] # NoSem
          PROVE  t \in Range(ready) \/ \E r \in Sems : t \in Range(new[r])
      <4>1. CASE t = running
        BY <2>3, <4>1
      <4>2. CASE t # running
        BY <2>3, <2>4, <3>3, <4>2, Unfold DEF Waits
      <4> QED BY <4>1, <4>2
    <3> QED BY <3>2, <3>3 DEF Waits
  <2>7. Boot \in Range(ready) /\ waitResult \in [Threads -> {0, -1}]
    BY <1>1, BootMakesNoCall DEF IInv, TypeOK
  <2>8. Switched(SleeperSeq(sleeping), new, Live)
    BY <2>1, <2>2, <2>4, <2>5, <2>6, <2>7, SwitchToSwitches
  <2>9. Switched(SleeperSeq(sleeping'), blocked', Live')
    BY <1>1, <1>3, <2>1, <2>8
  <2>10. TypeOK'
    <3>1. blocked' \in [Sems -> Seq(Threads)] /\ ready' \in Seq(Threads)
      BY <2>9 DEF Switched, Queues
    <3>2. /\ running' \in Threads /\ waitResult' \in [Threads -> {0, -1}]
          /\ waitingOn' \in [Threads -> Sems \union {NoSem, Destroyed}]
      BY <2>9 DEF Switched, WaitPointers
    <3> HIDE DEF new, wo
    <3> QED BY <1>1, <1>2, <3>1, <3>2 DEF IInv, TypeOK
  <2>11. SemaphoreCount'
    BY <1>1, <1>2, <1>5, <2>1, <2>3 DEF IInv, SemaphoreCount, Blocks
  <2>12. \A r \in Sems : r \notin open' => blocked'[r] = <<>>
    BY <1>1, <2>1, <2>3 DEF IInv, WaitersAreBlocked
  <2> QED BY <2>9, <2>10, <2>11, <2>12, Fold DEF Switched
<1> QED BY <1>4, <1>5

LEMMA BootAdvanceKeeps == ASSUME IInv, BootAdvance PROVE IInv'
<1>1. /\ UNCHANGED <<running, ready, created, finished, sleeping, timeSliceCounter, open, value,
                     blocked, waitingOn, waitResult>>
      /\ bootPhase' \in {"awaitUser", "awaitHelpers", "halted"}
  BY DEF BootAdvance, threadVars, semVars
<1> QED
  BY <1>1 DEF IInv, TypeOK, EveryThreadInOnePlace, BootIsRunnable, SemaphoreCount,
              WaitersAreBlocked, BlockedThreads, Live

LEMMA StutterKeeps == ASSUME IInv, UNCHANGED vars PROVE IInv'
  BY DEF IInv, vars, threadVars, semVars, TypeOK, EveryThreadInOnePlace, BootIsRunnable,
         SemaphoreCount, WaitersAreBlocked, BlockedThreads, Live

LEMMA NextKeeps == IInv /\ [Next]_vars => IInv'
<1> SUFFICES ASSUME IInv, [Next]_vars PROVE IInv'
  OBVIOUS
<1>1. CASE ThreadStep
  BY <1>1, ThreadExitKeeps, ThreadDispatchKeeps, ThreadCreateKeeps, TimeSleepKeeps,
     SemOpenKeeps, SemCloseKeeps, SemWaitKeeps, SemSignalKeeps DEF ThreadStep
<1>2. CASE TimerTick
  BY <1>2, TimerTickKeeps
<1>3. CASE OThreadDispatch
  BY <1>3, OThreadDispatchKeeps
<1>4. CASE BootDispatch
  BY <1>4, BootDispatchKeeps
<1>5. CASE BootAdvance
  BY <1>5, BootAdvanceKeeps
<1>6. CASE Halted \/ UNCHANGED vars
  BY <1>6, StutterKeeps DEF Halted
<1> QED BY <1>1, <1>2, <1>3, <1>4, <1>5, <1>6 DEF Next

-----------------------------------------------------------------------------
\* The results.

\* The inductive invariant holds in every reachable state.
THEOREM InvariantHolds == Spec => []IInv
<1>1. Init => IInv
  BY InitHolds
<1>2. IInv /\ [Next]_vars => IInv'
  BY NextKeeps
<1> QED BY <1>1, <1>2, PTL DEF Spec

\* The state of the kernel keeps its types.
THEOREM TypesHold == Spec => []TypeOK
<1>1. IInv => TypeOK
  BY DEF IInv
<1> QED BY <1>1, InvariantHolds, PTL

\* No handler of tcb.cpp, scheduler.cpp, semaphore.cpp or the timer loses or
\* duplicates a thread, and no dead thread runs again.
THEOREM NoThreadIsLost == Spec => []EveryThreadInOnePlace
<1>1. IInv => EveryThreadInOnePlace
  BY DEF IInv
<1> QED BY <1>1, InvariantHolds, PTL

\* Scheduler::get() always finds a thread for a handler that must switch.
THEOREM ReadyQueueSuffices == Spec => []BootIsRunnable
<1>1. IInv => BootIsRunnable
  BY DEF IInv
<1> QED BY <1>1, InvariantHolds, PTL

\* _sem::value counts the blocked threads exactly.
THEOREM SemaphoresCount == Spec => []SemaphoreCount
<1>1. IInv => SemaphoreCount
  BY DEF IInv
<1> QED BY <1>1, InvariantHolds, PTL

\* A thread sits in a blockedQueue only during its own wait() on that semaphore.
THEOREM WaitersHold == Spec => []WaitersAreBlocked
<1>1. IInv => WaitersAreBlocked
  BY DEF IInv
<1> QED BY <1>1, InvariantHolds, PTL

-----------------------------------------------------------------------------
\* Order in the queues.

\* Elements put behind a queue are behind those that were in it.
LEMMA AheadStays ==
    ASSUME NEW q \in Seq(Threads), NEW r \in Seq(Threads), NEW t, NEW u,
           WasAhead(q, t, u), u \in Range(q \o r)
    PROVE  Before(q \o r, t, u)
<1> DEFINE c == q \o r
<1>1. /\ DOMAIN q = 1..Len(q) /\ DOMAIN c = 1..(Len(q) + Len(r))
      /\ Len(q) \in Nat /\ Len(r) \in Nat
      /\ \A i \in 1..Len(q) : c[i] = q[i]
  OBVIOUS
<1> HIDE DEF c
<1>2. \A i \in 1..Len(q) : i \in 1..(Len(q) + Len(r))
  BY <1>1
<1>3. CASE Before(q, t, u)
  BY <1>1, <1>2, <1>3 DEF Before, c
<1>4. CASE t \in Range(q) /\ u \notin Range(q)
  <2>1. PICK i \in 1..Len(q) : q[i] = t
    BY <1>1, <1>4 DEF Range
  <2>2. PICK j \in 1..(Len(q) + Len(r)) : c[j] = u
    BY <1>1 DEF Range, c
  <2>3. j \notin 1..Len(q)
    BY <1>1, <1>4, <2>2 DEF Range
  <2>4. i < j
    BY <1>1, <2>3
  <2> QED BY <1>1, <1>2, <2>1, <2>2, <2>4 DEF Before, c
<1> QED BY <1>3, <1>4 DEF WasAhead

\* Taking the first element leaves the order of the others.
LEMMA OrderOfTheRest ==
    ASSUME NEW q \in Seq(Threads), q # <<>>, IsInjective(q), NEW t, NEW u, Before(q, t, u)
    PROVE  /\ t # Head(q) => Before(Tail(q), t, u)
           /\ u \in Range(Tail(q)) /\ u # Head(q)
<1> DEFINE r == Tail(q)
<1>1. /\ DOMAIN q = 1..Len(q) /\ DOMAIN r = 1..(Len(q) - 1)
      /\ Len(q) \in Nat /\ Len(q) >= 1
      /\ \A i \in 1..(Len(q) - 1) : r[i] = q[i+1]
      /\ Head(q) = q[1]
  OBVIOUS
<1> HIDE DEF r
<1>2. PICK i \in 1..Len(q), j \in 1..Len(q) : i < j /\ q[i] = t /\ q[j] = u
  BY <1>1 DEF Before
<1>3. j - 1 \in 1..(Len(q) - 1) /\ (j - 1) + 1 = j
  BY <1>1, <1>2
<1>4. r[j - 1] = u
  BY <1>1, <1>2, <1>3
<1>5. u # Head(q)
  <2>1. 1 \in DOMAIN q /\ j \in DOMAIN q /\ j # 1
    BY <1>1, <1>2
  <2> QED BY <1>1, <1>2, <2>1 DEF IsInjective
<1>6. ASSUME t # Head(q) PROVE Before(r, t, u)
  <2>1. i - 1 \in 1..(Len(q) - 1) /\ (i - 1) + 1 = i /\ i - 1 < j - 1
    BY <1>1, <1>2, <1>6
  <2>2. r[i - 1] = t
    BY <1>1, <1>2, <2>1
  <2> QED BY <1>1, <1>3, <1>4, <2>1, <2>2 DEF Before
<1>7. u \in Range(r)
  BY <1>1, <1>3, <1>4 DEF Range
<1> QED BY <1>5, <1>6, <1>7 DEF r

\* What a handler does to the ready queue: it puts threads at its end and may
\* take the first one.
Grows(rdy) ==
    \E x \in Seq(Threads) :
       /\ rdy = ready \o x
       /\ IsInjective(rdy)

GrownReady(rdy) == Grows(rdy) /\ (ready' = rdy \/ (rdy # <<>> /\ ready' = Tail(rdy)))

LEMMA ReadyGrowsByOne ==
    ASSUME NEW rdy \in Seq(Threads), NEW t \in Threads, ready \in Seq(Threads),
           Grows(rdy), t \notin Range(rdy)
    PROVE  Grows(Append(rdy, t)) /\ Append(rdy, t) # <<>> /\ Append(rdy, t) \in Seq(Threads)
<1>1. PICK x \in Seq(Threads) : rdy = ready \o x
  BY DEF Grows
<1>2. IsInjective(rdy)
  BY DEF Grows
<1>3. Append(x, t) \in Seq(Threads) /\ Append(rdy, t) # <<>> /\ Append(rdy, t) \in Seq(Threads)
  BY AppendProperties
<1>4. Append(ready \o x, t) = ready \o Append(x, t)
  OBVIOUS
<1>5. IsInjective(Append(rdy, t))
  BY <1>2, LastPut
<1> QED BY <1>1, <1>3, <1>4, <1>5 DEF Grows

LEMMA ReadyGrowsNot ==
    ASSUME ready \in Seq(Threads), IsInjective(ready) PROVE Grows(ready)
<1>1. <<>> \in Seq(Threads) /\ ready = ready \o <<>>
  BY ConcatEmptySeq, EmptySeq
<1> QED BY <1>1 DEF Grows

LEMMA DispatchGrows ==
    ASSUME NEW rdy \in Seq(Threads), ready \in Seq(Threads), Grows(rdy),
           running \in Threads, running \notin Range(rdy), KDispatch(rdy, finished),
           running \notin finished
    PROVE  \E new \in Seq(Threads) : GrownReady(new)
<1> DEFINE new == Append(rdy, running)
<1>1. Grows(new) /\ new # <<>> /\ new \in Seq(Threads)
  BY ReadyGrowsByOne
<1>2. ready' = Tail(new)
  BY <1>1 DEF KDispatch, SwitchTo, AddLast
<1> HIDE DEF new
<1> QED BY <1>1, <1>2 DEF GrownReady

LEMMA SwitchGrows ==
    ASSUME ready \in Seq(Threads), Grows(ready), NEW wo, SwitchTo(ready, wo)
    PROVE  \E new \in Seq(Threads) : GrownReady(new)
<1>1. CASE ready = <<>>
  BY <1>1 DEF SwitchTo, GrownReady
<1>2. CASE ready # <<>>
  BY <1>2 DEF SwitchTo, GrownReady
<1> QED BY <1>1, <1>2

LEMMA StepGrowsReady ==
    ASSUME IInv, [Next]_vars PROVE \E new \in Seq(Threads) : GrownReady(new)
<1>1. /\ ready \in Seq(Threads) /\ running \in Threads /\ running \notin finished
      /\ Hold(ready, SleeperSeq(sleeping), blocked, Live \ {running})
      /\ IsInjective(ready) /\ running \notin Range(ready)
      /\ Grows(ready)
  <2>1. /\ ready \in Seq(Threads) /\ running \in Threads /\ running \notin finished
        /\ Hold(ready, SleeperSeq(sleeping), blocked, Live \ {running})
        /\ IsInjective(ready)
    BY Unfold DEF IInv, TypeOK, Hold
  <2>2. running \notin Range(ready)
    BY <2>1 DEF Hold
  <2> QED BY <2>1, <2>2, ReadyGrowsNot
<1>2. CASE ThreadDispatch \/ OThreadDispatch \/ BootDispatch
  BY <1>1, <1>2, DispatchGrows DEF ThreadDispatch, OThreadDispatch, BootDispatch
<1>3. CASE ThreadExit
  BY <1>1, <1>3, SwitchGrows DEF ThreadExit, KDispatch
<1>4. CASE \E t \in Workers : ThreadCreate(t)
  <2>1. PICK t \in Workers : ThreadCreate(t)
    BY <1>4
  <2>2. ready' = Append(ready, t) /\ t \in Threads /\ t \notin Range(ready)
    BY <1>1, <2>1 DEF ThreadCreate, AddLast, Hold, Threads, Live
  <2>3. Grows(ready') /\ ready' \in Seq(Threads)
    BY <1>1, <2>2, ReadyGrowsByOne
  <2> QED BY <2>3 DEF GrownReady
<1>5. CASE \E ticks \in Ticks : TimeSleep(ticks)
  BY <1>1, <1>5, SwitchGrows DEF TimeSleep
<1>6. CASE \E s \in Sems : SemClose(s)
  <2>1. PICK s \in Sems : SemClose(s)
    BY <1>6
  <2>2. ready' = ready \o blocked[s] /\ blocked[s] \in Seq(Threads)
    BY <2>1 DEF SemClose, ClosedWaiters, IInv, TypeOK
  <2>3. ready' \in Seq(Threads) /\ IsInjective(ready')
    BY <1>1, <2>2, AllPut DEF Hold
  <2> QED BY <2>2, <2>3 DEF GrownReady, Grows
<1>7. CASE \E s \in Sems : SemWait(s)
  <2>1. PICK s \in Sems : SemWait(s)
    BY <1>7
  <2>2. CASE Blocks(value'[s])
    BY <1>1, <2>1, <2>2, SwitchGrows DEF SemWait
  <2>3. CASE ~Blocks(value'[s])
    BY <1>1, <2>1, <2>3 DEF SemWait, GrownReady
  <2> QED BY <2>2, <2>3
<1>8. CASE \E s \in Sems : SemSignal(s)
  <2>1. PICK s \in Sems : SemSignal(s)
    BY <1>8
  <2>2. CASE blocked[s] = <<>>
    BY <1>1, <2>1, <2>2 DEF SemSignal, GrownReady
  <2>3. CASE blocked[s] # <<>>
    <3>1. ready' = Append(ready, Head(blocked[s]))
      BY <2>1, <2>3 DEF SemSignal, AddLast
    <3>2. blocked[s] \in Seq(Threads)
      BY DEF IInv, TypeOK
    <3>3. Head(blocked[s]) \in Threads /\ Head(blocked[s]) \in Range(blocked[s])
      BY <2>3, <3>2, FirstTaken
    <3>4. Head(blocked[s]) \notin Range(ready)
      BY <1>1, <3>3 DEF Hold
    <3>5. Grows(ready') /\ ready' \in Seq(Threads)
      BY <1>1, <3>1, <3>3, <3>4, ReadyGrowsByOne
    <3> QED BY <3>5 DEF GrownReady
  <2> QED BY <2>2, <2>3
<1>9. CASE TimerTick
  <2> DEFINE slp == SleeperSeq(LowerFirst(sleeping, 1))
  <2>1. PICK n \in 0..Len(sleeping) :
           IF SliceEnds THEN KDispatch(ready \o SubSeq(slp, 1, n), finished)
           ELSE ready' = ready \o SubSeq(slp, 1, n)
    BY <1>9 DEF TimerTick
  <2>2. slp = SleeperSeq(sleeping) /\ slp \in Seq(Threads) /\ n \in 0..Len(slp)
    BY Unfold, LoweredSleepers DEF Queues
  <2> HIDE DEF slp
  <2> DEFINE x == SubSeq(slp, 1, n)
  <2>3. /\ x \in Seq(Threads) /\ Range(x) \subseteq Range(slp)
        /\ IsInjective(slp) => IsInjective(x)
    <3>1. /\ x \in Seq(Threads)
          /\ Range(slp) = Range(x) \union Range(SubSeq(slp, n + 1, Len(slp)))
          /\ IsInjective(slp) => IsInjective(x)
      BY <2>2, Cut
    <3> QED BY <3>1
  <2> DEFINE rdy == ready \o x
  <2>4. IF SliceEnds THEN KDispatch(rdy, finished) ELSE ready' = rdy
    BY <2>1
  <2>5. rdy = ready \o x
    OBVIOUS
  <2> HIDE DEF x, rdy
  <2>6. rdy \in Seq(Threads) /\ IsInjective(rdy) /\ running \notin Range(rdy)
    <3>1. IsInjective(slp) /\ Range(ready) \intersect Range(slp) = {} /\ running \notin Range(slp)
      BY <1>1, <2>2 DEF Hold
    <3> QED BY <1>1, <2>3, <2>5, <3>1, AllPut
  <2>7. Grows(rdy)
    BY <2>3, <2>5, <2>6 DEF Grows
  <2>8. CASE SliceEnds
    BY <1>1, <2>4, <2>6, <2>7, <2>8, DispatchGrows
  <2>9. CASE ~SliceEnds
    BY <2>4, <2>6, <2>7, <2>9 DEF GrownReady
  <2> QED BY <2>8, <2>9
<1>10. CASE UNCHANGED ready
  BY <1>1, <1>10 DEF GrownReady
<1>11. (\E s \in Sems, init \in InitValues : SemOpen(s, init)) \/ BootAdvance \/ Halted \/ UNCHANGED vars
         => UNCHANGED ready
  BY DEF SemOpen, BootAdvance, Halted, vars, threadVars
<1> QED BY <1>2, <1>3, <1>4, <1>5, <1>6, <1>7, <1>8, <1>9, <1>10, <1>11 DEF Next, ThreadStep

LEMMA ReadyIsFair ==
    ASSUME IInv, [Next]_vars, NEW t \in Threads, NEW u \in Threads,
           WasAhead(ready, t, u), t \in Range(ready'), u \in Range(ready')
    PROVE  Before(ready', t, u)
<1>1. ready \in Seq(Threads)
  BY DEF IInv, TypeOK
<1>2. PICK new \in Seq(Threads) : GrownReady(new)
  BY StepGrowsReady
<1>3. PICK x \in Seq(Threads) : new = ready \o x
  BY <1>2 DEF GrownReady, Grows
<1>4. IsInjective(new)
  BY <1>2 DEF GrownReady, Grows
<1>5. CASE ready' = new
  BY <1>1, <1>3, <1>5, AheadStays
<1>6. CASE new # <<>> /\ ready' = Tail(new)
  <2>1. Range(new) = Range(ready') \union {Head(new)} /\ Head(new) \notin Range(ready')
    BY <1>4, <1>6, FirstTaken
  <2>2. Before(new, t, u)
    BY <1>1, <1>3, <2>1, AheadStays
  <2> QED BY <1>4, <1>6, <2>1, <2>2, OrderOfTheRest
<1> QED BY <1>2, <1>5, <1>6 DEF GrownReady

\* What a handler does to a blocked queue.
LEMMA BlockedMoves ==
    ASSUME IInv, [Next]_vars, NEW s \in Sems
    PROVE  \/ blocked'[s] = blocked[s]
           \/ blocked'[s] = blocked[s] \o <<running>>
           \/ /\ blocked[s] # <<>> /\ blocked'[s] = Tail(blocked[s])
              /\ Head(blocked[s]) \in Range(ready')
           \/ blocked'[s] = <<>> /\ ready' = ready \o blocked[s]
<1>1. blocked \in [Sems -> Seq(Threads)] /\ ready \in Seq(Threads) /\ running \in Threads
  BY DEF IInv, TypeOK
<1>2. CASE UNCHANGED blocked
  BY <1>2
<1>3. CASE \E r \in Sems : SemClose(r)
  <2>1. PICK r \in Sems : SemClose(r)
    BY <1>3
  <2>2. blocked' = [blocked EXCEPT ![r] = <<>>] /\ ready' = ready \o blocked[r]
    BY <2>1 DEF SemClose, ClosedWaiters
  <2> QED BY <1>1, <2>2
<1>4. CASE \E r \in Sems : SemWait(r)
  <2>1. PICK r \in Sems : SemWait(r)
    BY <1>4
  <2>2. \/ UNCHANGED blocked
        \/ blocked' = [blocked EXCEPT ![r] = Append(@, running)]
    BY <2>1 DEF SemWait, AddLast
  <2>3. Append(blocked[r], running) = blocked[r] \o <<running>>
    BY <1>1, AppendIsConcat
  <2> QED BY <1>1, <2>2, <2>3
<1>5. CASE \E r \in Sems : SemSignal(r)
  <2>1. PICK r \in Sems : SemSignal(r)
    BY <1>5
  <2>2. \/ UNCHANGED blocked
        \/ /\ blocked[r] # <<>>
           /\ blocked' = [blocked EXCEPT ![r] = Tail(@)]
           /\ ready' = Append(ready, Head(blocked[r]))
    BY <2>1 DEF SemSignal, AddLast
  <2>3. blocked[r] # <<>> => Head(blocked[r]) \in Range(Append(ready, Head(blocked[r])))
    <3>1. blocked[r] # <<>> => Head(blocked[r]) \in Threads
      BY <1>1, FirstTaken
    <3> QED BY <1>1, <3>1, LastPut
  <2> QED BY <1>1, <2>2, <2>3
<1>6. \/ UNCHANGED blocked
      \/ \E r \in Sems : SemClose(r) \/ SemWait(r) \/ SemSignal(r)
  BY DEF Next, ThreadStep, ThreadExit, ThreadDispatch, ThreadCreate, TimeSleep, SemOpen,
         TimerTick, OThreadDispatch, BootDispatch, BootAdvance, Halted, vars, semVars
<1> QED BY <1>2, <1>3, <1>4, <1>5, <1>6

LEMMA WaitersAreFair ==
    ASSUME IInv, [Next]_vars, NEW s \in Sems, NEW t \in Threads, NEW u \in Threads,
           WasAhead(blocked[s], t, u), u \in Range(blocked[s]) \union Range(blocked'[s])
    PROVE  \/ Before(blocked'[s], t, u)
           \/ t \in Range(ready') /\ u \in Range(blocked'[s])
           \/ Before(ready', t, u)
<1> DEFINE q == blocked[s]
<1>1. /\ q \in Seq(Threads) /\ ready \in Seq(Threads) /\ running \in Threads
      /\ IsInjective(q)
  BY Unfold DEF IInv, TypeOK, Hold
<1>2. CASE blocked'[s] = q
  <2>1. u \in Range(q)
    BY <1>2
  <2> QED BY <1>2, <2>1 DEF WasAhead
<1>3. CASE blocked'[s] = q \o <<running>>
  <2>1. <<running>> \in Seq(Threads) /\ Range(q \o <<running>>) = Range(q) \union Range(<<running>>)
    <3>1. <<running>> \in Seq(Threads)
      BY <1>1
    <3> QED BY <1>1, <3>1, AllPut, ZenonT(60)
  <2>2. u \in Range(q \o <<running>>)
    BY <1>3, <2>1
  <2>3. Before(q \o <<running>>, t, u)
    <3> DEFINE r == <<running>>
    <3>1. q \in Seq(Threads) /\ r \in Seq(Threads) /\ WasAhead(q, t, u) /\ u \in Range(q \o r)
      BY <1>1, <2>1, <2>2
    <3> HIDE DEF q, r
    <3>2. Before(q \o r, t, u)
      BY <3>1, AheadStays
    <3> QED BY <3>2 DEF r
  <2> QED BY <1>3, <2>3
<1>4. CASE q # <<>> /\ blocked'[s] = Tail(q) /\ Head(q) \in Range(ready')
  <2>1. Range(q) = Range(Tail(q)) \union {Head(q)}
    BY <1>1, <1>4, FirstTaken
  <2>2. Before(q, t, u)
    BY <1>4, <2>1 DEF WasAhead
  <2>3. /\ t # Head(q) => Before(Tail(q), t, u)
        /\ u \in Range(Tail(q))
    BY <1>1, <1>4, <2>2, OrderOfTheRest
  <2> QED BY <1>4, <2>3
<1>5. CASE blocked'[s] = <<>> /\ ready' = ready \o q
  <2>1. CASE Before(q, t, u)
    <3> DEFINE c == ready \o q
    <3>1. /\ DOMAIN q = 1..Len(q) /\ DOMAIN c = 1..(Len(ready) + Len(q))
          /\ Len(q) \in Nat /\ Len(ready) \in Nat
          /\ \A i \in 1..Len(q) : c[Len(ready) + i] = q[i]
      BY <1>1
    <3>2. PICK i \in 1..Len(q), j \in 1..Len(q) : i < j /\ q[i] = t /\ q[j] = u
      BY <2>1, <3>1 DEF Before
    <3> HIDE DEF c, q
    <3>3. /\ Len(ready) + i \in 1..(Len(ready) + Len(q))
          /\ Len(ready) + j \in 1..(Len(ready) + Len(q))
          /\ Len(ready) + i < Len(ready) + j
      BY <3>1, <3>2
    <3>4. Before(c, t, u)
      BY <3>1, <3>2, <3>3 DEF Before
    <3> QED BY <1>5, <3>4 DEF c
  <2>2. CASE ~Before(q, t, u)
    <3>1. Range(<<>>) = {}
      BY DEF Range
    <3>2. u \in Range(q)
      BY <1>5, <3>1
    <3> QED BY <2>2, <3>2 DEF WasAhead
  <2> QED BY <2>1, <2>2
<1> QED BY <1>2, <1>3, <1>4, <1>5, BlockedMoves

\* No step lets a thread overtake another one in the ready queue or in the queue
\* of a semaphore, nor on the way from one to the other.
THEOREM NobodyIsOvertaken == Spec => QueuesAreFair
<1> DEFINE Ready ==
      \A t \in Range(ready) \intersect Range(ready') : \A u \in Range(ready') \ {t} :
          WasAhead(ready, t, u) => Before(ready', t, u)
<1> DEFINE Waiters ==
      \A s \in Sems : \A t \in Range(blocked[s]) : \A u \in Threads \ {t} :
          WasAhead(blocked[s], t, u) =>
             \/ u \notin Range(blocked[s]) \union Range(blocked'[s])
             \/ Before(blocked'[s], t, u)
             \/ t \in Range(ready') /\ u \in Range(blocked'[s])
             \/ Before(ready', t, u)
<1>1. IInv /\ IInv' /\ [Next]_vars => Ready
  <2> SUFFICES ASSUME IInv, IInv', [Next]_vars PROVE Ready
    OBVIOUS
  <2>1. Range(ready) \subseteq Threads /\ Range(ready') \subseteq Threads
    BY QueuedAreThreads DEF IInv, TypeOK
  <2> QED BY <2>1, ReadyIsFair
<1>2. IInv /\ [Next]_vars => Waiters
  <2> SUFFICES ASSUME IInv, [Next]_vars PROVE Waiters
    OBVIOUS
  <2>1. \A s \in Sems : Range(blocked[s]) \subseteq Threads
    BY QueuedAreThreads DEF IInv, TypeOK
  <2> QED BY <2>1, WaitersAreFair
<1>3. IInv /\ IInv' /\ [Next]_vars => [Ready /\ Waiters]_vars
  BY <1>1, <1>2
<1> QED BY <1>3, InvariantHolds, PTL DEF Spec, QueuesAreFair

-----------------------------------------------------------------------------
\* Kernel implements ThreadLife and SleepClock.

-----------------------------------------------------------------------------
\* ThreadLife.

\* The abstract state, read off the queues: EveryThreadInOnePlace makes the
\* cases of Statuses exclusive, so that each of them says where the thread is.
View ==
    /\ running \in Threads
    /\ \A t \in Threads :
          /\ Statuses[t] \in Life!States
          /\ Statuses[t] = "new" <=> t \notin created
          /\ Statuses[t] = "finished" <=> t \in finished
          /\ Statuses[t] = "running" <=> t = running
          /\ Statuses[t] = "ready" <=> t \in Range(ready)
          /\ Statuses[t] = "sleeping" <=> t \in Sleepers
          /\ Statuses[t] = "blocked" <=> t \in BlockedThreads
          /\ t \notin BlockedThreads => WaitsFor[t] = NoSem
          /\ \A s \in Sems : WaitsFor[t] = s <=> t \in Range(blocked[s])

LEMMA ViewHolds == IInv => View
<1> SUFFICES ASSUME IInv PROVE View
  OBVIOUS
<1>1. /\ running \in Threads
      /\ running \in Live
      /\ Live = created \ finished
      /\ finished \subseteq created
      /\ Hold(ready, SleeperSeq(sleeping), blocked, Live \ {running})
      /\ Waits(ready, blocked, waitingOn)
  BY Unfold DEF IInv, TypeOK
<1>2. Sleepers = Range(SleeperSeq(sleeping))
  BY DEF Sleepers
<1>3. \A t \in Threads : t \in BlockedThreads <=> \E s \in Sems : t \in Range(blocked[s])
  BY DEF BlockedThreads
<1>4. /\ Range(ready) \intersect Sleepers = {}
      /\ \A t \in BlockedThreads : t \notin Range(ready) \union Sleepers
      /\ \A t \in Threads : t \in Live \ {running} <=>
            t \in Range(ready) \union Sleepers \union BlockedThreads
  BY <1>1, <1>2, <1>3 DEF Hold, BlockedThreads
<1>5. ASSUME NEW t \in Threads
      PROVE  /\ Statuses[t] \in Life!States
             /\ Statuses[t] = "new" <=> t \notin created
             /\ Statuses[t] = "finished" <=> t \in finished
             /\ Statuses[t] = "running" <=> t = running
             /\ Statuses[t] = "ready" <=> t \in Range(ready)
             /\ Statuses[t] = "sleeping" <=> t \in Sleepers
             /\ Statuses[t] = "blocked" <=> t \in BlockedThreads
  <2>1. Statuses[t] = IF t \notin created THEN "new"
                      ELSE IF t \in finished THEN "finished"
                      ELSE IF t = running THEN "running"
                      ELSE IF t \in Range(ready) THEN "ready"
                      ELSE IF t \in Sleepers THEN "sleeping"
                      ELSE "blocked"
    BY DEF Statuses
  <2> QED BY <1>1, <1>4, <2>1 DEF Life!States
<1>6. ASSUME NEW t \in Threads
      PROVE  /\ t \notin BlockedThreads => WaitsFor[t] = NoSem
             /\ \A s \in Sems : WaitsFor[t] = s <=> t \in Range(blocked[s])
  <2>1. WaitsFor[t] = IF t \in BlockedThreads THEN waitingOn[t] ELSE NoSem
    BY DEF WaitsFor
  <2>2. \A s \in Sems : t \in Range(blocked[s]) => waitingOn[t] = s
    BY <1>1 DEF Waits
  <2> QED BY <1>3, <2>1, <2>2, SemsAssumption
<1> QED BY <1>1, <1>5, <1>6 DEF View

LEMMA NextView == IInv' => View'
  BY ViewHolds, PTL

\* A thread that stays where it is keeps its status.
LEMMA SameStatus ==
    ASSUME View, View', NEW t \in Threads,
           t \in created <=> t \in created', t \in finished <=> t \in finished',
           t = running <=> t = running', t \in Range(ready) <=> t \in Range(ready'),
           t \in Sleepers <=> t \in Sleepers'
    PROVE  Statuses'[t] = Statuses[t]
  BY DEF View, Life!States

LEMMA StatusesAreFunctions ==
    /\ DOMAIN Statuses = Threads /\ DOMAIN Statuses' = Threads
    /\ DOMAIN WaitsFor = Threads /\ DOMAIN WaitsFor' = Threads
    /\ Statuses = [t \in Threads |-> Statuses[t]]
    /\ Statuses' = [t \in Threads |-> Statuses'[t]]
    /\ WaitsFor = [t \in Threads |-> WaitsFor[t]]
    /\ WaitsFor' = [t \in Threads |-> WaitsFor'[t]]
  BY DEF Statuses, WaitsFor

LEMMA WaitersAre ==
    ASSUME View, NEW s \in Sems
    PROVE  Life!Waiters(s) = {t \in Threads : t \in Range(blocked[s])}
<1>1. \A t \in Threads : t \in Range(blocked[s]) => t \in BlockedThreads
  BY DEF BlockedThreads
<1> QED BY <1>1 DEF Life!Waiters, View

\* If the blocked queues do not change nobody waits for something else.
LEMMA SameWaits ==
    ASSUME View, View', UNCHANGED blocked
    PROVE  WaitsFor' = WaitsFor
<1>1. \A t \in Threads : t \in BlockedThreads <=> t \in BlockedThreads'
  BY DEF BlockedThreads
<1>2. \A t \in Threads : t \in BlockedThreads <=> \E s \in Sems : t \in Range(blocked[s])
  BY DEF BlockedThreads
<1>3. \A t \in Threads : WaitsFor'[t] = WaitsFor[t]
  BY <1>1, <1>2 DEF View
<1> QED BY <1>3, StatusesAreFunctions

LEMMA SamePermits == UNCHANGED value => Permits' = Permits
  BY DEF Permits

\* What SwitchTo() does to the ready queue.
LEMMA SwitchTakesOne ==
    ASSUME NEW rdy \in Seq(Threads), NEW wo, rdy # <<>>, SwitchTo(rdy, wo)
    PROVE  /\ running' \in Threads
           /\ running' = Head(rdy) /\ ready' = Tail(rdy)
           /\ waitingOn' = [wo EXCEPT ![running'] = NoSem]
           /\ Range(rdy) = Range(ready') \union {running'}
<1>1. running' = Head(rdy) /\ ready' = Tail(rdy) /\ waitingOn' = [wo EXCEPT ![running'] = NoSem]
  BY DEF SwitchTo
<1> QED BY <1>1, FirstTaken

\* A switch to a thread of set R, which are those ready once the caller is where
\* it belongs and the sleepers in W are awake.
LEMMA GiveIs ==
    ASSUME View, View', NEW t \in Threads, NEW st, NEW W, NEW R,
           R = Range(ready') \union {running'},
           \A u \in Threads : u \in R =>
              (IF u = t THEN st ELSE IF u \in W THEN "ready" ELSE Statuses[u]) = "ready",
           \A u \in Threads : u \notin R =>
              (IF u = t THEN st ELSE IF u \in W THEN "ready" ELSE Statuses[u]) = Statuses'[u]
    PROVE  Life!Give(t, st, W)
<1> DEFINE left == [u \in Threads |-> IF u = t THEN st
                                      ELSE IF u \in W THEN "ready" ELSE Statuses[u]]
<1>1. \A u \in Threads : left[u] = IF u = t THEN st ELSE IF u \in W THEN "ready" ELSE Statuses[u]
  OBVIOUS
<1>2. DOMAIN left = Threads /\ left = [u \in Threads |-> left[u]]
  OBVIOUS
<1> HIDE DEF left
<1>3. running' \in Threads /\ left[running'] = "ready" /\ Statuses'[running'] = "running"
  BY <1>1 DEF View
<1>4. ASSUME NEW u \in Threads, u # running' PROVE Statuses'[u] = left[u]
  <2>1. u \in R => u \in Range(ready')
    BY <1>4
  <2>2. u \in R => Statuses'[u] = "ready" /\ left[u] = "ready"
    BY <1>1, <2>1 DEF View
  <2> QED BY <1>1, <2>2
<1>5. Statuses' = [left EXCEPT ![running'] = "running"]
  BY <1>2, <1>3, <1>4, StatusesAreFunctions
<1> QED BY <1>3, <1>5 DEF Life!Give, left

\* kDispatch() by a thread that lives on, once the sleepers in W are in rdy.
LEMMA DispatchGives ==
    ASSUME View, View', NEW rdy \in Seq(Threads), NEW W \in SUBSET Sleepers,
           running \notin finished, UNCHANGED <<created, finished, blocked>>,
           KDispatch(rdy, finished),
           Range(rdy) = Range(ready) \union W, Sleepers' = Sleepers \ W
    PROVE  Life!Give(running, "ready", W)
<1> DEFINE new == Append(rdy, running)
<1> DEFINE R == Range(new)
<1>1. running \in Threads
  BY DEF View
<1>2. SwitchTo(new, waitingOn)
  BY DEF KDispatch, AddLast
<1>3. new \in Seq(Threads) /\ new # <<>> /\ R = Range(ready) \union W \union {running}
  BY <1>1, LastPut, AppendProperties
<1>4. R = Range(ready') \union {running'}
  BY <1>2, <1>3, SwitchTakesOne
<1> HIDE DEF new, R
<1>5. \A u \in Threads : u \in R =>
         (IF u = running THEN "ready" ELSE IF u \in W THEN "ready" ELSE Statuses[u]) = "ready"
  BY <1>3 DEF View
<1>6. ASSUME NEW u \in Threads, u \notin R
      PROVE  (IF u = running THEN "ready" ELSE IF u \in W THEN "ready" ELSE Statuses[u])
               = Statuses'[u]
  <2>1. u # running /\ u # running' /\ u \notin W /\ u \notin Range(ready) /\ u \notin Range(ready')
    BY <1>3, <1>4, <1>6
  <2>2. Statuses'[u] = Statuses[u]
    BY <2>1, SameStatus
  <2> QED BY <2>1, <2>2
<1> QED BY <1>1, <1>4, <1>5, <1>6, GiveIs

\* thread_dispatch() and the loops of the output and the boot thread.
LEMMA DispatchIsYield ==
    ASSUME IInv, View, View',
           UNCHANGED <<created, finished, sleeping, value, blocked>>,
           KDispatch(ready, finished)
    PROVE  Life!Next
<1>1. ready \in Seq(Threads) /\ running \in Threads /\ running \notin finished
  BY Unfold DEF IInv, TypeOK
<1>2. Sleepers' = Sleepers
  BY DEF Sleepers
<1>3. Life!Give(running, "ready", {})
  BY <1>1, <1>2, DispatchGives
<1>4. Statuses[running] = "running"
  BY <1>1 DEF View
<1>5. Life!Yield(running)
  BY <1>3, <1>4, SameWaits, SamePermits DEF Life!Yield
<1> QED BY <1>1, <1>5, <1>4 DEF Life!Next

LEMMA CreateIsCreate ==
    ASSUME IInv, View, View', NEW t \in Workers, ThreadCreate(t)
    PROVE  Life!Next
<1>1. /\ t \in Threads \ created
      /\ created' = created \union {t}
      /\ ready' = Append(ready, t)
      /\ UNCHANGED <<running, finished, sleeping, value, blocked>>
  BY DEF ThreadCreate, AddLast, semVars, Threads
<1>2. ready \in Seq(Threads) /\ running \in Threads
  BY DEF IInv, TypeOK
<1>3. Range(ready') = Range(ready) \union {t}
  BY <1>1, <1>2, LastPut
<1>4. Sleepers' = Sleepers
  BY <1>1 DEF Sleepers
<1>5. \A u \in Threads \ {t} : Statuses'[u] = Statuses[u]
  BY <1>1, <1>3, <1>4, SameStatus
<1>6. Statuses[t] = "new" /\ Statuses[running] = "running" /\ Statuses'[t] = "ready"
  BY <1>1, <1>2, <1>3 DEF View
<1>7. Statuses' = [Statuses EXCEPT ![t] = "ready"]
  BY <1>1, <1>5, <1>6, StatusesAreFunctions
<1>8. Life!Create(running, t)
  BY <1>1, <1>6, <1>7, SameWaits, SamePermits DEF Life!Create
<1> QED BY <1>1, <1>2, <1>8, <1>6 DEF Life!Next

\* A step in which the running thread leaves the processor for state st and is
\* not ready any more.
LEMMA LeavingGives ==
    ASSUME IInv, View, View', NEW wo, NEW st,
           SwitchTo(ready, wo), ready # <<>>,
           Statuses'[running] = st,
           \A u \in Threads \ {running} :
              /\ u \in created <=> u \in created'
              /\ u \in finished <=> u \in finished'
              /\ u \in Sleepers <=> u \in Sleepers'
    PROVE  Life!Give(running, st, {})
<1> DEFINE R == Range(ready)
<1>1. ready \in Seq(Threads) /\ running \in Threads
  BY DEF IInv, TypeOK
<1>2. R = Range(ready') \union {running'}
  BY <1>1, SwitchTakesOne
<1>3. Statuses[running] = "running" /\ running \notin R
  <2>1. Statuses[running] = "running"
    BY <1>1 DEF View
  <2> QED BY <1>1, <2>1 DEF View
<1>4. \A u \in Threads : u \in R =>
         (IF u = running THEN st ELSE IF u \in {} THEN "ready" ELSE Statuses[u]) = "ready"
  BY <1>3 DEF View
<1> HIDE DEF R
<1>5. ASSUME NEW u \in Threads, u \notin R
      PROVE  (IF u = running THEN st ELSE IF u \in {} THEN "ready" ELSE Statuses[u])
               = Statuses'[u]
  <2>1. CASE u = running
    BY <2>1
  <2>2. CASE u # running
    <3>1. u # running' /\ u \notin Range(ready) /\ u \notin Range(ready')
      BY <1>2, <1>5 DEF R
    <3>2. Statuses'[u] = Statuses[u]
      BY <2>2, <3>1, SameStatus
    <3> QED BY <2>2, <3>2
  <2> QED BY <2>1, <2>2
<1> QED BY <1>1, <1>2, <1>4, <1>5, GiveIs

LEMMA ExitIsExit ==
    ASSUME IInv, View, View', ThreadExit
    PROVE  Life!Next
<1>1. running \in Threads /\ Boot \in Range(ready)
  BY BootMakesNoCall DEF ThreadExit, IInv, TypeOK
<1>2. /\ finished' = finished \union {running}
      /\ SwitchTo(ready, waitingOn)
      /\ UNCHANGED <<created, sleeping, value, blocked>>
  BY DEF ThreadExit, KDispatch
<1>3. ready # <<>> /\ Sleepers' = Sleepers
  BY <1>1, <1>2 DEF Range, Sleepers
<1>4. Statuses'[running] = "finished" /\ Statuses[running] = "running"
  BY <1>1, <1>2 DEF View
<1>5. Life!Give(running, "finished", {})
  BY <1>2, <1>3, <1>4, LeavingGives
<1>6. Life!Exit(running)
  BY <1>2, <1>4, <1>5, SameWaits, SamePermits DEF Life!Exit
<1> QED BY <1>1, <1>6, <1>4 DEF Life!Next

\* time_sleep() puts the caller, and nobody else, among the sleepers.
LEMMA InsertedSleeps ==
    ASSUME IInv, NEW ticks \in Ticks, TimeSleep(ticks)
    PROVE  Sleepers' = Sleepers \union {running}
<1> DEFINE m == ToInt(ticks)
<1> DEFINE slp == SleeperSeq(sleeping)
<1>1. /\ m \in Int /\ running \in Threads /\ running \notin finished
      /\ sleeping \in Seq(Entries(Threads))
      /\ slp \in Seq(Threads) /\ Len(slp) = Len(sleeping)
  BY Unfold, ToIntIsInt, NumbersAssumption DEF Queues
<1>2. PICK pos \in 0..Len(sleeping) : sleeping' = InsertSleeper(sleeping, running, m, pos)
  BY <1>1 DEF TimeSleep
<1> DEFINE a == SubSeq(slp, 1, pos)
<1> DEFINE b == SubSeq(slp, pos + 1, Len(slp))
<1> HIDE DEF m
<1>3. SleeperSeq(sleeping') = a \o <<running>> \o b
  <2> HIDE DEF slp
  <2>1. sleeping \in Seq(Entries(Threads)) /\ running \in Threads /\ m \in Int
        /\ pos \in 0..Len(sleeping)
    BY <1>1, <1>2
  <2>2. SleeperSeq(InsertSleeper(sleeping, running, m, pos))
          = SubSeq(SleeperSeq(sleeping), 1, pos) \o <<running>>
              \o SubSeq(SleeperSeq(sleeping), pos + 1, Len(sleeping))
    BY <2>1, InsertedSleeper, ZenonT(60)
  <2>3. Len(slp) = Len(sleeping)
    BY <1>1
  <2> QED BY <1>2, <2>2, <2>3 DEF slp
<1>4. a \in Seq(Threads) /\ b \in Seq(Threads) /\ Range(slp) = Range(a) \union Range(b)
  BY <1>1, Cut
<1> HIDE DEF a, b
<1> DEFINE c == a \o <<running>>
<1>5. c = Append(a, running)
  BY <1>4, AppendIsConcat
<1> HIDE DEF c
<1>6. c \in Seq(Threads) /\ Range(c) = Range(a) \union {running}
  BY <1>1, <1>4, <1>5, LastPut
<1>7. Range(c \o b) = Range(c) \union Range(b)
  BY <1>4, <1>6, AllPut
<1>8. SleeperSeq(sleeping') = c \o b
  BY <1>3 DEF c
<1> QED BY <1>4, <1>6, <1>7, <1>8 DEF Sleepers

LEMMA SleepIsSleep ==
    ASSUME IInv, View, View', NEW ticks \in Ticks, TimeSleep(ticks)
    PROVE  Life!Next
<1>1. running \in Threads /\ Boot \in Range(ready)
  BY BootMakesNoCall DEF TimeSleep, IInv, TypeOK
<1>2. /\ SwitchTo(ready, waitingOn)
      /\ UNCHANGED <<created, finished, value, blocked>>
  BY DEF TimeSleep
<1>3. ready # <<>>
  BY <1>1 DEF Range
<1>4. Sleepers' = Sleepers \union {running}
  BY InsertedSleeps
<1>5. Statuses'[running] = "sleeping" /\ Statuses[running] = "running"
  BY <1>1, <1>4 DEF View
<1>6. Life!Give(running, "sleeping", {})
  BY <1>2, <1>3, <1>4, <1>5, LeavingGives
<1>7. Life!Sleep(running)
  BY <1>2, <1>5, <1>6, SameWaits, SamePermits DEF Life!Sleep
<1> QED BY <1>1, <1>7, <1>5 DEF Life!Next

\* A thread that is in the same blocked queue, or in none, waits as before.
LEMMA SameWait ==
    ASSUME View, View', NEW t \in Threads,
           \A s \in Sems : t \in Range(blocked[s]) <=> t \in Range(blocked'[s])
    PROVE  WaitsFor'[t] = WaitsFor[t]
<1>1. /\ t \in BlockedThreads <=> \E s \in Sems : t \in Range(blocked[s])
      /\ t \in BlockedThreads' <=> \E s \in Sems : t \in Range(blocked'[s])
  BY DEF BlockedThreads
<1> QED BY <1>1 DEF View

LEMMA PermitsAre ==
    ASSUME value \in [Sems -> Int], value' \in [Sems -> Int]
    PROVE  /\ Permits \in [Sems -> Nat]
           /\ Permits' \in [Sems -> Nat]
           /\ \A s \in Sems : /\ Permits[s] = IF value[s] > 0 THEN value[s] ELSE 0
                              /\ Permits'[s] = IF value'[s] > 0 THEN value'[s] ELSE 0
  BY DEF Permits

\* sem_open() finds no waiters left from an earlier semaphore.
LEMMA OpenIsOpen ==
    ASSUME IInv, IInv', View, View', NEW s \in Sems, NEW init \in InitValues, SemOpen(s, init)
    PROVE  Life!Next
<1> DEFINE n == ToInt(init)
<1>1. /\ s \notin open
      /\ value' = [value EXCEPT ![s] = n]
      /\ UNCHANGED <<created, finished, running, ready, sleeping, blocked>>
  BY DEF SemOpen, threadVars
<1>2. n \in Nat /\ value \in [Sems -> Int] /\ value' \in [Sems -> Int]
  BY ToIntOfInit DEF IInv, TypeOK
<1> HIDE DEF n
<1>3. blocked[s] = <<>>
  BY <1>1 DEF IInv, WaitersAreBlocked
<1>4. Life!Waiters(s) = {}
  BY <1>3, WaitersAre DEF Range
<1>5. Permits' = [Permits EXCEPT ![s] = n]
  BY <1>1, <1>2, PermitsAre
<1>6. Sleepers' = Sleepers
  BY <1>1 DEF Sleepers
<1>7. \A u \in Threads : Statuses'[u] = Statuses[u]
  BY <1>1, <1>6, SameStatus
<1>8. Statuses' = Statuses
  BY <1>7, StatusesAreFunctions
<1>9. Life!Open(s, n)
  BY <1>1, <1>4, <1>5, <1>8, SameWaits DEF Life!Open
<1>10. n \in {ToInt(i) : i \in InitValues}
  BY DEF n
<1> QED BY <1>9, <1>10 DEF Life!Next

LEMMA CloseIsClose ==
    ASSUME IInv, IInv', View, View', NEW s \in Sems, SemClose(s)
    PROVE  Life!Next
<1>1. /\ ready' = ready \o blocked[s]
      /\ blocked' = [blocked EXCEPT ![s] = <<>>]
      /\ value' = [value EXCEPT ![s] = 0]
      /\ UNCHANGED <<running, created, finished, sleeping>>
  BY DEF SemClose, ClosedWaiters
<1>2. /\ ready \in Seq(Threads) /\ blocked \in [Sems -> Seq(Threads)]
      /\ value \in [Sems -> Int] /\ value' \in [Sems -> Int]
  BY DEF IInv, TypeOK
<1>3. Range(ready') = Range(ready) \union Range(blocked[s])
  BY <1>1, <1>2, AllPut
<1>4. blocked'[s] = <<>> /\ \A r \in Sems \ {s} : blocked'[r] = blocked[r]
  BY <1>1, <1>2
<1>5. Range(blocked'[s]) = {}
  BY <1>4 DEF Range
<1>6. Life!Waiters(s) = {t \in Threads : t \in Range(blocked[s])}
  BY WaitersAre
<1>7. Sleepers' = Sleepers
  BY <1>1 DEF Sleepers
<1>8. \A t \in Threads : Statuses'[t] = IF t \in Life!Waiters(s) THEN "ready" ELSE Statuses[t]
  <2>1. ASSUME NEW t \in Threads, t \in Range(blocked[s]) PROVE Statuses'[t] = "ready"
    BY <1>3, <2>1 DEF View
  <2>2. ASSUME NEW t \in Threads, t \notin Range(blocked[s]) PROVE Statuses'[t] = Statuses[t]
    BY <1>1, <1>3, <1>7, <2>2, SameStatus
  <2> QED BY <1>6, <2>1, <2>2
<1>9. \A t \in Threads : WaitsFor'[t] = IF t \in Life!Waiters(s) THEN NoSem ELSE WaitsFor[t]
  <2>1. ASSUME NEW t \in Threads, t \in Range(blocked[s]) PROVE WaitsFor'[t] = NoSem
    <3>1. t \in Range(ready') /\ t \notin BlockedThreads'
      BY <1>3, <2>1 DEF View
    <3> QED BY <3>1 DEF View
  <2>2. ASSUME NEW t \in Threads, t \notin Range(blocked[s]) PROVE WaitsFor'[t] = WaitsFor[t]
    BY <1>4, <1>5, <2>2, SameWait
  <2> QED BY <1>6, <2>1, <2>2
<1>10. Permits' = [Permits EXCEPT ![s] = 0]
  BY <1>1, <1>2, PermitsAre
<1>11. Life!Close(s)
  BY <1>8, <1>9, <1>10, StatusesAreFunctions DEF Life!Close
<1> QED BY <1>11 DEF Life!Next

LEMMA SignalIsSignalOrFree ==
    ASSUME IInv, IInv', View, View', NEW s \in Sems, SemSignal(s)
    PROVE  Life!Next
<1>1. /\ value' = [value EXCEPT ![s] = @ + 1]
      /\ UNCHANGED <<running, created, finished, sleeping>>
  BY DEF SemSignal
<1>2. /\ ready \in Seq(Threads) /\ blocked \in [Sems -> Seq(Threads)]
      /\ value \in [Sems -> Int] /\ value' \in [Sems -> Int]
      /\ Len(blocked[s]) = IF value[s] < 0 THEN -value[s] ELSE 0
  BY DEF IInv, TypeOK, SemaphoreCount
<1>3. Life!Waiters(s) = {t \in Threads : t \in Range(blocked[s])}
  BY WaitersAre
<1>4. Sleepers' = Sleepers
  BY <1>1 DEF Sleepers
<1>5. CASE blocked[s] = <<>>
  <2>1. UNCHANGED <<ready, blocked>>
    BY <1>5 DEF SemSignal
  <2>2. Life!Waiters(s) = {}
    BY <1>3, <1>5 DEF Range
  <2>3. value[s] >= 0
    BY <1>2, <1>5
  <2>4. Permits' = [Permits EXCEPT ![s] = @ + 1]
    <3>1. value'[s] = value[s] + 1 /\ \A r \in Sems \ {s} : value'[r] = value[r]
      BY <1>1, <1>2
    <3>2. /\ Permits'[s] = Permits[s] + 1
          /\ \A r \in Sems \ {s} : Permits'[r] = Permits[r]
          /\ Permits \in [Sems -> Nat] /\ Permits' \in [Sems -> Nat]
      BY <1>2, <2>3, <3>1, PermitsAre
    <3> QED BY <3>2
  <2>5. \A u \in Threads : Statuses'[u] = Statuses[u]
    BY <1>1, <1>4, <2>1, SameStatus
  <2>6. Life!Signal(s)
    BY <2>1, <2>2, <2>4, <2>5, SameWaits, StatusesAreFunctions DEF Life!Signal
  <2> QED BY <2>6 DEF Life!Next
<1>6. CASE blocked[s] # <<>>
  <2> DEFINE h == Head(blocked[s])
  <2>1. ready' = Append(ready, h) /\ blocked' = [blocked EXCEPT ![s] = Tail(@)]
    BY <1>6 DEF SemSignal, AddLast
  <2>2. /\ h \in Threads
        /\ Range(blocked[s]) = Range(Tail(blocked[s])) \union {h}
        /\ Len(blocked[s]) > 0
    BY <1>2, <1>6, FirstTaken, CutFirst
  <2> HIDE DEF h
  <2>3. Range(ready') = Range(ready) \union {h}
    BY <1>2, <2>1, <2>2, LastPut
  <2>4. blocked'[s] = Tail(blocked[s]) /\ \A r \in Sems \ {s} : blocked'[r] = blocked[r]
    BY <1>2, <2>1
  <2>5. Permits' = Permits
    <3>1. value[s] < 0 /\ value'[s] = value[s] + 1 /\ \A r \in Sems \ {s} : value'[r] = value[r]
      BY <1>1, <1>2, <2>2
    <3> QED BY <1>2, <3>1, PermitsAre
  <2>6. \A t \in Threads \ {h} : Statuses'[t] = Statuses[t] /\ WaitsFor'[t] = WaitsFor[t]
    <3>1. ASSUME NEW t \in Threads \ {h} PROVE Statuses'[t] = Statuses[t]
      BY <1>1, <1>4, <2>3, SameStatus
    <3>2. ASSUME NEW t \in Threads \ {h} PROVE WaitsFor'[t] = WaitsFor[t]
      BY <2>2, <2>4, SameWait
    <3> QED BY <3>1, <3>2
  <2>7. h \in Life!Waiters(s) /\ Statuses'[h] = "ready" /\ WaitsFor'[h] = NoSem
    <3>1. Statuses'[h] = "ready" /\ h \notin BlockedThreads'
      BY <2>2, <2>3 DEF View
    <3> QED BY <1>3, <2>2, <3>1 DEF View
  <2>8. Statuses' = [Statuses EXCEPT ![h] = "ready"] /\ WaitsFor' = [WaitsFor EXCEPT ![h] = NoSem]
    BY <2>2, <2>6, <2>7, StatusesAreFunctions
  <2>9. Life!Free(s, h)
    BY <2>5, <2>7, <2>8 DEF Life!Free
  <2> QED BY <2>2, <2>9, <2>7 DEF Life!Next
<1> QED BY <1>5, <1>6

LEMMA WaitIsPassOrBlock ==
    ASSUME IInv, IInv', View, View', NEW s \in Sems, SemWait(s)
    PROVE  Life!Next
<1>1. /\ running \in Callers \union {OThread}
      /\ value' = [value EXCEPT ![s] = @ - 1]
      /\ UNCHANGED <<created, finished, sleeping>>
  BY DEF SemWait
<1>2. /\ ready \in Seq(Threads) /\ blocked \in [Sems -> Seq(Threads)]
      /\ value \in [Sems -> Int] /\ value' \in [Sems -> Int]
      /\ value'[s] = value[s] - 1 /\ \A r \in Sems \ {s} : value'[r] = value[r]
      /\ running \in Threads
  BY <1>1 DEF IInv, TypeOK
<1>3. Sleepers' = Sleepers
  BY <1>1 DEF Sleepers
<1>4. Statuses[running] = "running"
  BY <1>2 DEF View
<1>5. CASE ~Blocks(value'[s])
  <2>1. UNCHANGED <<running, ready, blocked>>
    BY <1>5 DEF SemWait
  <2>2. value[s] > 0
    BY <1>2, <1>5 DEF Blocks
  <2>3. Permits[s] > 0 /\ Permits' = [Permits EXCEPT ![s] = @ - 1]
    BY <1>2, <2>2, PermitsAre
  <2>4. \A u \in Threads : Statuses'[u] = Statuses[u]
    BY <1>1, <1>3, <2>1, SameStatus
  <2>5. Life!Pass(running, s)
    BY <1>4, <2>1, <2>3, <2>4, SameWaits, StatusesAreFunctions DEF Life!Pass
  <2> QED BY <1>2, <2>5, <1>4 DEF Life!Next
<1>6. CASE Blocks(value'[s])
  <2>1. /\ blocked' = [blocked EXCEPT ![s] = Append(@, running)]
        /\ SwitchTo(ready, [waitingOn EXCEPT ![running] = s])
    BY <1>6 DEF SemWait, AddLast
  <2>2. Boot \in Range(ready)
    BY <1>1, BootMakesNoCall
  <2>3. ready # <<>>
    BY <2>2 DEF Range
  <2>4. /\ blocked'[s] = Append(blocked[s], running)
        /\ \A r \in Sems \ {s} : blocked'[r] = blocked[r]
        /\ Range(Append(blocked[s], running)) = Range(blocked[s]) \union {running}
    BY <1>2, <2>1, LastPut
  <2>5. running \in BlockedThreads' /\ WaitsFor'[running] = s
    <3>1. running \in Range(blocked'[s])
      BY <2>4
    <3> QED BY <1>2, <3>1 DEF BlockedThreads, View
  <2>6. Statuses'[running] = "blocked"
    BY <1>2, <2>5 DEF View
  <2>7. Life!Give(running, "blocked", {})
    BY <1>1, <1>3, <2>1, <2>3, <2>6, LeavingGives
  <2>8. \A t \in Threads \ {running} : WaitsFor'[t] = WaitsFor[t]
    BY <2>4, SameWait
  <2>9. WaitsFor' = [WaitsFor EXCEPT ![running] = s]
    BY <1>2, <2>5, <2>8, StatusesAreFunctions
  <2>10. value[s] <= 0
    BY <1>2, <1>6 DEF Blocks
  <2>11. Permits[s] = 0 /\ Permits' = Permits
    <3>1. /\ Permits \in [Sems -> Nat] /\ Permits' \in [Sems -> Nat]
          /\ \A r \in Sems : /\ Permits[r] = IF value[r] > 0 THEN value[r] ELSE 0
                             /\ Permits'[r] = IF value'[r] > 0 THEN value'[r] ELSE 0
      BY <1>2, PermitsAre
    <3>2. Permits[s] = 0 /\ Permits'[s] = 0
      BY <1>2, <2>10, <3>1
    <3>3. \A r \in Sems \ {s} : Permits'[r] = Permits[r]
      BY <1>2, <3>1
    <3> QED BY <3>1, <3>2, <3>3
  <2>12. Life!Block(running, s)
    BY <1>4, <2>7, <2>9, <2>11 DEF Life!Block
  <2> QED BY <1>2, <2>12, <1>4 DEF Life!Next
<1> QED BY <1>5, <1>6

\* What the timer does to the queues before it may pass the processor on.
LEMMA TickWakes ==
    ASSUME IInv, TimerTick
    PROVE  \E rdy \in Seq(Threads), W \in SUBSET Sleepers :
              /\ Range(rdy) = Range(ready) \union W
              /\ Sleepers' = Sleepers \ W
              /\ IF SliceEnds THEN KDispatch(rdy, finished)
                 ELSE ready' = rdy /\ running' = running
<1> DEFINE lowered == LowerFirst(sleeping, 1)
<1> DEFINE slp == SleeperSeq(lowered)
<1>1. PICK n \in 0..Len(sleeping) :
         LET rdy == ready \o SubSeq(slp, 1, n)
         IN  /\ sleeping' = SubSeq(lowered, n + 1, Len(lowered))
             /\ IF SliceEnds THEN KDispatch(rdy, finished)
                ELSE ready' = rdy /\ running' = running
  BY DEF TimerTick
<1>2. /\ lowered \in Seq(Entries(Threads))
      /\ Len(lowered) = Len(sleeping)
      /\ slp = SleeperSeq(sleeping)
      /\ slp \in Seq(Threads) /\ Len(slp) = Len(sleeping)
      /\ ready \in Seq(Threads)
      /\ IsInjective(slp)
  BY Unfold, LoweredSleepers, SleeperSeqType DEF Queues, Hold
<1> DEFINE a == SubSeq(slp, 1, n)
<1> DEFINE b == SubSeq(slp, n + 1, Len(slp))
<1>3. /\ a \in Seq(Threads) /\ b \in Seq(Threads)
      /\ Range(slp) = Range(a) \union Range(b)
      /\ Range(a) \intersect Range(b) = {}
  BY <1>2, Cut
<1>4. SleeperSeq(sleeping') = b
  <2>1. sleeping' = SubSeq(lowered, n + 1, Len(lowered)) /\ n \in 0..Len(lowered)
    BY <1>1, <1>2
  <2> HIDE DEF lowered
  <2>2. SleeperSeq(SubSeq(lowered, n + 1, Len(lowered))) = SubSeq(slp, n + 1, Len(lowered))
    BY <1>2, <2>1, SleeperSeqCut
  <2> QED BY <1>2, <2>1, <2>2
<1> DEFINE rdy == ready \o a
<1>5. IF SliceEnds THEN KDispatch(rdy, finished) ELSE ready' = rdy /\ running' = running
  BY <1>1
<1> HIDE DEF a, b, slp, lowered
<1>6. rdy \in Seq(Threads) /\ Range(rdy) = Range(ready) \union Range(a)
  BY <1>2, <1>3, AllPut
<1> HIDE DEF rdy
<1>7. Sleepers = Range(slp) /\ Sleepers' = Range(b)
  BY <1>2, <1>4 DEF Sleepers
<1>8. Range(a) \in SUBSET Sleepers /\ Sleepers' = Sleepers \ Range(a)
  BY <1>3, <1>7
<1> QED BY <1>5, <1>6, <1>8

LEMMA TickIsTick ==
    ASSUME IInv, View, View', TimerTick
    PROVE  Life!Next
<1>1. PICK rdy \in Seq(Threads), W \in SUBSET Sleepers :
         /\ Range(rdy) = Range(ready) \union W
         /\ Sleepers' = Sleepers \ W
         /\ IF SliceEnds THEN KDispatch(rdy, finished) ELSE ready' = rdy /\ running' = running
  BY TickWakes
<1>2. UNCHANGED <<created, finished, value, blocked>>
  BY DEF TimerTick
<1>3. running \in Threads /\ running \notin finished
  BY Unfold
<1>4. Statuses[running] = "running"
  BY <1>3 DEF View
<1> DEFINE V == {t \in Threads : t \in W}
<1>5. V \in SUBSET Life!Sleeping /\ \A t \in Threads : t \in V <=> t \in W
  BY DEF View, Life!Sleeping
<1>6. V = W
  <2>1. Sleepers \subseteq Threads
    <3>1. SleeperSeq(sleeping) \in Seq(Threads)
      BY Unfold DEF Queues
    <3> QED BY <3>1, QueuedAreThreads DEF Sleepers
  <2> QED BY <2>1
<1>7. CASE SliceEnds
  <2>1. KDispatch(rdy, finished)
    BY <1>1, <1>7
  <2>2. Life!Give(running, "ready", W)
    BY <1>1, <1>2, <1>3, <2>1, DispatchGives
  <2>3. Life!Tick(running, W)
    BY <1>2, <1>4, <2>2, SameWaits, SamePermits DEF Life!Tick
  <2> QED BY <1>3, <1>5, <1>6, <2>3, <1>4 DEF Life!Next
<1>8. CASE ~SliceEnds
  <2>1. ready' = rdy /\ running' = running
    BY <1>1, <1>8
  <2>2. ASSUME NEW t \in Threads
        PROVE  Statuses'[t] = IF t \in W THEN "ready" ELSE Statuses[t]
    <3>1. CASE t \in W
      BY <1>1, <2>1, <3>1 DEF View
    <3>2. CASE t \notin W
      <4>1. Statuses'[t] = Statuses[t]
        BY <1>1, <1>2, <2>1, <3>2, SameStatus
      <4> QED BY <3>2, <4>1
    <3> QED BY <3>1, <3>2
  <2>3. Statuses' = [u \in Threads |-> IF u \in W THEN "ready" ELSE Statuses[u]]
    BY <2>2, StatusesAreFunctions
  <2>4. Life!Tick(running, W)
    BY <1>2, <1>4, <2>3, SameWaits, SamePermits DEF Life!Tick
  <2> QED BY <1>3, <1>5, <1>6, <2>4, <1>4 DEF Life!Next
<1> QED BY <1>7, <1>8

\* The steps of the kernel that are none of a thread.
LEMMA NoLifeStep ==
    ASSUME View, View', UNCHANGED <<threadVars, sleeping, semVars>>
    PROVE  UNCHANGED Life!vars
<1>1. /\ UNCHANGED <<running, ready, created, finished, sleeping, value, blocked>>
      /\ Sleepers' = Sleepers
  BY DEF threadVars, semVars, Sleepers
<1>2. \A t \in Threads : Statuses'[t] = Statuses[t]
  BY <1>1, SameStatus
<1> QED BY <1>1, <1>2, SameWaits, SamePermits, StatusesAreFunctions DEF Life!vars

LEMMA InitIsLifeInit == Init => Life!Init
<1> SUFFICES ASSUME Init PROVE Life!Init
  OBVIOUS
<1>1. View
  BY InitHolds, ViewHolds
<1>2. /\ ready = <<OThread, Idle, User>> /\ running = Boot /\ finished = {}
      /\ created = {Boot, OThread, Idle, User}
      /\ \A s \in Sems : blocked[s] = <<>>
      /\ value = [s \in Sems |-> 0]
  BY DEF Init
<1>3. Range(ready) = {OThread, Idle, User}
  <2> DEFINE q == <<OThread, Idle, User>>
  <2>1. DOMAIN q = 1..3 /\ q[1] = OThread /\ q[2] = Idle /\ q[3] = User
    OBVIOUS
  <2> HIDE DEF q
  <2>2. Range(q) = {OThread, Idle, User}
    BY <2>1 DEF Range
  <2> QED BY <1>2, <2>2 DEF q
<1>4. BlockedThreads = {}
  BY <1>2 DEF BlockedThreads, Range
<1>5. ASSUME NEW t \in Threads
      PROVE  Statuses[t] = IF t = Boot THEN "running"
                           ELSE IF t \in {OThread, Idle, User} THEN "ready" ELSE "new"
  BY <1>1, <1>2, <1>3 DEF View
<1>6. \A t \in Threads : WaitsFor[t] = NoSem
  BY <1>1, <1>4 DEF View
<1>7. Permits = [s \in Sems |-> 0]
  BY <1>2 DEF Permits
<1>8. /\ Statuses = [t \in Threads |-> IF t = Boot THEN "running"
                       ELSE IF t \in {OThread, Idle, User} THEN "ready" ELSE "new"]
      /\ WaitsFor = [t \in Threads |-> NoSem]
  BY <1>5, <1>6, StatusesAreFunctions
<1> QED BY <1>7, <1>8 DEF Life!Init

LEMMA StepIsLifeStep == IInv /\ IInv' /\ [Next]_vars => [Life!Next]_(Life!vars)
<1> SUFFICES ASSUME IInv, IInv', [Next]_vars PROVE [Life!Next]_(Life!vars)
  OBVIOUS
<1>1. View /\ View'
  BY ViewHolds, NextView
<1>2. CASE ThreadStep
  <2>1. ThreadDispatch => Life!Next
    BY <1>1, DispatchIsYield DEF ThreadDispatch
  <2> QED BY <1>1, <1>2, <2>1, ExitIsExit, CreateIsCreate, SleepIsSleep, OpenIsOpen,
             CloseIsClose, WaitIsPassOrBlock, SignalIsSignalOrFree DEF ThreadStep
<1>3. CASE TimerTick
  BY <1>1, <1>3, TickIsTick
<1>4. CASE OThreadDispatch \/ BootDispatch
  BY <1>1, <1>4, DispatchIsYield DEF OThreadDispatch, BootDispatch
<1>5. CASE BootAdvance \/ Halted \/ UNCHANGED vars
  <2>1. UNCHANGED <<threadVars, sleeping, semVars>>
    BY <1>5 DEF BootAdvance, Halted, vars
  <2> QED BY <1>1, <2>1, NoLifeStep
<1> QED BY <1>2, <1>3, <1>4, <1>5 DEF Next

\* The handlers, with all their queues and counters, implement the life of
\* threads: every step makes legal transitions only, and one call at a time.
THEOREM KernelImplementsLife == Spec => ThreadsLiveLegally
<1>1. IInv /\ [Next]_vars => [Life!Next]_(Life!vars)
  BY NextKeeps, StepIsLifeStep
<1> QED BY <1>1, InitIsLifeInit, InvariantHolds, PTL DEF Spec, ThreadsLiveLegally, Life!Spec

-----------------------------------------------------------------------------
\* SleepClock.

\* time_sleep(0) breaks this; what follows is about sleeps of at least one tick.
DeltasArePositive == Positive(sleeping)

PositiveTicks == \A n \in Ticks : ToInt(n) > 0

\* The abstract counts, read off the list.
ClockView ==
    /\ sleeping \in Seq(Entries(Threads))
    /\ Sleepers = {sleeping[i].tcb : i \in 1..Len(sleeping)}
    /\ DOMAIN Remaining = Sleepers
    /\ Remaining = [t \in Sleepers |-> Remaining[t]]
    /\ \A i \in 1..Len(sleeping) : Remaining[sleeping[i].tcb] = Due(sleeping)[i]

LEMMA ClockViewHolds == IInv => ClockView
<1> SUFFICES ASSUME IInv PROVE ClockView
  OBVIOUS
<1> DEFINE slp == SleeperSeq(sleeping)
<1> DEFINE place(t) == CHOOSE i \in DOMAIN sleeping : sleeping[i].tcb = t
<1>1. /\ sleeping \in Seq(Entries(Threads))
      /\ IsInjective(slp)
  BY Unfold DEF Hold
<1>2. /\ Len(sleeping) \in Nat /\ DOMAIN sleeping = 1..Len(sleeping)
      /\ slp = [i \in 1..Len(sleeping) |-> sleeping[i].tcb]
  BY <1>1, LenProperties DEF SleeperSeq
<1>3. Sleepers = {sleeping[i].tcb : i \in 1..Len(sleeping)}
  BY <1>2 DEF Sleepers, Range
<1>4. /\ DOMAIN Remaining = Sleepers
      /\ Remaining = [t \in Sleepers |-> Remaining[t]]
      /\ \A t \in Sleepers : Remaining[t] = Due(sleeping)[place(t)]
  BY DEF Remaining
<1>5. ASSUME NEW i \in 1..Len(sleeping) PROVE place(sleeping[i].tcb) = i
  <2>1. \A j, k \in 1..Len(sleeping) : sleeping[j].tcb = sleeping[k].tcb => j = k
    BY <1>1, <1>2 DEF IsInjective
  <2>2. \E j \in DOMAIN sleeping : sleeping[j].tcb = sleeping[i].tcb
    BY <1>2
  <2>3. /\ place(sleeping[i].tcb) \in DOMAIN sleeping
        /\ sleeping[place(sleeping[i].tcb)].tcb = sleeping[i].tcb
    BY <2>2
  <2> HIDE DEF place
  <2> QED BY <1>2, <2>1, <2>3
<1> HIDE DEF place, slp
<1>6. \A i \in 1..Len(sleeping) : Remaining[sleeping[i].tcb] = Due(sleeping)[i]
  BY <1>3, <1>4, <1>5
<1> QED BY <1>1, <1>3, <1>4, <1>6 DEF ClockView

LEMMA NextClockView == IInv' => ClockView'
  BY ClockViewHolds, PTL

LEMMA SleepIsClockSleep ==
    ASSUME IInv, ClockView, ClockView', DeltasArePositive,
           NEW ticks \in Ticks, ToInt(ticks) > 0, TimeSleep(ticks)
    PROVE  DeltasArePositive' /\ Clock!Next
<1> DEFINE m == ToInt(ticks)
<1> DEFINE n == Len(sleeping)
<1>1. /\ m \in Int /\ m > 0
      /\ running \in Threads /\ running \notin finished /\ running \notin Sleepers
      /\ sleeping \in Seq(Entries(Threads)) /\ n \in Nat
  <2>1. running \notin Sleepers
    BY Unfold DEF Hold, Sleepers
  <2> QED BY <2>1, Unfold, ToIntIsInt, EntriesAre, NumbersAssumption
<1>2. PICK pos \in 0..n : /\ WalkStopsAt(sleeping, m, pos)
                          /\ sleeping' = InsertSleeper(sleeping, running, m, pos)
  BY <1>1 DEF TimeSleep
<1>3. m \in {ToInt(k) : k \in Ticks}
  OBVIOUS
<1> HIDE DEF m
<1>4. DeltasArePositive'
  BY <1>1, <1>2, InsertedPositive DEF DeltasArePositive
<1>5. /\ Len(sleeping') = n + 1
      /\ \A i \in 1..pos : sleeping'[i].tcb = sleeping[i].tcb
      /\ sleeping'[pos + 1].tcb = running
      /\ \A i \in (pos + 1)..n : sleeping'[i + 1].tcb = sleeping[i].tcb
  <2> DEFINE r == InsertSleeper(sleeping, running, m, pos)
  <2>1. sleeping \in Seq(Entries(Threads)) /\ running \in Threads /\ m \in Int
        /\ pos \in 0..Len(sleeping)
    BY <1>1, <1>2
  <2>2. /\ Len(r) = Len(sleeping) + 1
        /\ \A i \in 1..pos : r[i] = sleeping[i]
        /\ r[pos + 1].tcb = running
        /\ \A i \in (pos + 1)..Len(sleeping) : r[i + 1].tcb = sleeping[i].tcb
    BY <2>1, InsertedEntries
  <2>3. sleeping' = r
    BY <1>2
  <2> HIDE DEF r
  <2> QED BY <2>2, <2>3
<1>6. /\ \A i \in 1..pos : Due(sleeping')[i] = Due(sleeping)[i]
      /\ Due(sleeping')[pos + 1] = m
      /\ \A i \in (pos + 1)..n : Due(sleeping')[i + 1] = Due(sleeping)[i]
  BY <1>1, <1>2, InsertedDue
<1> HIDE DEF n
<1>7. /\ \A i \in 1..n : i \in 1..pos \/ i \in (pos + 1)..n
      /\ \A i \in 1..pos : i \in 1..(n + 1)
      /\ pos + 1 \in 1..(n + 1)
      /\ \A i \in (pos + 1)..n : i + 1 \in 1..(n + 1)
  BY <1>1
<1>8. Remaining'[running] = m
  BY <1>5, <1>6, <1>7 DEF ClockView
<1>9. ASSUME NEW u \in Sleepers PROVE Remaining'[u] = Remaining[u]
  <2>1. PICK i \in 1..n : u = sleeping[i].tcb
    BY <1>9 DEF ClockView, n
  <2>2. Remaining[u] = Due(sleeping)[i]
    BY <2>1 DEF ClockView, n
  <2>3. \A j \in 1..(n + 1) : Remaining'[sleeping'[j].tcb] = Due(sleeping')[j]
    BY <1>5 DEF ClockView
  <2>4. CASE i \in 1..pos
    <3>1. i \in 1..(n + 1) /\ sleeping'[i].tcb = u /\ Due(sleeping')[i] = Due(sleeping)[i]
      BY <1>5, <1>6, <1>7, <2>1, <2>4
    <3> QED BY <2>2, <2>3, <3>1
  <2>5. CASE i \in (pos + 1)..n
    <3>1. /\ i + 1 \in 1..(n + 1)
          /\ sleeping'[i + 1].tcb = u /\ Due(sleeping')[i + 1] = Due(sleeping)[i]
      BY <1>5, <1>6, <1>7, <2>1, <2>5
    <3> QED BY <2>2, <2>3, <3>1
  <2> QED BY <1>7, <2>4, <2>5
<1>10. Sleepers' = Sleepers \union {running}
  BY InsertedSleeps
<1>11. Remaining' = [u \in Sleepers \union {running} |-> IF u = running THEN m ELSE Remaining[u]]
  <2>1. \A u \in Sleepers' : Remaining'[u] = IF u = running THEN m ELSE Remaining[u]
    BY <1>8, <1>9, <1>10
  <2> QED BY <1>10, <2>1 DEF ClockView
<1>12. Clock!Sleep(running, m)
  BY <1>1, <1>11 DEF Clock!Sleep, ClockView
<1> QED BY <1>1, <1>3, <1>4, <1>12 DEF Clock!Next

LEMMA TickIsClockTick ==
    ASSUME IInv, ClockView, ClockView', DeltasArePositive, TimerTick
    PROVE  DeltasArePositive' /\ Clock!Next
<1> DEFINE low == LowerFirst(sleeping, 1)
<1> DEFINE m == Len(sleeping)
<1>1. PICK n \in 0..m : /\ WakesExactly(low, n)
                        /\ sleeping' = SubSeq(low, n + 1, Len(low))
  BY DEF TimerTick
<1>2. /\ sleeping \in Seq(Entries(Threads)) /\ m \in Nat
      /\ low \in Seq(Entries(Threads)) /\ Len(low) = m
      /\ \A i \in 1..m : low[i].tcb = sleeping[i].tcb
      /\ \A i \in 1..m : Due(low)[i] = Due(sleeping)[i] - 1
  <2>1. sleeping \in Seq(Entries(Threads)) /\ 1 \in Int
    BY DEF ClockView
  <2>2. m \in Nat
    BY <2>1, EntriesAre
  <2>3. /\ low \in Seq(Entries(Threads)) /\ Len(low) = m
        /\ \A i \in 1..m : low[i].tcb = sleeping[i].tcb
    BY <2>1, LoweredEntries
  <2>4. \A i \in 1..m : Due(low)[i] = Due(sleeping)[i] - 1
    BY <2>1, LoweredDue
  <2> QED BY <2>1, <2>2, <2>3, <2>4
<1>3. /\ Due(low)[n] = 0
      /\ \A i \in 1..n : Due(sleeping)[i] = 1
      /\ \A i \in (n + 1)..m : Due(sleeping)[i] > 1
      /\ Positive(SubSeq(low, n + 1, Len(low)))
  <2>1. sleeping \in Seq(Entries(Threads)) /\ n \in 0..m /\ Positive(sleeping)
        /\ WakesExactly(low, n)
    BY <1>1, <1>2 DEF DeltasArePositive
  <2> QED BY <2>1, WokenAreDue
<1>4. DeltasArePositive'
  BY <1>1, <1>3 DEF DeltasArePositive
<1> HIDE DEF low, m
<1>5. \A i \in 1..(m - n) : Due(sleeping')[i] = Due(low)[n + i]
  <2>1. TAKE i \in 1..(m - n)
  <2>2. Due(SubSeq(low, n + 1, Len(low)))[i] = Due(low)[n + i]
    BY <1>1, <1>2, <1>3, CutDue, ZenonT(60)
  <2> QED BY <1>1, <2>2
<1>6. /\ Len(sleeping') = m - n
      /\ \A i \in 1..(m - n) : sleeping'[i] = low[n + i]
  BY <1>1, <1>2, SMTT(30)
<1>7. /\ \A i \in 1..(m - n) : n + i \in (n + 1)..m /\ n + i \in 1..m
      /\ \A i \in (n + 1)..m : i - n \in 1..(m - n) /\ n + (i - n) = i
      /\ \A i \in 1..m : i \in 1..n \/ i \in (n + 1)..m
  BY <1>1, <1>2
<1> DEFINE left == {v \in Sleepers : Remaining[v] > 1}
<1>8. ASSUME NEW i \in 1..(m - n)
      PROVE  /\ sleeping'[i].tcb = sleeping[n + i].tcb
             /\ sleeping[n + i].tcb \in left
             /\ Remaining'[sleeping'[i].tcb] = Remaining[sleeping[n + i].tcb] - 1
  <2> DEFINE j == n + i
  <2>1. j \in 1..m /\ j \in (n + 1)..m
    BY <1>7
  <2>2. sleeping'[i] = low[j] /\ Due(sleeping')[i] = Due(low)[j]
    BY <1>5, <1>6
  <2> HIDE DEF j
  <2>3. sleeping'[i].tcb = sleeping[j].tcb /\ Due(sleeping')[i] = Due(sleeping)[j] - 1
    BY <1>2, <2>1, <2>2
  <2>4. Remaining[sleeping[j].tcb] = Due(sleeping)[j] /\ sleeping[j].tcb \in Sleepers
    BY <2>1 DEF ClockView, m
  <2>5. Remaining'[sleeping'[i].tcb] = Due(sleeping')[i]
    BY <1>6 DEF ClockView
  <2>6. Due(sleeping)[j] > 1
    BY <1>3, <2>1
  <2> QED BY <2>3, <2>4, <2>5, <2>6 DEF j
<1>9. \A u \in Sleepers' : \E i \in 1..(m - n) : u = sleeping'[i].tcb
  BY <1>6 DEF ClockView
<1>10. Sleepers' \subseteq left
  BY <1>8, <1>9
<1>11. left \subseteq Sleepers'
  <2>1. SUFFICES ASSUME NEW u \in left PROVE u \in Sleepers'
    OBVIOUS
  <2>2. PICK i \in 1..m : u = sleeping[i].tcb
    BY <2>1 DEF ClockView, m
  <2>3. Remaining[u] = Due(sleeping)[i]
    BY <2>2 DEF ClockView, m
  <2>4. i \in (n + 1)..m
    <3>1. i \notin 1..n
      BY <1>3, <2>1, <2>3
    <3> QED BY <1>7, <3>1
  <2> DEFINE k == i - n
  <2>5. k \in 1..(m - n) /\ n + k = i
    BY <1>7, <2>4
  <2> HIDE DEF k
  <2>6. sleeping'[k].tcb = u
    BY <1>8, <2>2, <2>5
  <2> QED BY <1>6, <2>5, <2>6 DEF ClockView
<1>12. \A u \in Sleepers' : Remaining'[u] = Remaining[u] - 1
  BY <1>8, <1>9
<1>13. Remaining' = [u \in left |-> Remaining[u] - 1]
  BY <1>10, <1>11, <1>12 DEF ClockView
<1>14. Clock!Tick
  BY <1>13 DEF Clock!Tick, ClockView
<1> QED BY <1>4, <1>14 DEF Clock!Next

LEMMA StepIsClockStep ==
    PositiveTicks => (IInv /\ IInv' /\ DeltasArePositive /\ [Next]_vars =>
                        DeltasArePositive' /\ [Clock!Next]_Remaining)
<1> SUFFICES ASSUME PositiveTicks, IInv, IInv', DeltasArePositive, [Next]_vars
             PROVE  DeltasArePositive' /\ [Clock!Next]_Remaining
  OBVIOUS
<1>1. ClockView /\ ClockView'
  BY ClockViewHolds, NextClockView
<1>2. CASE UNCHANGED sleeping
  <2>1. DeltasArePositive'
    BY <1>2 DEF DeltasArePositive
  <2>2. Remaining' = Remaining
    BY <1>2 DEF Remaining, Sleepers
  <2> QED BY <2>1, <2>2
<1>3. CASE \E ticks \in Ticks : TimeSleep(ticks)
  BY <1>1, <1>3, SleepIsClockSleep DEF PositiveTicks
<1>4. CASE TimerTick
  BY <1>1, <1>4, TickIsClockTick
<1>5. \/ UNCHANGED sleeping
      \/ \E ticks \in Ticks : TimeSleep(ticks)
      \/ TimerTick
  BY DEF Next, ThreadStep, ThreadExit, ThreadDispatch, ThreadCreate, SemOpen, SemClose, SemWait,
         SemSignal, OThreadDispatch, BootDispatch, BootAdvance, Halted, vars
<1> QED BY <1>2, <1>3, <1>4, <1>5

LEMMA InitIsClockInit == Init => DeltasArePositive /\ Clock!Init
<1> SUFFICES ASSUME Init PROVE DeltasArePositive /\ Clock!Init
  OBVIOUS
<1>1. sleeping = <<>>
  BY DEF Init
<1>2. ClockView
  BY InitHolds, ClockViewHolds
<1>3. Sleepers = {}
  BY <1>1, <1>2 DEF ClockView
<1>4. Remaining = [t \in {} |-> 0]
  BY <1>2, <1>3 DEF ClockView
<1> QED BY <1>1, <1>4 DEF DeltasArePositive, Positive, Clock!Init

\* The list of deltas implements one counter per sleeping thread, when every
\* sleep is of at least one tick.  (time_sleep(0) breaks that, as a run shows.)
THEOREM KernelSleepsExactly == PositiveTicks => (Spec => SleepIsExact)
<1> SUFFICES ASSUME PositiveTicks PROVE Spec => SleepIsExact
  OBVIOUS
<1>1. IInv /\ IInv' /\ DeltasArePositive /\ [Next]_vars => DeltasArePositive' /\ [Clock!Next]_Remaining
  BY StepIsClockStep
<1> QED BY <1>1, InitIsClockInit, InvariantHolds, PTL DEF Spec, SleepIsExact, Clock!Spec

=============================================================================
